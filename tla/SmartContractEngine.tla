-------------------------- MODULE SmartContractEngine --------------------------
(***************************************************************************)
(* core/smartcontracts/SmartContractEngine.ts: contracts with the functions   *)
(* of a token, each call one step.  A contract's address is made of its       *)
(* deployer and the number of contracts when the call begins; with constructor *)
(* arguments the contract is stored a microtask later, and one begun meanwhile *)
(* by the same deployer gets the same address and takes its place.  A          *)
(* constructor the ABI declares has no name and cannot be executed, so         *)
(* deployERC20Token always fails and no supply is ever made: every balance     *)
(* starts from nothing.  No function refuses an amount below zero.             *)
(***************************************************************************)
EXTENDS Integers, FiniteSets, Maps

CONSTANTS
    Parties,
    Amounts,
    MaxContracts,  \* bound: contracts and deployments begun
    Called,        \* bound: the contracts whose functions are called
    MaxBalance     \* bound: of a balance either way

VARIABLES
    deployed,   \* address -> [owner, balances, allowances]
    deploying,  \* deployments whose constructor is awaited: {[address, owner, call]}
    begun       \* deployments begun

engineState == <<deployed, deploying, begun>>

Init == deployed = Empty /\ deploying = {} /\ begun = 0

\* generateContractAddress
GenerateContractAddress(from) == <<from, Cardinality(DOMAIN deployed)>>

NewContract(owner) ==
    [owner |-> owner, balances |-> [p \in Parties |-> 0], allowances |-> [p \in Parties |-> [q \in Parties |-> 0]]]

\* deployContract: without arguments at once.  With arguments and a constructor
\* in the ABI it fails, as deployERC20Token does, and nothing changes.
DeployContract(from) ==
    /\ begun < MaxContracts /\ begun' = begun + 1
    /\ \/ /\ deployed' = Put(deployed, GenerateContractAddress(from), NewContract(from))
          /\ UNCHANGED deploying
       \/ /\ deploying' = deploying \cup {[address |-> GenerateContractAddress(from), owner |-> from, call |-> begun]}
          /\ UNCHANGED deployed

ConstructorDone(d) ==
    /\ d \in deploying /\ deploying' = deploying \ {d}
    /\ deployed' = Put(deployed, d.address, NewContract(d.owner))
    /\ UNCHANGED begun

Bounded(balances) == \A p \in Parties : balances[p] \in (-MaxBalance)..MaxBalance

\* The two writes of a transfer; the second reads after the first.
Moved(balances, from, to, amount) ==
    LET taken == [balances EXCEPT ![from] = @ - amount] IN [taken EXCEPT ![to] = @ + amount]

\* executeFunction's transfer.
Transfer(a, from, to, amount) ==
    LET balances == deployed[a].balances
        moved == Moved(balances, from, to, amount)
    IN  /\ balances[from] >= amount /\ Bounded(moved)
        /\ deployed' = [deployed EXCEPT ![a].balances = moved]
        /\ UNCHANGED <<deploying, begun>>

Approve(a, from, spender, amount) ==
    /\ deployed' = [deployed EXCEPT ![a].allowances[from][spender] = amount]
    /\ UNCHANGED <<deploying, begun>>

\* The code begun the owner, its first argument, the spender.
TransferFrom(a, from, owner, to, amount) ==
    LET c == deployed[a]
        moved == Moved(c.balances, owner, to, amount)
    IN  /\ c.allowances[owner][from] >= amount /\ c.balances[owner] >= amount
        /\ Bounded(moved) /\ c.allowances[owner][from] - amount <= MaxBalance
        /\ deployed' = [deployed EXCEPT ![a].balances = moved, ![a].allowances[owner][from] = @ - amount]
        /\ UNCHANGED <<deploying, begun>>

\* callContract of a function the ABI has; one it has not, and one that throws,
\* only answer success: false.
CallContract(a, from, to, amount) ==
    \/ Transfer(a, from, to, amount)
    \/ Approve(a, from, to, amount)
    \/ \E owner \in Parties : TransferFrom(a, from, owner, to, amount)

Next ==
    \/ \E from \in Parties : DeployContract(from)
    \/ \E d \in deploying : ConstructorDone(d)
    \/ \E a \in Called \cap DOMAIN deployed, from \in Parties, to \in Parties, amount \in Amounts :
        CallContract(a, from, to, amount)

Spec == Init /\ [][Next]_engineState

-----------------------------------------------------------------------------
\* queryContract's balanceOf and totalSupply.
BalanceOf(a, p) == deployed[a].balances[p]
TotalSupply(a) == 0

TypeOK ==
    /\ IsMap(deployed, Parties \X (0..MaxContracts),
             [owner : Parties, balances : [Parties -> Int], allowances : [Parties -> [Parties -> Int]]])
    /\ deploying \subseteq [address : Parties \X (0..MaxContracts), owner : Parties, call : 0..MaxContracts]
    /\ begun \in 0..MaxContracts

\* The balances of a contract add up to its total supply, which nothing makes,
\* through transfers to others and to oneself, with and without an allowance.
SupplyIsKept ==
    \A a \in DOMAIN deployed : Sum([p \in Parties |-> BalanceOf(a, p)]) = TotalSupply(a)
=============================================================================
