------------------------ MODULE ContractExecutionEngine ------------------------
(***************************************************************************)
(* core/contracts/ContractExecutionEngine.ts and SmartContract.ts.  A          *)
(* contract is an object of the caller's: the engine maps addresses to such      *)
(* objects, and one taken out of its map keeps its state.  A call changes the     *)
(* contract at once and is counted some promises later, after other calls of       *)
(* the same tick, a snapshot, a reset; calls are counted in the order they          *)
(* began.  The timeout never comes first, as no promise waits for anything, and    *)
(* the check for reentrancy reads a counter nobody counts.                           *)
(* Block number and time stamp, which only label events, and the balance, which no *)
(* call reads or changes, are left out.                                             *)
(***************************************************************************)
EXTENDS Integers, Sequences, FiniteSets, Maps

CONSTANTS
    Objects,      \* contracts callers have made
    AddressOf,    \* object -> address
    ABI,          \* object -> [functions : name -> function, events : BOOLEAN]
    Names,        \* names of functions callers ask for
    GasLimits,    \* gas limits of calls, within maxGasLimit
    MaxMs,        \* bound: milliseconds that pass
    MaxRunning,   \* bound: calls not counted yet
    MaxNonce,     \* bound: changes of one contract
    MaxCount,     \* bound: calls counted
    MaxSnapshots  \* bound: snapshots taken

VARIABLES
    execMs,
    objectState,  \* object -> [nonce, storage]: storage by <<function, millisecond>>
    environment,  \* [contracts : address -> object, gasUsed, logs]
    stats,        \* [deployments, count, totalGas, success]
    running,      \* calls not counted yet, in order: <<[gas, events, success]>>
    saved         \* the snapshots taken: {[states, gasUsed, stats]}

executionVars == <<execMs, objectState, environment, stats, running, saved>>

NoContracts == [contracts |-> Empty, gasUsed |-> 0, logs |-> <<>>]
NoStats == [deployments |-> 0, count |-> 0, totalGas |-> 0, success |-> 0]

Init ==
    /\ execMs = 0
    /\ objectState = [o \in Objects |-> [nonce |-> 0, storage |-> {}]]
    /\ environment = NoContracts /\ stats = NoStats
    /\ running = <<>> /\ saved = {}

-----------------------------------------------------------------------------
\* The default rules; a rule that only warns, of much gas, refuses as well, and
\* every ABI has a `constructor', the one all objects inherit.
Callable(function) == function.visibility \in {"public", "external"}
Valid(o) ==
    LET functions == {ABI[o].functions[name] : name \in DOMAIN ABI[o].functions}
    IN  /\ \E f \in functions : Callable(f)
        /\ \A f \in functions : ~(f.inputs = <<>> /\ f.outputs = 0) /\ f.gasLimit <= 1000000

\* deployContract: in the place of whatever has the address.
DeployContract(o) ==
    /\ Valid(o)
    /\ environment' = [environment EXCEPT !.contracts = Put(@, AddressOf[o], o)]
    /\ stats' = [stats EXCEPT !.deployments = @ + 1]
    /\ UNCHANGED <<execMs, objectState, running, saved>>

\* calculateGasUsage: what the call may spend is not asked.
GasUsage(function) ==
    LET arguments == Len(function.inputs)
        Cost(type) == CASE type = "string" -> 100 + 10 * arguments [] type = "bytes" -> 100 [] OTHER -> 50
    IN  21000 + Sum([i \in DOMAIN function.inputs |-> Cost(function.inputs[i])])
              + (IF function.gasLimit = 0 THEN 50000 ELSE function.gasLimit)

\* What executeFunction asks before it runs a function, and the change that
\* one makes which is neither view nor pure.
Runs(o, name, gasLimit, argumentsFit) ==
    /\ name \in DOMAIN ABI[o].functions /\ Callable(ABI[o].functions[name])
    /\ ABI[o].functions[name].gasLimit # 0 \/ gasLimit # 0
    /\ argumentsFit
Changes(o, name) == ABI[o].functions[name].mutability \in {"nonpayable", "payable"}
Changed(state, name) == [nonce |-> state.nonce + 1, storage |-> state.storage \cup {<<name, execMs>>}]

\* canReceiveValue
CanReceiveValue(o, name) == name \in DOMAIN ABI[o].functions /\ ABI[o].functions[name].mutability = "payable"

\* executeContract up to its first await.  A value for a function that is not
\* payable is refused at once and not counted; what executeFunction refuses is
\* counted as a failure that used no gas.  The value is credited to nobody.
ExecuteContract(a, name, paid, gasLimit, argumentsFit) ==
    /\ a \in DOMAIN environment.contracts /\ Len(running) < MaxRunning
    /\ stats.count + Len(running) < MaxCount
    /\ LET o == environment.contracts[a]
           runs == Runs(o, name, gasLimit, argumentsFit)
           changes == runs /\ Changes(o, name)
       IN  /\ paid => CanReceiveValue(o, name)
           /\ changes => objectState[o].nonce < MaxNonce
           /\ objectState' = IF changes THEN [objectState EXCEPT ![o] = Changed(@, name)] ELSE objectState
           /\ running' = Append(running, [gas |-> IF runs THEN GasUsage(ABI[o].functions[name]) ELSE 0, success |-> runs,
                                          events |-> IF changes /\ ABI[o].events THEN <<a>> ELSE <<>>])
    /\ UNCHANGED <<execMs, environment, stats, saved>>

\* The rest of it, whatever became of the contract since.
ExecutionCounted ==
    /\ running # <<>>
    /\ LET done == Head(running)
       IN  /\ environment' = [environment EXCEPT !.gasUsed = @ + done.gas, !.logs = @ \o done.events]
           /\ stats' = [stats EXCEPT !.count = @ + 1, !.totalGas = @ + done.gas,
                                     !.success = @ + (IF done.success THEN 1 ELSE 0)]
    /\ running' = Tail(running)
    /\ UNCHANGED <<execMs, objectState, saved>>

-----------------------------------------------------------------------------
ClearLogs ==
    /\ environment' = [environment EXCEPT !.logs = <<>>]
    /\ UNCHANGED <<execMs, objectState, stats, running, saved>>

\* reset: the contracts are let go, and what runs will be counted all the same.
Reset ==
    /\ environment' = NoContracts /\ stats' = NoStats
    /\ UNCHANGED <<execMs, objectState, running, saved>>

\* createSnapshot, of the contracts' states as they are at the call.
CreateSnapshot ==
    /\ Cardinality(saved) < MaxSnapshots
    /\ saved' = saved \cup
            {[states |-> [a \in DOMAIN environment.contracts |-> objectState[environment.contracts[a]]],
              gasUsed |-> environment.gasUsed, stats |-> stats]}
    /\ UNCHANGED <<execMs, objectState, environment, stats, running>>

\* restoreSnapshot brings the counts back and no contract.
RestoreSnapshot ==
    /\ \E s \in saved :
        /\ s.stats.count + Len(running) <= MaxCount
        /\ environment' = [NoContracts EXCEPT !.gasUsed = s.gasUsed] /\ stats' = s.stats
    /\ UNCHANGED <<execMs, objectState, running, saved>>

\* deserializeState, by a caller who has the object and the snapshot.
DeserializeState(o) ==
    /\ \E s \in saved :
        /\ AddressOf[o] \in DOMAIN s.states
        /\ objectState' = [objectState EXCEPT ![o] = s.states[AddressOf[o]]]
    /\ UNCHANGED <<execMs, environment, stats, running, saved>>

MillisecondPasses ==
    /\ execMs < MaxMs /\ execMs' = execMs + 1
    /\ UNCHANGED <<objectState, environment, stats, running, saved>>

Next ==
    \/ \E o \in Objects : stats.deployments < MaxCount /\ DeployContract(o)
    \/ \E a \in DOMAIN environment.contracts, name \in Names, gasLimit \in GasLimits, paid, argumentsFit \in BOOLEAN :
          ExecuteContract(a, name, paid, gasLimit, argumentsFit)
    \/ ExecutionCounted
    \/ ClearLogs \/ Reset \/ CreateSnapshot \/ RestoreSnapshot
    \/ \E o \in Objects : DeserializeState(o)
    \/ MillisecondPasses

Spec == Init /\ [][Next]_executionVars

-----------------------------------------------------------------------------
TypeOK ==
    /\ execMs \in 0..MaxMs
    /\ \A o \in Objects : objectState[o] \in [nonce : 0..MaxNonce, storage : SUBSET (Names \X (0..MaxMs))]
    /\ \A a \in DOMAIN environment.contracts : AddressOf[environment.contracts[a]] = a
    /\ stats \in [deployments : 0..MaxCount, count : 0..MaxCount, totalGas : Nat, success : Nat]
    /\ Len(running) <= MaxRunning

\* The counts agree, through calls counted after a reset or a restore: the gas
\* of the environment is the gas of the statistics, every event in the log is
\* of a call counted as a success, and no contract is there undeployed.
CountsAgree ==
    /\ environment.gasUsed = stats.totalGas
    /\ Len(environment.logs) <= stats.success /\ stats.success <= stats.count
    /\ Cardinality(DOMAIN environment.contracts) <= stats.deployments

\* A contract's nonce covers its storage, whichever snapshot it was set back to:
\* two calls of one function in one millisecond write one entry.
StorageWithinNonce ==
    \A o \in Objects :
        /\ Cardinality(objectState[o].storage) <= objectState[o].nonce
        /\ objectState[o].nonce > 0 => objectState[o].storage # {}
=============================================================================
