-------------------------------- MODULE Ledger --------------------------------
(***************************************************************************)
(* core/blockchain/Ledger.ts: account balances and nonces, changed only by   *)
(* whole blocks.  addBlock is synchronous; a block it refuses changes        *)
(* nothing and is not a step.  The account map of a block is a copy that     *)
(* replaces the ledger's own only when the last check is passed.             *)
(*                                                                         *)
(* The ledger takes transactions as they come: it checks neither their       *)
(* signatures nor the block's transactionsRoot.  The blocks offered here are *)
(* what an author makes with the checks of block.ts, on any block known and  *)
(* with any number and gasUsed.                                             *)
(***************************************************************************)
EXTENDS Integers, Sequences, FiniteSets, Functions

CONSTANTS
    Alloc,     \* genesisBlock.alloc: [address -> [balance, nonce]]
    LedgerTxs, \* records with from, to, value, nonce, gasLimit and gasPrice
    MaxHeight, \* bound: blocks after the genesis block
    MaxTxs     \* bound: transactions of a block

\* Amounts are decimal strings of whole numbers, which nothing here takes for positive.
ASSUME LedgerAssumption ==
    /\ IsFiniteSet(DOMAIN Alloc)
    /\ Alloc \in [DOMAIN Alloc -> [balance : Int, nonce : Nat]]
    /\ \A tx \in LedgerTxs : tx.value \in Int /\ tx.gasLimit \in Int /\ tx.gasPrice \in Int
    /\ MaxHeight \in Nat /\ MaxTxs \in Nat

VARIABLES
    latestBlock,  \* state.latestBlock
    blocks,       \* state.blocks: [hash -> block]
    blockHashes,  \* state.blockHashes: [number -> hash]
    accountStates \* state.accountStates: [address -> [balance, nonce]]

ledgerVars == <<latestBlock, blocks, blockHashes, accountStates>>

\* What a header's hash tells apart: its parent, and what it says itself.
Header == [number : Nat, gasUsed : Nat, transactions : Seq(LedgerTxs)]
HashOf(b) == Append(b.parentHash, [number |-> b.number, gasUsed |-> b.gasUsed,
                                   transactions |-> b.transactions])

Genesis == [parentHash |-> <<>>, number |-> 0, gasUsed |-> 0, transactions |-> <<>>,
            hash |-> <<[number |-> 0, gasUsed |-> 0, transactions |-> <<>>]>>, signed |-> FALSE]

LedgerInit ==
    /\ latestBlock = Genesis
    /\ blocks = [h \in {Genesis.hash} |-> Genesis]
    /\ blockHashes = [n \in {0} |-> Genesis.hash]
    /\ accountStates = Alloc

-----------------------------------------------------------------------------
\* Map.set, on a copy.
Set(map, key, value) == [k \in DOMAIN map \cup {key} |-> IF k = key THEN value ELSE map[k]]

GasCost(tx) == tx.gasLimit * tx.gasPrice
TotalCost(tx) == tx.value + GasCost(tx)

\* Mutant of CanExecute: a nonce ahead of the account's is taken as well.
CanExecuteAhead(accounts, tx) ==
    /\ tx.from \in DOMAIN accounts
    /\ tx.nonce >= accounts[tx.from].nonce
    /\ accounts[tx.from].balance >= TotalCost(tx)

\* processTransaction: when it succeeds.
CanExecute(accounts, tx) ==
    /\ tx.from \in DOMAIN accounts
    /\ tx.nonce = accounts[tx.from].nonce
    /\ accounts[tx.from].balance >= TotalCost(tx)

\* Mutant of Execute: a recipient it has to create gets the value twice.
ExecuteTwice(accounts, tx) ==
    LET sender == accounts[tx.from]
        recipient == IF tx.to \in DOMAIN accounts THEN accounts[tx.to]
                     ELSE [balance |-> tx.value, nonce |-> 0]
        debited == Set(accounts, tx.from, [balance |-> sender.balance - TotalCost(tx),
                                           nonce |-> sender.nonce + 1])
    IN Set(debited, tx.to, [recipient EXCEPT !.balance = @ + tx.value])

\* processTransaction: what it does.  The recipient's account is read before
\* the sender's is written, and written last.
Execute(accounts, tx) ==
    LET sender == accounts[tx.from]
        recipient == IF tx.to \in DOMAIN accounts THEN accounts[tx.to]
                     ELSE [balance |-> 0, nonce |-> 0]
        debited == Set(accounts, tx.from, [balance |-> sender.balance - TotalCost(tx),
                                           nonce |-> sender.nonce + 1])
    IN Set(debited, tx.to, [recipient EXCEPT !.balance = @ + tx.value])

\* One turn of the loop of processBlock: the first transaction that fails ends it.
Process(s, tx) ==
    IF s.success /\ CanExecute(s.accounts, tx)
    THEN [s EXCEPT !.accounts = Execute(s.accounts, tx), !.gas = @ + tx.gasLimit]
    ELSE [s EXCEPT !.success = FALSE]

\* The loop, from a copy of the accounts.
ProcessAll(txs) ==
    LET after[i \in 0 .. Len(txs)] ==
            IF i = 0 THEN [accounts |-> accountStates, gas |-> 0, success |-> TRUE]
            ELSE Process(after[i - 1], txs[i])
    IN  after[Len(txs)]

\* Mutant of Links: the number is not looked at.
LinksByHash(b) == b.parentHash = latestBlock.hash

\* addBlock's checks on the place of a block in the chain.
Links(b) ==
    /\ b.parentHash = latestBlock.hash
    /\ b.number = latestBlock.number + 1

\* addBlock: validateBlock, the link, the signature, then processBlock.
AddBlock(b) ==
    /\ b.hash = HashOf(b)
    /\ Links(b)
    /\ b.signed
    /\ ProcessAll(b.transactions).success
    /\ ProcessAll(b.transactions).gas = b.gasUsed
    /\ latestBlock' = b
    /\ accountStates' = ProcessAll(b.transactions).accounts
    /\ blockHashes' = Set(blockHashes, b.number, b.hash)
    /\ blocks' = Set(blocks, b.hash, b)

TxLists == UNION {[1 .. n -> LedgerTxs] : n \in 0 .. MaxTxs}

Body(parent, number, gas, txs) ==
    [parentHash |-> parent, number |-> number, gasUsed |-> gas, transactions |-> txs]

\* What is offered: a block on any known parent, with a right or a wrong
\* number, gasUsed, hash and signature.
LedgerNext ==
    \E parent \in DOMAIN blocks, number \in 1 .. MaxHeight, txs \in TxLists, signed \in BOOLEAN :
        \E gas \in {ProcessAll(txs).gas, 0} :
            LET body == Body(parent, number, gas, txs) IN
            \E hash \in {HashOf(body), parent} :
                AddBlock([parentHash |-> parent, number |-> number, gasUsed |-> gas,
                          transactions |-> txs, hash |-> hash, signed |-> signed])

LedgerSpec == LedgerInit /\ [][LedgerNext]_ledgerVars

-----------------------------------------------------------------------------
LedgerTypeOK ==
    /\ latestBlock \in [parentHash : Seq(Header), hash : Seq(Header), number : 0 .. MaxHeight,
                        gasUsed : Nat, transactions : Seq(LedgerTxs), signed : BOOLEAN]
    /\ \A h \in DOMAIN blocks : h \in Seq(Header) /\ blocks[h].hash = h
    /\ \A n \in DOMAIN blockHashes : blockHashes[n] \in DOMAIN blocks
    /\ \A a \in DOMAIN accountStates : accountStates[a] \in [balance : Nat, nonce : Nat]

\* The chain found by number and the chain found by hash are one: every number
\* up to the latest names a known block of that number, linked to the one
\* before it, and no other block is kept.
ChainLinked ==
    /\ DOMAIN blockHashes = 0 .. latestBlock.number
    /\ blockHashes[latestBlock.number] = latestBlock.hash
    /\ blockHashes[0] = Genesis.hash
    /\ DOMAIN blocks = {blockHashes[n] : n \in 0 .. latestBlock.number}
    /\ \A n \in 0 .. latestBlock.number : blocks[blockHashes[n]].number = n
    /\ \A n \in 1 .. latestBlock.number :
           blocks[blockHashes[n]].parentHash = blockHashes[n - 1]

\* Where the transactions of the chain stand, and what stands there.
Places == UNION {{n} \X DOMAIN blocks[blockHashes[n]].transactions : n \in 1 .. latestBlock.number}
TxAt(p) == blocks[blockHashes[p[1]]].transactions[p[2]]
Before(p, q) == p[1] < q[1] \/ (p[1] = q[1] /\ p[2] < q[2])

FirstNonce(a) == IF a \in DOMAIN Alloc THEN Alloc[a].nonce ELSE 0
Sent(a) == {p \in Places : TxAt(p).from = a /\ TxAt(p).to # a}

\* An account's transfers to others stand in the chain in the order of their
\* nonces without a gap, and the account's nonce is the next: none is executed
\* twice, in one block or across blocks.
SentInNonceOrder ==
    \A a \in DOMAIN accountStates :
        /\ accountStates[a].nonce >= FirstNonce(a)
        /\ {TxAt(p).nonce : p \in Sent(a)} = FirstNonce(a) .. accountStates[a].nonce - 1
        /\ \A p, q \in Sent(a) : Before(p, q) => TxAt(p).nonce < TxAt(q).nonce

Sum(amounts) == FoldFunction(+, 0, amounts)
Total(accounts) == Sum([a \in DOMAIN accounts |-> accounts[a].balance])

\* What a transaction takes out of the accounts, and what it brings in: a transfer
\* to oneself is credited and not debited.
Burnt(tx) == IF tx.from # tx.to THEN GasCost(tx) ELSE 0
Minted(tx) == IF tx.from = tx.to THEN tx.value ELSE 0

\* What the accounts hold and what was paid for gas is what the genesis block
\* allocated and what transfers to oneself brought in, whatever blocks were added.
FundsAccounted ==
    Total(accountStates) + Sum([p \in Places |-> Burnt(TxAt(p))])
        = Total(Alloc) + Sum([p \in Places |-> Minted(TxAt(p))])
=============================================================================
