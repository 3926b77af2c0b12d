----------------------------- MODULE BlockSelection -----------------------------
(***************************************************************************)
(* How EnhancedTransactionPool.ts fills a block and counts attempts: the pool *)
(* with the part of its entries EnhancedTransactionPool.tla leaves out, which *)
(* nothing else of the pool depends on.  Transactions are alike in value and  *)
(* were created at time 0.                                                    *)
(***************************************************************************)
EXTENDS EnhancedTransactionPool, Sequences, Maps

CONSTANTS
    DataLength, \* transaction -> characters of data
    GasLimits,  \* of blocks
    Sizes,      \* the most transactions of a block
    Cooldown,   \* 60000 in the code
    MaxAttempts \* bound: attempts at a transaction

VARIABLE tried \* pending transaction -> [retryCount, lastAttempt]

selectionVars == <<pending, processed, blacklisted, accountTransactions, nonceTracker,
                   config, now, spinning, added, updates, protected, tried>>
poolState == vars

\* lastAttempt is 0 at first, which was long ago.
NotAttempted == [retryCount |-> 0, lastAttempt |-> -Cooldown - 1]

SelectionInit == Init /\ tried = [t \in {} |-> NotAttempted]

\* Whatever the pool does, an entry comes with its counters and goes with them.
PoolStep ==
    /\ Next
    /\ tried' = [t \in DOMAIN pending' |-> IF t \in Pending THEN tried[t] ELSE NotAttempted]

-----------------------------------------------------------------------------
\* estimateGas: 68 for every two characters of data.
GasNeeded(t) == 21000 + 34 * DataLength[t]

\* calculateTransactionPriority, in thousandths, as of the admission.  The age is
\* taken off, so of two at one price the younger comes first.
Priority(t) == LET priority == 1000 * t.gasPrice - pending[t].addedAt IN IF priority < 0 THEN 0 ELSE priority

\* sortTransactions, equals staying in the order of the Map.
Rank(t, strategy) ==
    CASE strategy = "PRIORITY" -> -Priority(t)
      [] strategy = "PRICE"    -> -t.gasPrice
      [] strategy = "FIFO"     -> pending[t].addedAt

ComesBefore(t, u, strategy) ==
    \/ Rank(t, strategy) < Rank(u, strategy)
    \/ Rank(t, strategy) = Rank(u, strategy) /\ pending[t].place < pending[u].place
Turn(t, strategy) == 1 + Cardinality({u \in Pending : ComesBefore(u, t, strategy)})
Sorted(strategy) == [n \in 1..Cardinality(Pending) |-> CHOOSE t \in Pending : Turn(t, strategy) = n]

GasOf(txs) ==
    LET gas[n \in 0..Len(txs)] == IF n = 0 THEN 0 ELSE gas[n - 1] + GasNeeded(txs[n])
    IN  gas[Len(txs)]

\* The transactions for a block: as many from the front as fit, stopping at the
\* first that does not.
Selected(strategy, gasLimit, size) ==
    LET sorted == Sorted(strategy)
        fitting == {n \in 0..Len(sorted) : n <= size /\ GasOf(SubSeq(sorted, 1, n)) <= gasLimit}
    IN  SubSeq(sorted, 1, CHOOSE n \in fitting : \A m \in fitting : m <= n)

Attempted(S) ==
    tried' = [t \in Pending |-> IF t \in S THEN [retryCount |-> tried[t].retryCount + 1, lastAttempt |-> now]
                                   ELSE tried[t]]

GetTransactionsForBlock(strategy, gasLimit, size) ==
    LET selected == ToSet(Selected(strategy, gasLimit, size)) IN
    /\ selected # {} /\ \A t \in selected : tried[t].retryCount < MaxAttempts
    /\ Attempted(selected)
    /\ UNCHANGED poolState

\* retryFailedTransactions: those never attempted are among them.
RetryFailedTransactions(maxRetries) ==
    LET retryable == {t \in Pending : tried[t].retryCount < maxRetries /\ now - tried[t].lastAttempt > Cooldown} IN
    /\ retryable # {} /\ \A t \in retryable : tried[t].retryCount < MaxAttempts
    /\ Attempted(retryable)
    /\ UNCHANGED poolState

SelectionNext ==
    \/ PoolStep
    \/ /\ ~spinning
       /\ \/ \E strategy \in {"PRIORITY", "PRICE", "FIFO"}, gasLimit \in GasLimits, size \in Sizes :
                GetTransactionsForBlock(strategy, gasLimit, size)
          \/ \E maxRetries \in 1..MaxAttempts : RetryFailedTransactions(maxRetries)

SelectionSpec == SelectionInit /\ [][SelectionNext]_selectionVars

-----------------------------------------------------------------------------
SelectionTypeOK ==
    /\ TypeOK
    /\ DOMAIN tried = Pending
    /\ \A t \in Pending : tried[t].retryCount \in 0..MaxAttempts /\ tried[t].lastAttempt <= now

\* A block filled in FIFO order can be executed: with a transaction it has all
\* that are pending of its account with lower nonces, in order and before it,
\* wherever the gas or the size cut it off, as long as spam protection stays on.
\* (By price or priority it may have a later nonce first, which the ledger refuses.)
BlockIsExecutable ==
    protected => \A gasLimit \in GasLimits, size \in Sizes :
        LET block == Selected("FIFO", gasLimit, size) IN
        \A i \in DOMAIN block : \A t \in Pending :
            t.from = block[i].from /\ t.nonce < block[i].nonce => \E j \in 1..(i - 1) : block[j] = t

\* Every strategy keeps to the gas and the size of the block, and one filled by
\* price leaves nothing out that pays more than what is in it.
BlockWithinLimits ==
    \A strategy \in {"PRIORITY", "PRICE", "FIFO"}, gasLimit \in GasLimits, size \in Sizes :
        LET block == Selected(strategy, gasLimit, size) IN
        /\ GasOf(block) <= gasLimit /\ Len(block) <= size
        /\ strategy = "PRICE" => \A t \in Pending \ ToSet(block), u \in ToSet(block) : t.gasPrice <= u.gasPrice
=============================================================================
