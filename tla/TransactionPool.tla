---------------------------- MODULE TransactionPool ----------------------------
(***************************************************************************)
(* core/transaction/TransactionPool.ts.  Every method is synchronous, so a   *)
(* call is one action; a call that is refused changes nothing and is not a   *)
(* step.  Txs are transactions that pass the checks on fields, hash and      *)
(* signature; the checks on gas are made here.                              *)
(***************************************************************************)
EXTENDS Integers, FiniteSets

CONSTANTS
    Txs,         \* records with at least gasPrice and gasLimit
    MaxPoolSize, \* this.maxPoolSize
    MinGasPrice, \* this.minGasPrice
    MaxGasLimit, \* 10000000 in the code
    MaxAdded     \* bound: admissions

VARIABLES
    pendingTransactions,   \* [tx -> its place in the insertion order of the Map]
    processedTransactions, \* the Set
    admitted                  \* admissions so far

poolVars == <<pendingTransactions, processedTransactions, admitted>>

Pending == DOMAIN pendingTransactions

Init ==
    /\ pendingTransactions = [t \in {} |-> 0]
    /\ processedTransactions = {}
    /\ admitted = 0

-----------------------------------------------------------------------------
\* validateTransaction, the part that is not about the transaction's own fields.
Valid(t) == t.gasPrice >= MinGasPrice /\ t.gasLimit <= MaxGasLimit

\* evictOldestTransaction: the first of the Map, once the pool is full.
Evicted ==
    IF Cardinality(Pending) < MaxPoolSize THEN {}
    ELSE {t \in Pending : \A u \in Pending : pendingTransactions[t] <= pendingTransactions[u]}

\* Mutant of AddTransaction: only what is pending counts as known.
AddTransactionAgain(t) ==
    /\ admitted < MaxAdded
    /\ Valid(t)
    /\ t \notin Pending
    /\ pendingTransactions' = [u \in (Pending \ Evicted) \cup {t} |->
                                  IF u = t THEN admitted + 1 ELSE pendingTransactions[u]]
    /\ admitted' = admitted + 1
    /\ UNCHANGED processedTransactions

AddTransaction(t) ==
    /\ admitted < MaxAdded
    /\ Valid(t)
    /\ t \notin Pending \cup processedTransactions
    /\ pendingTransactions' = [u \in (Pending \ Evicted) \cup {t} |->
                                  IF u = t THEN admitted + 1 ELSE pendingTransactions[u]]
    /\ admitted' = admitted + 1
    /\ UNCHANGED processedTransactions

Without(S) == [u \in Pending \ S |-> pendingTransactions[u]]

RemoveTransaction(t) ==
    /\ t \in Pending
    /\ pendingTransactions' = Without({t})
    /\ UNCHANGED <<processedTransactions, admitted>>

MarkTransactionsProcessed(S) ==
    /\ pendingTransactions' = Without(S)
    /\ processedTransactions' = processedTransactions \cup S
    /\ UNCHANGED admitted

Clear ==
    /\ pendingTransactions' = Without(Pending)
    /\ UNCHANGED <<processedTransactions, admitted>>

Next ==
    \/ \E t \in Txs : AddTransaction(t) \/ RemoveTransaction(t)
    \/ \E S \in SUBSET Txs : MarkTransactionsProcessed(S)
    \/ Clear

Spec == Init /\ [][Next]_poolVars

-----------------------------------------------------------------------------
TypeOK ==
    /\ Pending \subseteq Txs
    /\ \A t \in Pending : pendingTransactions[t] \in 1 .. admitted
    /\ processedTransactions \subseteq Txs
    /\ admitted \in 0 .. MaxAdded

Abstract == INSTANCE AbstractPool WITH pending <- Pending, processed <- processedTransactions

\* Seen through its pending and processed transactions the pool keeps the
\* promise of AbstractPool: what was processed never becomes pending again.
ImplementsAbstractPool == Abstract!Spec
=============================================================================
