--------------------------- MODULE MCLedgerAndPools ---------------------------
(***************************************************************************)
(* Finite instances of the ledger and of the two transaction pools.  No       *)
(* entry point of the program connects them, so each runs by itself: `part'  *)
(* says which one a behaviour is about, and the other two stand still.       *)
(***************************************************************************)
EXTENDS EnhancedTransactionPool, Ledger, TLC

CONSTANTS MaxPoolSize, MinGasPrice, MaxGasLimit

VARIABLES
    part,
    pendingTransactions, processedTransactions, admitted \* TransactionPool

TheBasicPool == INSTANCE TransactionPool

basicVars == <<pendingTransactions, processedTransactions, admitted>>

\* Transactions of two senders; two of the first compete for one nonce.
PoolTx(from, nonce, price) == [from |-> from, nonce |-> nonce, gasPrice |-> price, gasLimit |-> 1]
MCTxs == {PoolTx("a", 0, 2), PoolTx("a", 0, 3), PoolTx("a", 1, 1), PoolTx("b", 0, 2)}

PoolConfig(size, perAccount, policy, blacklist, spam) ==
    [maxPoolSize |-> size, minGasPrice |-> 1, maxGasPrice |-> 3,
     maxTransactionsPerAccount |-> perAccount, evictionPolicy |-> policy,
     blacklistEnabled |-> blacklist, spamProtection |-> spam]
MCInitConfig == PoolConfig(3, 2, "PRICE", TRUE, TRUE)
MCConfigs == {MCInitConfig, PoolConfig(1, 2, "LIFO", TRUE, TRUE),
              PoolConfig(2, 1, "FIFO", FALSE, TRUE), PoolConfig(2, 2, "FIFO", TRUE, FALSE)}

\* Transfers between two accounts of the genesis block and one that is not in
\* it, with and without gas, and one to oneself.
LedgerTx(from, to, nonce, gas) ==
    [from |-> from, to |-> to, value |-> 1, nonce |-> nonce, gasLimit |-> gas, gasPrice |-> 1]
MCLedgerTxs == {LedgerTx("a", "b", 0, 1), LedgerTx("a", "c", 1, 1), LedgerTx("a", "a", 1, 0),
                LedgerTx("b", "c", 0, 0), LedgerTx("c", "b", 0, 1)}
MCAlloc == [a \in {"a", "b"} |-> [balance |-> IF a = "a" THEN 5 ELSE 0, nonce |-> 0]]

MCInit ==
    /\ part \in {"ledger", "pool", "basic pool"}
    /\ Init /\ LedgerInit /\ TheBasicPool!Init

MCNext ==
    \/ /\ part = "ledger" /\ LedgerNext
       /\ UNCHANGED <<part, vars, basicVars>>
    \/ /\ part = "pool" /\ Next
       /\ UNCHANGED <<part, ledgerVars, basicVars>>
    \/ /\ part = "basic pool" /\ TheBasicPool!Next
       /\ UNCHANGED <<part, vars, ledgerVars>>

MCSpec == MCInit /\ [][MCNext]_<<part, vars, ledgerVars, basicVars>>

\* Each part is well typed.
PartsTypeOK == TypeOK /\ LedgerTypeOK /\ TheBasicPool!TypeOK

\* The basic pool keeps the promise of AbstractPool: what was processed never
\* becomes pending again.
BasicImplementsAbstractPool == TheBasicPool!ImplementsAbstractPool
=============================================================================
