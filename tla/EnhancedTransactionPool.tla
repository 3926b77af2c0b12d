------------------------ MODULE EnhancedTransactionPool ------------------------
(***************************************************************************)
(* core/transaction/EnhancedTransactionPool.ts: a pool with an index of the  *)
(* pending transactions by account, a tracker of the next nonce of every     *)
(* account, a blacklist, three eviction policies and a configuration that    *)
(* may be changed while transactions are pending.  Methods are synchronous;  *)
(* a refused call changes nothing and is not a step.  Txs are transactions   *)
(* that pass the checks on fields, hash and signature.  The retry counters    *)
(* are left out: no other state depends on them.                             *)
(***************************************************************************)
EXTENDS Integers, FiniteSets

CONSTANTS
    Accounts,
    Txs,        \* records with from, nonce and gasPrice
    Configs,    \* the configurations a run goes through
    InitConfig, \* the one the pool is constructed with
    MaxAdded,   \* bound: admissions
    MaxTime,    \* bound: the clock (Date.now)
    MaxUpdates  \* bound: calls of updateConfig

Policies == {"FIFO", "LIFO", "PRICE"}
Config == [maxPoolSize : Nat \ {0}, minGasPrice : Nat, maxGasPrice : Nat,
           maxTransactionsPerAccount : Nat, evictionPolicy : Policies,
           blacklistEnabled : BOOLEAN, spamProtection : BOOLEAN]

ASSUME TxAssumption == \A t \in Txs : t.from \in Accounts /\ t.nonce \in Nat /\ t.gasPrice \in Nat
ASSUME ConfigAssumption == Configs \subseteq Config /\ InitConfig \in Configs
ASSUME BoundAssumption == MaxAdded \in Nat /\ MaxTime \in Nat /\ MaxUpdates \in Nat

VARIABLES
    pending,             \* pendingTransactions: [tx -> [addedAt, place]], place being
                         \*   its position in the insertion order of the Map
    processed,           \* processedTransactions
    blacklisted,         \* blacklistedTransactions
    accountTransactions, \* [account with pending transactions -> set of them]
    nonceTracker,        \* [account -> next nonce], 0 when the Map has no entry
    config,
    now,                 \* Date.now()
    spinning,            \* the loop of ensurePoolCapacity makes no progress
    added, updates,      \* what MaxAdded and MaxUpdates bound
    protected            \* history: spamProtection has been on all along

vars == <<pending, processed, blacklisted, accountTransactions, nonceTracker,
          config, now, spinning, added, updates, protected>>

Pending == DOMAIN pending
Of(a) == {t \in Pending : t.from = a}

Init ==
    /\ pending = [t \in {} |-> [addedAt |-> 0, place |-> 0]]
    /\ processed = {} /\ blacklisted = {}
    /\ accountTransactions = [a \in {} |-> {}]
    /\ nonceTracker = [a \in Accounts |-> 0]
    /\ config = InitConfig
    /\ now = 0 /\ spinning = FALSE
    /\ added = 0 /\ updates = 0
    /\ protected = InitConfig.spamProtection

-----------------------------------------------------------------------------
\* The account's entry of the index, none counting as empty.
Indexed(a) == IF a \in DOMAIN accountTransactions THEN accountTransactions[a] ELSE {}

\* Mutant of WithinAccountLimits: the last nonce is taken again.
WithinAccountLimitsLoose(t) ==
    /\ Cardinality(Indexed(t.from)) < config.maxTransactionsPerAccount
    /\ config.spamProtection => t.nonce >= nonceTracker[t.from] - 1

\* checkSpamProtection and checkAccountLimits.
WithinAccountLimits(t) ==
    /\ Cardinality(Indexed(t.from)) < config.maxTransactionsPerAccount
    /\ config.spamProtection => t.nonce >= nonceTracker[t.from]

\* Mutant of Acceptable: only what is pending counts as known.
AcceptableAgain(t) ==
    /\ ~(config.blacklistEnabled /\ t \in blacklisted)
    /\ t \notin Pending
    /\ WithinAccountLimits(t)
    /\ t.gasPrice \in config.minGasPrice .. config.maxGasPrice

\* addTransaction's checks on the transaction: blacklist, duplicates, limits, price.
Acceptable(t) ==
    /\ ~(config.blacklistEnabled /\ t \in blacklisted)
    /\ t \notin Pending \cup processed
    /\ WithinAccountLimits(t)
    /\ t.gasPrice \in config.minGasPrice .. config.maxGasPrice

\* evictTransaction takes t before u: oldest, newest or cheapest first, and the
\* first of the Map among equals.
Key(t) == CASE config.evictionPolicy = "FIFO"  -> pending[t].addedAt
            [] config.evictionPolicy = "LIFO"  -> -pending[t].addedAt
            [] config.evictionPolicy = "PRICE" -> t.gasPrice

GoesBefore(t, u) ==
    \/ Key(t) < Key(u)
    \/ Key(t) = Key(u) /\ pending[t].place < pending[u].place

\* Mutant of Excess: one is evicted, however far above its size the pool is.
ExcessOne == IF Cardinality(Pending) >= config.maxPoolSize THEN 1 ELSE 0

\* ensurePoolCapacity: how many go for one to get in, and which.
Excess == IF Cardinality(Pending) >= config.maxPoolSize
          THEN Cardinality(Pending) - config.maxPoolSize + 1 ELSE 0
Evicted == {t \in Pending : Cardinality({u \in Pending : GoesBefore(u, t)}) < Excess}

\* FIFO passes over what was added in the current millisecond: with nothing
\* else left to evict, the loop does not end.
Stuck == config.evictionPolicy = "FIFO" /\ \E t \in Evicted : pending[t].addedAt = now

\* untrackAccountTransaction for a set of transactions: empty entries go.
Untracked(S) ==
    LET left == {a \in DOMAIN accountTransactions : accountTransactions[a] \ S # {}}
    IN [a \in left |-> accountTransactions[a] \ S]

\* Mutant of Removed: the index is left alone, as Map.delete alone would.
RemovedUnindexed(S) ==
    /\ pending' = [t \in Pending \ S |-> pending[t]]
    /\ UNCHANGED accountTransactions

\* removeTransaction for a set of transactions, with its effect on the index.
Removed(S) ==
    /\ pending' = [t \in Pending \ S |-> pending[t]]
    /\ accountTransactions' = Untracked(S)

Admitted(t) ==
    LET index == Untracked(Evicted) IN
    /\ pending' = [u \in (Pending \ Evicted) \cup {t} |->
                      IF u = t THEN [addedAt |-> now, place |-> added + 1] ELSE pending[u]]
    /\ accountTransactions' =
          [a \in DOMAIN index \cup {t.from} |->
              (IF a \in DOMAIN index THEN index[a] ELSE {}) \cup (IF a = t.from THEN {t} ELSE {})]
    /\ nonceTracker' = [nonceTracker EXCEPT
                           ![t.from] = IF t.nonce >= @ THEN t.nonce + 1 ELSE @]
    /\ added' = added + 1

AddTransaction(t) ==
    /\ added < MaxAdded
    /\ Acceptable(t)
    /\ ~Stuck
    /\ Admitted(t)
    /\ UNCHANGED <<processed, blacklisted, config, now, spinning, updates, protected>>

AddTransactionSpins(t) ==
    /\ Acceptable(t)
    /\ Stuck
    /\ spinning' = TRUE
    /\ UNCHANGED <<pending, processed, blacklisted, accountTransactions, nonceTracker,
                   config, now, added, updates, protected>>

RemoveTransaction(t) ==
    /\ t \in Pending
    /\ Removed({t})
    /\ UNCHANGED <<processed, blacklisted, nonceTracker, config, now, spinning, added,
                   updates, protected>>

BlacklistTransaction(t) ==
    /\ Removed({t})
    /\ blacklisted' = blacklisted \cup {t}
    /\ UNCHANGED <<processed, nonceTracker, config, now, spinning, added, updates, protected>>

MarkTransactionsProcessed(S) ==
    /\ Removed(S)
    /\ processed' = processed \cup S
    /\ UNCHANGED <<blacklisted, nonceTracker, config, now, spinning, added, updates, protected>>

CleanupOldTransactions(maxAge) ==
    /\ Removed({t \in Pending : now - pending[t].addedAt > maxAge})
    /\ UNCHANGED <<processed, blacklisted, nonceTracker, config, now, spinning, added,
                   updates, protected>>

\* Mutant of Clear: the tracker is emptied without its default for a missing entry.
ClearNowhere ==
    /\ pending' = [t \in {} |-> [addedAt |-> 0, place |-> 0]]
    /\ accountTransactions' = [a \in {} |-> {}]
    /\ nonceTracker' = [a \in {} |-> 0]
    /\ UNCHANGED <<processed, blacklisted, config, now, spinning, added, updates, protected>>

Clear ==
    /\ pending' = [t \in {} |-> [addedAt |-> 0, place |-> 0]]
    /\ accountTransactions' = [a \in {} |-> {}]
    /\ nonceTracker' = [a \in Accounts |-> 0]
    /\ UNCHANGED <<processed, blacklisted, config, now, spinning, added, updates, protected>>

UpdateConfig(c) ==
    /\ updates < MaxUpdates
    /\ config' = c
    /\ updates' = updates + 1
    /\ protected' = (protected /\ c.spamProtection)
    /\ UNCHANGED <<pending, processed, blacklisted, accountTransactions, nonceTracker,
                   now, spinning, added>>

Tick ==
    /\ now < MaxTime
    /\ now' = now + 1
    /\ UNCHANGED <<pending, processed, blacklisted, accountTransactions, nonceTracker,
                   config, spinning, added, updates, protected>>

Next ==
    /\ ~spinning
    /\ \/ \E t \in Txs : \/ AddTransaction(t) \/ AddTransactionSpins(t)
                         \/ RemoveTransaction(t) \/ BlacklistTransaction(t)
       \/ \E S \in SUBSET Txs : MarkTransactionsProcessed(S)
       \/ \E maxAge \in 0 .. MaxTime : CleanupOldTransactions(maxAge)
       \/ \E c \in Configs : UpdateConfig(c)
       \/ Clear
       \/ Tick

Spec == Init /\ [][Next]_vars

-----------------------------------------------------------------------------
TypeOK ==
    /\ Pending \subseteq Txs
    /\ \A t \in Pending : pending[t] \in [addedAt : 0 .. now, place : 1 .. added]
    /\ processed \subseteq Txs /\ blacklisted \subseteq Txs
    /\ DOMAIN accountTransactions \subseteq Accounts
    /\ \A a \in DOMAIN accountTransactions : accountTransactions[a] \subseteq Txs
    /\ nonceTracker \in [Accounts -> Nat]
    /\ config \in Configs
    /\ now \in 0 .. MaxTime /\ added \in 0 .. MaxAdded /\ updates \in 0 .. MaxUpdates
    /\ spinning \in BOOLEAN /\ protected \in BOOLEAN

\* The index by account lists exactly the pending transactions, and keeps no
\* entry for an account that has none, through evictions, expiry, blacklisting
\* and processing: it is what the limit per account is counted on.
IndexMatchesPending ==
    /\ DOMAIN accountTransactions = {t.from : t \in Pending}
    /\ \A a \in DOMAIN accountTransactions : accountTransactions[a] = Of(a)

\* As long as spam protection stays on, an account's pending transactions were
\* admitted in the order of their nonces, no nonce twice, whatever was evicted,
\* expired or cleared in between: a block filled in FIFO order can execute them.
NonceOrder ==
    protected => \A t, u \in Pending :
        t.from = u.from /\ pending[t].place < pending[u].place => t.nonce < u.nonce

\* An admission leaves the pool within the size and the limit per account of
\* the configuration in force, even when that was lowered under the pool.
AdmissionRestoresCapacity ==
    [][added' # added => /\ Cardinality(DOMAIN pending') <= config.maxPoolSize
                         /\ \A t \in DOMAIN pending' \ Pending :
                                Cardinality({u \in DOMAIN pending' : u.from = t.from})
                                    <= config.maxTransactionsPerAccount]_vars

Abstract == INSTANCE AbstractPool WITH pending <- Pending

\* Seen through its pending and processed transactions the pool keeps the
\* promise of AbstractPool: what was processed never becomes pending again.
ImplementsAbstractPool == Abstract!Spec
=============================================================================
