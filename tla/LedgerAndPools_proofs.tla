-------------------------- MODULE LedgerAndPools_proofs --------------------------
(***************************************************************************)
(* Theorems about the ledger of core/blockchain and the two transaction pools  *)
(* of core/transaction, each for every value of its constants.               *)
(***************************************************************************)
EXTENDS MCLedgerAndPools, FiniteSetTheorems, SequenceTheorems, WellFoundedInduction, TLAPS

-----------------------------------------------------------------------------
\* Of a set of numbers there is a least: induction over a list is an argument
\* about the least length at which it fails.
LEMMA LeastNatural ==
    ASSUME NEW T, T \subseteq Nat, T # {}
    PROVE  \E m \in T : \A k \in T : m <= k
<1> DEFINE R == OpToRel(<, Nat)
<1>1. IsWellFoundedOn(R, Nat)
  BY NatLessThanWellFounded
<1>2. \A j, k \in Nat : j < k => <<j, k>> \in R
  BY DEF OpToRel
<1> HIDE DEF R
<1>3. PICK m \in T : \A k \in T : ~ (<<k, m>> \in R)
  BY <1>1, WFMin
<1>4. ASSUME NEW k \in T PROVE m <= k
  <2>1. ~(k < m)
    BY <1>2, <1>3
  <2> QED  BY <2>1
<1> QED  BY <1>4

-----------------------------------------------------------------------------
\* EnhancedTransactionPool.  The inductive invariant adds to NonceOrder that the
\* tracker is ahead of every pending nonce: admissions compare with the tracker,
\* not with what is pending.
TrackerAhead == protected => \A t \in Pending : t.nonce < nonceTracker[t.from]

ProtectedOn == protected => config.spamProtection

IInv ==
    /\ TypeOK
    /\ IndexMatchesPending
    /\ ProtectedOn
    /\ TrackerAhead
    /\ NonceOrder

-----------------------------------------------------------------------------
\* What untrackAccountTransaction leaves of an exact index: the index of the
\* transactions that stay.
LEMMA UntrackedIsIndex ==
    ASSUME IndexMatchesPending, NEW S
    PROVE  Untracked(S) = [a \in {t.from : t \in Pending \ S} |-> Of(a) \ S]
<1>1. {a \in DOMAIN accountTransactions : accountTransactions[a] \ S # {}}
        = {t.from : t \in Pending \ S}
  BY DEF IndexMatchesPending, Of
<1>2. \A a \in {t.from : t \in Pending \ S} : accountTransactions[a] = Of(a)
  BY DEF IndexMatchesPending
<1> QED
  BY <1>1, <1>2 DEF Untracked

\* Removing transactions keeps pool and index well typed, exact and in order.
LEMMA RemovedKeeps ==
    ASSUME IInv, NEW S, Removed(S)
    PROVE  /\ DOMAIN pending' = Pending \ S
           /\ \A t \in Pending \ S : pending'[t] = pending[t]
           /\ IndexMatchesPending'
<1>1. pending' = [t \in Pending \ S |-> pending[t]]
  BY DEF Removed
<1>2. accountTransactions' = [a \in {t.from : t \in Pending \ S} |-> Of(a) \ S]
  BY UntrackedIsIndex DEF Removed, IInv
<1>3. DOMAIN pending' = Pending \ S
  BY <1>1
<1>4. IndexMatchesPending'
  BY <1>2, <1>3 DEF IndexMatchesPending, Of, Pending
<1> QED
  BY <1>1, <1>3, <1>4

\* What a step that only takes transactions out leaves of the invariant.
LEMMA ShrinkKeeps ==
    ASSUME IInv, NEW S, DOMAIN pending' = Pending \ S,
           \A t \in Pending \ S : pending'[t] = pending[t],
           IndexMatchesPending', processed' \subseteq Txs, blacklisted' \subseteq Txs,
           UNCHANGED <<nonceTracker, config, now, spinning, added, updates, protected>>
    PROVE  IInv'
<1>1. Pending' = Pending \ S
  BY DEF Pending
<1>2. /\ Pending' \subseteq Txs
      /\ \A t \in Pending' : pending'[t] \in [addedAt : 0 .. now', place : 1 .. added']
  BY <1>1 DEF IInv, TypeOK
<1>3. /\ DOMAIN accountTransactions' \subseteq Accounts
      /\ \A a \in DOMAIN accountTransactions' : accountTransactions'[a] \subseteq Txs
  BY <1>2, TxAssumption DEF IndexMatchesPending, Of
<1>4. TypeOK'
  BY <1>2, <1>3 DEF IInv, TypeOK
<1>5. TrackerAhead' /\ NonceOrder' /\ ProtectedOn'
  BY <1>1 DEF IInv, TrackerAhead, NonceOrder, ProtectedOn
<1> QED
  BY <1>4, <1>5 DEF IInv

-----------------------------------------------------------------------------
LEMMA InitIInv == Init => IInv
<1> SUFFICES ASSUME Init PROVE IInv
  OBVIOUS
<1> USE DEF Init
<1>1. Pending = {}
  BY DEF Pending
<1>2. InitConfig.spamProtection \in BOOLEAN
  BY ConfigAssumption DEF Config
<1>3. TypeOK
  <2>1. protected \in BOOLEAN /\ spinning \in BOOLEAN
    BY <1>2
  <2>2. nonceTracker \in [Accounts -> Nat] /\ DOMAIN accountTransactions = {}
    OBVIOUS
  <2>3. now \in 0 .. MaxTime /\ added \in 0 .. MaxAdded /\ updates \in 0 .. MaxUpdates
    BY BoundAssumption
  <2>4. processed \subseteq Txs /\ blacklisted \subseteq Txs /\ config \in Configs
    BY ConfigAssumption
  <2> QED
    BY <2>1, <2>2, <2>3, <2>4, <1>1 DEF TypeOK
<1>4. IndexMatchesPending
  BY <1>1 DEF IndexMatchesPending
<1> QED
  BY <1>1, <1>3, <1>4 DEF IInv, TrackerAhead, NonceOrder, ProtectedOn

\* An admission: evictions first, then the new transaction.
LEMMA AddKeeps ==
    ASSUME IInv, NEW t \in Txs, AddTransaction(t)
    PROVE  IInv'
<1> DEFINE stay == Pending \ Evicted
<1>1. /\ t \notin Pending /\ t.from \in Accounts /\ t.nonce \in Nat
      /\ config.spamProtection => t.nonce >= nonceTracker[t.from]
  BY TxAssumption DEF AddTransaction, Acceptable, WithinAccountLimits
<1>2. /\ pending' = [u \in stay \cup {t} |->
                        IF u = t THEN [addedAt |-> now, place |-> added + 1] ELSE pending[u]]
      /\ Pending' = stay \cup {t}
  BY DEF AddTransaction, Admitted, Pending
<1>3. /\ pending'[t] = [addedAt |-> now, place |-> added + 1]
      /\ \A u \in stay : pending'[u] = pending[u]
  BY <1>1, <1>2
<1>4. /\ UNCHANGED <<processed, blacklisted, config, now, spinning, updates, protected>>
      /\ added' = added + 1 /\ added < MaxAdded
  BY DEF AddTransaction, Admitted
<1>5. /\ nonceTracker \in [Accounts -> Nat]
      /\ nonceTracker' = [nonceTracker EXCEPT ![t.from] = IF t.nonce >= @ THEN t.nonce + 1 ELSE @]
  BY DEF AddTransaction, Admitted, IInv, TypeOK
<1>6. /\ nonceTracker' \in [Accounts -> Nat]
      /\ \A a \in Accounts : nonceTracker'[a] >= nonceTracker[a]
      /\ nonceTracker'[t.from] > t.nonce
  BY <1>1, <1>5
<1>7. accountTransactions' = [a \in {u.from : u \in Pending'} |-> {u \in Pending' : u.from = a}]
  <2>1. Untracked(Evicted) = [a \in {u.from : u \in stay} |-> Of(a) \ Evicted]
    BY UntrackedIsIndex DEF IInv
  <2>2. {u.from : u \in stay} \cup {t.from} = {u.from : u \in Pending'}
    BY <1>2
  <2>3. \A a \in {u.from : u \in Pending'} :
          (IF a \in {u.from : u \in stay} THEN Of(a) \ Evicted ELSE {})
              \cup (IF a = t.from THEN {t} ELSE {}) = {u \in Pending' : u.from = a}
    BY <1>1, <1>2 DEF Of
  <2> QED
    BY <2>1, <2>2, <2>3 DEF AddTransaction, Admitted
<1>8. IndexMatchesPending'
  BY <1>7 DEF IndexMatchesPending, Of
<1>9. TypeOK'
  <2>1. /\ Pending' \subseteq Txs
        /\ \A u \in Pending' : pending'[u] \in [addedAt : 0 .. now', place : 1 .. added']
    BY <1>2, <1>3, <1>4, BoundAssumption DEF IInv, TypeOK
  <2>2. /\ DOMAIN accountTransactions' \subseteq Accounts
        /\ \A a \in DOMAIN accountTransactions' : accountTransactions'[a] \subseteq Txs
    BY <1>7, <2>1, TxAssumption
  <2> QED
    BY <2>1, <2>2, <1>4, <1>6, BoundAssumption DEF IInv, TypeOK
<1>10. TrackerAhead'
  <2> SUFFICES ASSUME protected', NEW u \in Pending' PROVE u.nonce < nonceTracker'[u.from]
    BY DEF TrackerAhead
  <2>1. CASE u = t
    BY <2>1, <1>1, <1>6
  <2>2. CASE u # t
    <3>1. u \in Pending /\ u.nonce < nonceTracker[u.from]
      BY <2>2, <1>2, <1>4 DEF IInv, TrackerAhead
    <3>2. u.from \in Accounts /\ u.nonce \in Nat
      BY <3>1, TxAssumption DEF IInv, TypeOK
    <3> QED
      BY <3>1, <3>2, <1>5, <1>6
  <2> QED
    BY <2>1, <2>2
<1>11. NonceOrder'
  <2> SUFFICES ASSUME protected', NEW u \in Pending', NEW v \in Pending',
                      u.from = v.from, pending'[u].place < pending'[v].place
               PROVE  u.nonce < v.nonce
    BY DEF NonceOrder
  <2>1. protected /\ config.spamProtection
    BY <1>4 DEF IInv, ProtectedOn
  <2>2. \A w \in stay : pending[w].place \in 1 .. added
    BY DEF IInv, TypeOK
  <2>3. added \in Nat
    BY DEF IInv, TypeOK
  <2>4. CASE u = t
    BY <2>2, <2>3, <2>4, <1>2, <1>3
  <2>5. CASE u # t /\ v = t
    <3>1. u \in Pending /\ u.nonce < nonceTracker[u.from]
      BY <2>1, <2>5, <1>2 DEF IInv, TrackerAhead
    <3>2. u.nonce \in Nat /\ u.from \in Accounts
      BY <3>1, TxAssumption DEF IInv, TypeOK
    <3> QED
      BY <3>1, <3>2, <2>1, <2>5, <1>1, <1>5
  <2>6. CASE u # t /\ v # t
    BY <2>1, <2>6, <1>2, <1>3 DEF IInv, NonceOrder
  <2> QED
    BY <2>4, <2>5, <2>6
<1> QED
  BY <1>4, <1>8, <1>9, <1>10, <1>11 DEF IInv, ProtectedOn

\* The invariant is inductive.
LEMMA NextIInv == IInv /\ [Next]_vars => IInv'
<1> SUFFICES ASSUME IInv, [Next]_vars PROVE IInv'
  OBVIOUS
<1>1. ASSUME NEW t \in Txs, AddTransaction(t) PROVE IInv'
  BY <1>1, AddKeeps
<1>2. ASSUME NEW t \in Txs, AddTransactionSpins(t) PROVE IInv'
  BY <1>2 DEF AddTransactionSpins, IInv, TypeOK, IndexMatchesPending, Of, Pending, ProtectedOn,
              TrackerAhead, NonceOrder
<1>3. ASSUME NEW t \in Txs, RemoveTransaction(t) PROVE IInv'
  BY <1>3, RemovedKeeps, ShrinkKeeps DEF RemoveTransaction, IInv, TypeOK
<1>4. ASSUME NEW t \in Txs, BlacklistTransaction(t) PROVE IInv'
  BY <1>4, RemovedKeeps, ShrinkKeeps DEF BlacklistTransaction, IInv, TypeOK
<1>5. ASSUME NEW S \in SUBSET Txs, MarkTransactionsProcessed(S) PROVE IInv'
  BY <1>5, RemovedKeeps, ShrinkKeeps DEF MarkTransactionsProcessed, IInv, TypeOK
<1>6. ASSUME NEW maxAge, CleanupOldTransactions(maxAge) PROVE IInv'
  BY <1>6, RemovedKeeps, ShrinkKeeps DEF CleanupOldTransactions, IInv, TypeOK
<1>7. ASSUME NEW c \in Configs, UpdateConfig(c) PROVE IInv'
  <2>1. c.spamProtection \in BOOLEAN
    BY ConfigAssumption DEF Config
  <2>2. TypeOK'
    BY <1>7, <2>1, BoundAssumption DEF UpdateConfig, IInv, TypeOK, Pending
  <2>3. IndexMatchesPending'
    BY <1>7 DEF UpdateConfig, IInv, IndexMatchesPending, Of, Pending
  <2>4. ProtectedOn' /\ TrackerAhead' /\ NonceOrder'
    BY <1>7, <2>1 DEF UpdateConfig, IInv, TypeOK, ProtectedOn, TrackerAhead, NonceOrder, Pending
  <2> QED
    BY <2>2, <2>3, <2>4 DEF IInv
<1>8. ASSUME Clear PROVE IInv'
  <2>1. Pending' = {} /\ accountTransactions' = [a \in {} |-> {}]
    BY <1>8 DEF Clear, Pending
  <2>2. TypeOK'
    BY <1>8, <2>1 DEF Clear, IInv, TypeOK
  <2>3. IndexMatchesPending' /\ TrackerAhead' /\ NonceOrder'
    BY <2>1 DEF IndexMatchesPending, TrackerAhead, NonceOrder
  <2> QED
    BY <1>8, <2>2, <2>3 DEF Clear, IInv, ProtectedOn
<1>9. ASSUME Tick PROVE IInv'
  <2>1. TypeOK'
    BY <1>9, BoundAssumption DEF Tick, IInv, TypeOK, Pending
  <2> QED
    BY <1>9, <2>1 DEF Tick, IInv, IndexMatchesPending, Of, Pending, ProtectedOn, TrackerAhead,
                      NonceOrder
<1>10. CASE UNCHANGED vars
  BY <1>10 DEF vars, IInv, TypeOK, IndexMatchesPending, Of, Pending, ProtectedOn, TrackerAhead,
               NonceOrder
<1> QED
  BY <1>1, <1>2, <1>3, <1>4, <1>5, <1>6, <1>7, <1>8, <1>9, <1>10 DEF Next

-----------------------------------------------------------------------------
\* The invariant holds in every reachable state of the pool.
THEOREM AlwaysIInv == Spec => []IInv
<1> QED
  BY InitIInv, NextIInv, PTL DEF Spec

\* Every reachable state of the pool is well typed.
THEOREM TypeCorrect == Spec => []TypeOK
<1>1. IInv => TypeOK
  BY DEF IInv
<1> QED
  BY <1>1, AlwaysIInv, PTL

\* The index by account lists exactly the pending transactions, whatever is
\* admitted, evicted, expired, blacklisted, processed or cleared.
THEOREM IndexAlwaysExact == Spec => []IndexMatchesPending
<1>1. IInv => IndexMatchesPending
  BY DEF IInv
<1> QED
  BY <1>1, AlwaysIInv, PTL

\* While spam protection stays on, an account's pending transactions stand in
\* the order of their nonces, and no nonce is pending twice.
THEOREM NonceAlwaysOrdered == Spec => []NonceOrder
<1>1. IInv => NonceOrder
  BY DEF IInv
<1> QED
  BY <1>1, AlwaysIInv, PTL

-----------------------------------------------------------------------------
\* Every step of the pool is one of AbstractPool, or leaves it alone.
LEMMA StepSimulation == IInv /\ IInv' /\ [Next]_vars => [Abstract!Next]_(Abstract!absVars)
<1> SUFFICES ASSUME IInv, IInv', [Next]_vars PROVE [Abstract!Next]_(Abstract!absVars)
  OBVIOUS
<1> USE DEF Abstract!Next, Abstract!absVars, Abstract!Admit, Abstract!Lose, Abstract!Process
<1>1. ASSUME NEW t \in Txs, AddTransaction(t) PROVE Abstract!Admit(t)
  <2>1. Pending' = (Pending \ Evicted) \cup {t}
    BY <1>1 DEF AddTransaction, Admitted, Pending
  <2> QED
    BY <1>1, <2>1 DEF AddTransaction, Acceptable
<1>2. ASSUME NEW S, Removed(S) PROVE Pending' = Pending \ S
  BY <1>2 DEF Removed, Pending
<1>3. ASSUME NEW t \in Txs, RemoveTransaction(t) PROVE Abstract!Lose
  BY <1>2, <1>3 DEF RemoveTransaction
<1>4. ASSUME NEW t \in Txs, BlacklistTransaction(t) PROVE Abstract!Lose
  BY <1>2, <1>4 DEF BlacklistTransaction
<1>5. ASSUME NEW S \in SUBSET Txs, MarkTransactionsProcessed(S) PROVE Abstract!Process(S)
  BY <1>2, <1>5 DEF MarkTransactionsProcessed
<1>6. ASSUME NEW maxAge, CleanupOldTransactions(maxAge) PROVE Abstract!Lose
  BY <1>2, <1>6 DEF CleanupOldTransactions
<1>7. ASSUME Clear PROVE Abstract!Lose
  BY <1>7 DEF Clear, Pending
<1>8. ASSUME NEW t \in Txs, AddTransactionSpins(t) PROVE UNCHANGED Abstract!absVars
  BY <1>8 DEF AddTransactionSpins, Pending
<1>9. ASSUME NEW c \in Configs, UpdateConfig(c) PROVE UNCHANGED Abstract!absVars
  BY <1>9 DEF UpdateConfig, Pending
<1>10. ASSUME Tick \/ UNCHANGED vars PROVE UNCHANGED Abstract!absVars
  BY <1>10 DEF Tick, vars, Pending
<1> QED
  BY <1>1, <1>3, <1>4, <1>5, <1>6, <1>7, <1>8, <1>9, <1>10 DEF Next

\* The pool implements AbstractPool: whatever the policy, the limits and the
\* changes of configuration, what was processed never becomes pending again.
THEOREM PoolImplementsAbstract == Spec => ImplementsAbstractPool
<1>1. Init => Abstract!Init
  BY DEF Init, Abstract!Init, Pending
<1> QED
  BY <1>1, AlwaysIInv, StepSimulation, PTL DEF Spec, ImplementsAbstractPool, Abstract!Spec

\* What AbstractPool promises: pending and processed stay apart.
THEOREM ProcessedNeverBack == Spec => [](Pending \cap processed = {})
<1>1. Abstract!Init => Abstract!NeverBack
  BY DEF Abstract!Init, Abstract!NeverBack
<1>2. Abstract!NeverBack /\ [Abstract!Next]_(Abstract!absVars) => Abstract!NeverBack'
  BY DEF Abstract!NeverBack, Abstract!Next, Abstract!absVars, Abstract!Admit, Abstract!Lose,
         Abstract!Process
<1>3. Abstract!NeverBack <=> Pending \cap processed = {}
  BY DEF Abstract!NeverBack
<1> QED
  BY <1>1, <1>2, <1>3, PoolImplementsAbstract, PTL
     DEF ImplementsAbstractPool, Abstract!Spec

-----------------------------------------------------------------------------
\* What it takes for an admission to make room.  The pool stays finite.
FinitePending == IsFiniteSet(Pending)

LEMMA FiniteKeeps == FinitePending /\ [Abstract!Next]_(Abstract!absVars) => FinitePending'
<1> SUFFICES ASSUME FinitePending, [Abstract!Next]_(Abstract!absVars) PROVE FinitePending'
  OBVIOUS
<1>1. \E t : Pending' \subseteq Pending \cup {t}
  BY DEF Abstract!Next, Abstract!absVars, Abstract!Admit, Abstract!Lose, Abstract!Process
<1>2. PICK t : Pending' \in SUBSET (Pending \cup {t})
  BY <1>1
<1>3. IsFiniteSet(Pending \cup {t})
  BY FS_AddElement DEF FinitePending
<1> QED  BY <1>2, <1>3, FS_Subset DEF FinitePending

LEMMA AlwaysFinite == Spec => []FinitePending
<1>1. Init => FinitePending
  <2>1. Init => Pending = {}
    BY DEF Init, Pending
  <2> QED  BY <2>1, FS_EmptySet DEF FinitePending
<1> QED
  BY <1>1, FiniteKeeps, PoolImplementsAbstract, PTL DEF Spec, ImplementsAbstractPool, Abstract!Spec

\* evictTransaction's choice is an order, whichever policy is in force.
LEMMA GoesBeforeOrders ==
    ASSUME IInv
    PROVE  /\ \A t \in Pending : ~ GoesBefore(t, t)
           /\ \A t, u, v \in Pending : GoesBefore(t, u) /\ GoesBefore(u, v) => GoesBefore(t, v)
<1>1. \A t \in Pending : pending[t].addedAt \in Int /\ pending[t].place \in Int /\ t.gasPrice \in Int
  BY TxAssumption DEF IInv, TypeOK
<1>2. config.evictionPolicy \in Policies
  BY ConfigAssumption DEF IInv, TypeOK, Config
<1>3. \A t \in Pending : Key(t) \in Int
  BY <1>1, <1>2 DEF Key, Policies
<1> QED  BY <1>1, <1>3 DEF GoesBefore

\* How many go before t: with fewer than Excess, t is evicted.
Ahead(t) == {u \in Pending : GoesBefore(u, t)}

LEMMA EvictedEnough ==
    ASSUME IInv, FinitePending
    PROVE  Cardinality(Pending \ Evicted) <= config.maxPoolSize - 1
<1> DEFINE stay == Pending \ Evicted
           size == Cardinality(Pending)
           limit == config.maxPoolSize
<1>1. limit \in Nat \ {0}
  BY ConfigAssumption DEF IInv, TypeOK, Config
<1>2. \A S \in SUBSET Pending : IsFiniteSet(S) /\ Cardinality(S) \in Nat /\ Cardinality(S) <= size
  BY FS_Subset, FS_CardinalityType DEF FinitePending
<1>3. size \in Nat /\ stay \in SUBSET Pending /\ Evicted \in SUBSET Pending
  BY <1>2 DEF Evicted
<1>4. Evicted = {t \in Pending : Cardinality(Ahead(t)) < Excess}
  BY DEF Evicted, Ahead
<1>5. CASE stay = {}
  BY <1>1, <1>5, FS_EmptySet
<1>6. CASE size < limit
  BY <1>1, <1>2, <1>3, <1>6
<1>7. CASE stay # {} /\ size >= limit
  <2>1. Excess = size - limit + 1
    BY <1>1, <1>3, <1>7 DEF Excess
  <2> DEFINE ranks == {Cardinality(Ahead(t)) : t \in stay}
  <2>2. ranks \subseteq Nat /\ ranks # {}
    BY <1>2, <1>7 DEF Ahead
  <2>3. PICK t \in stay : \A u \in stay : Cardinality(Ahead(t)) <= Cardinality(Ahead(u))
    <3> HIDE DEF ranks
    <3>1. PICK m \in ranks : \A k \in ranks : m <= k
      BY <2>2, LeastNatural
    <3> USE DEF ranks
    <3> QED  BY <3>1
  <2>4. Ahead(t) \subseteq Evicted
    <3> SUFFICES ASSUME NEW u \in Ahead(t), u \notin Evicted PROVE FALSE
      OBVIOUS
    <3>1. u \in stay /\ t \in Pending /\ u \in Pending /\ GoesBefore(u, t)
      BY <1>3 DEF Ahead
    <3>2. Ahead(u) \subseteq Ahead(t) /\ u \notin Ahead(u)
      BY <3>1, GoesBeforeOrders DEF Ahead
    <3>3. Ahead(u) \in SUBSET Ahead(t) /\ Ahead(t) \in SUBSET Pending
      BY <3>2 DEF Ahead
    <3>4. Cardinality(Ahead(u)) <= Cardinality(Ahead(t)) /\ Cardinality(Ahead(t)) # Cardinality(Ahead(u))
      BY <1>2, <3>2, <3>3, FS_Subset
    <3>5. Cardinality(Ahead(u)) \in Nat /\ Cardinality(Ahead(t)) \in Nat
      BY <1>2, <3>3
    <3> QED  BY <2>3, <3>1, <3>4, <3>5
  <2>5. ~ (Cardinality(Ahead(t)) < Excess)
    BY <1>4
  <2>6. Ahead(t) \in SUBSET Evicted /\ Ahead(t) \in SUBSET Pending
    BY <2>4 DEF Ahead
  <2>7. Cardinality(Ahead(t)) <= Cardinality(Evicted)
    BY <1>2, <1>3, <2>6, FS_Subset
  <2>8. Cardinality(stay) = size - Cardinality(Evicted)
    <3>1. stay \cup Evicted = Pending /\ stay \cap Evicted = {}
      BY <1>3
    <3>2. Cardinality(stay \cup Evicted) = Cardinality(stay) + Cardinality(Evicted) - Cardinality(stay \cap Evicted)
      BY <1>2, <1>3, FS_Union
    <3>3. Cardinality(stay) \in Nat /\ Cardinality(Evicted) \in Nat /\ Cardinality({}) = 0
      BY <1>2, <1>3, FS_EmptySet
    <3>4. Cardinality(Pending) = Cardinality(stay) + Cardinality(Evicted) - Cardinality({})
      BY <3>1, <3>2
    <3> HIDE DEF stay
    <3> QED  BY <3>3, <3>4
  <2>9. Cardinality(stay) \in Nat /\ Cardinality(Evicted) \in Nat /\ Cardinality(Ahead(t)) \in Nat
    BY <1>2, <1>3, <2>6
  <2> QED  BY <1>1, <1>3, <2>1, <2>5, <2>7, <2>8, <2>9
<1> QED  BY <1>1, <1>3, <1>5, <1>6, <1>7

\* Only addTransaction counts an admission, and it evicts before it admits.
LEMMA AdmissionFits ==
    ASSUME IInv, FinitePending, NEW t \in Txs, AddTransaction(t)
    PROVE  /\ Cardinality(DOMAIN pending') <= config.maxPoolSize
           /\ \A u \in DOMAIN pending' \ Pending :
                  Cardinality({v \in DOMAIN pending' : v.from = u.from}) <= config.maxTransactionsPerAccount
<1> DEFINE stay == Pending \ Evicted
           own == {v \in DOMAIN pending' : v.from = t.from}
<1>1. /\ DOMAIN pending' = stay \cup {t} /\ t \notin Pending
      /\ Cardinality(Indexed(t.from)) < config.maxTransactionsPerAccount
  BY DEF AddTransaction, Admitted, Acceptable, WithinAccountLimits
<1>2. config.maxPoolSize \in Nat /\ config.maxTransactionsPerAccount \in Nat
  BY ConfigAssumption DEF IInv, TypeOK, Config
<1>3. \A S \in SUBSET Pending : IsFiniteSet(S) /\ Cardinality(S) \in Nat
  BY FS_Subset, FS_CardinalityType DEF FinitePending
<1>4. Cardinality(stay) <= config.maxPoolSize - 1
  BY EvictedEnough
<1>5. Cardinality(stay \cup {t}) = Cardinality(stay) + 1
  <2>1. IsFiniteSet(stay) /\ t \notin stay
    BY <1>1, <1>3
  <2> HIDE DEF stay
  <2> QED  BY <2>1, FS_AddElement
<1>6. Cardinality(DOMAIN pending') <= config.maxPoolSize
  <2>1. IsFiniteSet(stay \cup {t}) /\ Cardinality(stay) \in Nat
    BY <1>3, FS_AddElement
  <2>2. Cardinality(stay \cup {t}) \in Nat
    BY <2>1, FS_CardinalityType
  <2> HIDE DEF stay
  <2> QED  BY <1>1, <1>2, <1>4, <1>5, <2>1, <2>2
<1>7. Indexed(t.from) = Of(t.from)
  BY DEF IInv, IndexMatchesPending, Indexed, Of
<1>8. own \in SUBSET (Of(t.from) \cup {t})
  BY <1>1 DEF Of
<1>9. Cardinality(own) <= config.maxTransactionsPerAccount
  <2> DEFINE of == Of(t.from)
  <2>1. IsFiniteSet(of) /\ Cardinality(of) \in Nat
    BY <1>3 DEF Of
  <2> HIDE DEF of, own
  <2>2. IsFiniteSet(of \cup {t}) /\ Cardinality(of \cup {t}) <= Cardinality(of) + 1
    <3>1. Cardinality(of \cup {t}) \in {Cardinality(of), Cardinality(of) + 1}
      BY <2>1, FS_AddElement
    <3> QED  BY <2>1, <3>1, FS_AddElement
  <2>3. own \in SUBSET (of \cup {t})
    BY <1>8 DEF of
  <2>4. Cardinality(own) <= Cardinality(of \cup {t}) /\ IsFiniteSet(own)
    BY <2>2, <2>3, FS_Subset
  <2>5. Cardinality(own) \in Nat /\ Cardinality(of \cup {t}) \in Nat
    BY <2>2, <2>4, FS_CardinalityType
  <2>6. Cardinality(of) < config.maxTransactionsPerAccount
    BY <1>1, <1>7 DEF of
  <2> QED  BY <1>2, <2>1, <2>2, <2>4, <2>5, <2>6
<1>10. \A u \in DOMAIN pending' \ Pending : u = t
  BY <1>1
<1> QED  BY <1>6, <1>9, <1>10

\* Every admission leaves the pool within the size and the limit per account in
\* force: also when updateConfig lowered them under a fuller pool, and whichever
\* policy chooses what goes.
THEOREM AdmissionAlwaysFits == Spec => AdmissionRestoresCapacity
<1>1. ASSUME IInv, FinitePending, Next, added' # added
      PROVE  /\ Cardinality(DOMAIN pending') <= config.maxPoolSize
             /\ \A t \in DOMAIN pending' \ Pending :
                    Cardinality({u \in DOMAIN pending' : u.from = t.from}) <= config.maxTransactionsPerAccount
  <2>1. PICK t \in Txs : AddTransaction(t)
    BY <1>1 DEF Next, AddTransactionSpins, RemoveTransaction, BlacklistTransaction, MarkTransactionsProcessed,
       CleanupOldTransactions, UpdateConfig, Clear, Tick
  <2> QED  BY <1>1, <2>1, AdmissionFits
<1> QED  BY <1>1, AlwaysIInv, AlwaysFinite, PTL DEF Spec, AdmissionRestoresCapacity

-----------------------------------------------------------------------------
\* TransactionPool, whose eviction may take any pending transactions for these.
LEMMA BasicTypeKeeps == TheBasicPool!TypeOK /\ [TheBasicPool!Next]_(TheBasicPool!poolVars) => TheBasicPool!TypeOK'
<1> SUFFICES ASSUME TheBasicPool!TypeOK, [TheBasicPool!Next]_(TheBasicPool!poolVars)
             PROVE  TheBasicPool!TypeOK'
  OBVIOUS
<1> USE DEF TheBasicPool!TypeOK, TheBasicPool!Pending
<1>1. ASSUME NEW t \in Txs, TheBasicPool!AddTransaction(t) PROVE TheBasicPool!TypeOK'
  <2> DEFINE stay == TheBasicPool!Pending \ TheBasicPool!Evicted
  <2>1. /\ pendingTransactions' = [u \in stay \cup {t} |-> IF u = t THEN admitted + 1 ELSE pendingTransactions[u]]
        /\ admitted' = admitted + 1 /\ admitted < MaxAdded /\ processedTransactions' = processedTransactions
    BY <1>1 DEF TheBasicPool!AddTransaction
  <2>2. stay \subseteq TheBasicPool!Pending
    OBVIOUS
  <2> HIDE DEF stay
  <2>3. \A u \in stay \cup {t} : pendingTransactions'[u] \in 1 .. admitted'
    BY <2>1, <2>2, BoundAssumption
  <2> QED  BY <2>1, <2>2, <2>3, BoundAssumption
<1>2. ASSUME NEW S, pendingTransactions' = TheBasicPool!Without(S), UNCHANGED admitted,
             processedTransactions' \subseteq Txs
      PROVE  TheBasicPool!TypeOK'
  BY <1>2 DEF TheBasicPool!Without
<1>3. ASSUME NEW t \in Txs, TheBasicPool!RemoveTransaction(t) PROVE TheBasicPool!TypeOK'
  BY <1>2, <1>3 DEF TheBasicPool!RemoveTransaction
<1>4. ASSUME NEW S \in SUBSET Txs, TheBasicPool!MarkTransactionsProcessed(S) PROVE TheBasicPool!TypeOK'
  BY <1>2, <1>4 DEF TheBasicPool!MarkTransactionsProcessed
<1>5. ASSUME TheBasicPool!Clear PROVE TheBasicPool!TypeOK'
  BY <1>2, <1>5 DEF TheBasicPool!Clear
<1>6. ASSUME UNCHANGED TheBasicPool!poolVars PROVE TheBasicPool!TypeOK'
  BY <1>6 DEF TheBasicPool!poolVars
<1> QED  BY <1>1, <1>3, <1>4, <1>5, <1>6 DEF TheBasicPool!Next

\* Every reachable state of the basic pool is well typed.
THEOREM BasicTypeCorrect == TheBasicPool!Spec => []TheBasicPool!TypeOK
<1>1. TheBasicPool!Init => TheBasicPool!TypeOK
  BY BoundAssumption DEF TheBasicPool!Init, TheBasicPool!TypeOK, TheBasicPool!Pending
<1> QED  BY <1>1, BasicTypeKeeps, PTL DEF TheBasicPool!Spec

LEMMA BasicStepSimulation ==
    ASSUME [TheBasicPool!Next]_(TheBasicPool!poolVars)
    PROVE  [TheBasicPool!Abstract!Next]_(TheBasicPool!Abstract!absVars)
<1> USE DEF TheBasicPool!Abstract!Next, TheBasicPool!Abstract!absVars, TheBasicPool!Abstract!Admit,
            TheBasicPool!Abstract!Lose, TheBasicPool!Abstract!Process
<1>1. ASSUME NEW t \in Txs, TheBasicPool!AddTransaction(t) PROVE TheBasicPool!Abstract!Admit(t)
  BY <1>1 DEF TheBasicPool!AddTransaction, TheBasicPool!Pending
<1>2. ASSUME NEW S, pendingTransactions' = TheBasicPool!Without(S)
      PROVE  TheBasicPool!Pending' = TheBasicPool!Pending \ S
  BY <1>2 DEF TheBasicPool!Without, TheBasicPool!Pending
<1>3. ASSUME NEW t \in Txs, TheBasicPool!RemoveTransaction(t) PROVE TheBasicPool!Abstract!Lose
  BY <1>2, <1>3 DEF TheBasicPool!RemoveTransaction
<1>4. ASSUME NEW S \in SUBSET Txs, TheBasicPool!MarkTransactionsProcessed(S)
      PROVE  TheBasicPool!Abstract!Process(S)
  BY <1>2, <1>4 DEF TheBasicPool!MarkTransactionsProcessed
<1>5. ASSUME TheBasicPool!Clear PROVE TheBasicPool!Abstract!Lose
  BY <1>2, <1>5 DEF TheBasicPool!Clear
<1>6. ASSUME UNCHANGED TheBasicPool!poolVars PROVE UNCHANGED TheBasicPool!Abstract!absVars
  BY <1>6 DEF TheBasicPool!poolVars, TheBasicPool!Pending
<1> QED  BY <1>1, <1>3, <1>4, <1>5, <1>6 DEF TheBasicPool!Next

\* The basic pool implements AbstractPool too: processing, eviction and clearing
\* in any order never make a processed transaction pending again.
THEOREM BasicPoolImplementsAbstract == TheBasicPool!Spec => BasicImplementsAbstractPool
<1>1. TheBasicPool!Init => TheBasicPool!Abstract!Init
  BY DEF TheBasicPool!Init, TheBasicPool!Abstract!Init, TheBasicPool!Pending
<1> QED
  BY <1>1, BasicStepSimulation, PTL
     DEF TheBasicPool!Spec, BasicImplementsAbstractPool, TheBasicPool!ImplementsAbstractPool,
         TheBasicPool!Abstract!Spec

-----------------------------------------------------------------------------
\* Ledger.  ChainLinked is not inductive as it stands: a block could replace an
\* older one that has its hash.  The invariant adds why there is none: a hash
\* contains its parent's, so it is longer than every hash known.
IsHash(h, length) == \E T : h \in Seq(T) /\ Len(h) = length

HashLengths == \A n \in 0 .. latestBlock.number : IsHash(blockHashes[n], n + 1)

ChainInv ==
    /\ latestBlock.number \in Nat
    /\ ChainLinked
    /\ HashLengths

LEMMA InitChainInv == LedgerInit => ChainInv
<1> SUFFICES ASSUME LedgerInit PROVE ChainInv
  OBVIOUS
<1>1. /\ latestBlock.number = 0 /\ latestBlock.hash = Genesis.hash
      /\ DOMAIN blockHashes = {0} /\ blockHashes[0] = Genesis.hash
      /\ DOMAIN blocks = {Genesis.hash} /\ blocks[Genesis.hash].number = 0
  BY DEF LedgerInit, Genesis
<1>2. ChainLinked
  BY <1>1 DEF ChainLinked
<1>3. HashLengths
  <2> DEFINE e == [number |-> 0, gasUsed |-> 0, transactions |-> <<>>]
  <2>1. Genesis.hash = <<e>>
    BY DEF Genesis
  <2>2. <<e>> \in Seq({e}) /\ Len(<<e>>) = 1
    OBVIOUS
  <2>3. IsHash(Genesis.hash, 1)
    BY <2>1, <2>2 DEF IsHash
  <2> QED
    BY <1>1, <2>3 DEF HashLengths
<1> QED
  BY <1>1, <1>2, <1>3 DEF ChainInv

\* The hash of an accepted block is longer than every hash of the chain.
LEMMA HashGrows ==
    ASSUME ChainInv, NEW b, b.hash = HashOf(b), Links(b)
    PROVE  /\ IsHash(b.hash, b.number + 1)
           /\ b.hash \notin DOMAIN blocks
<1> DEFINE e == [number |-> b.number, gasUsed |-> b.gasUsed, transactions |-> b.transactions]
           k == latestBlock.number
<1>1. k \in Nat /\ b.number = k + 1 /\ b.parentHash = blockHashes[k]
  BY DEF Links, ChainInv, ChainLinked
<1>2. PICK T : blockHashes[k] \in Seq(T) /\ Len(blockHashes[k]) = k + 1
  BY <1>1 DEF ChainInv, HashLengths, IsHash
<1>3. b.hash = Append(blockHashes[k], e)
  BY <1>1 DEF HashOf
<1> HIDE DEF e
<1>4. blockHashes[k] \in Seq(T \cup {e}) /\ e \in T \cup {e}
  BY <1>2, SeqMonotonic
<1>5. b.hash \in Seq(T \cup {e}) /\ Len(b.hash) = k + 2
  BY <1>1, <1>2, <1>3, <1>4, AppendProperties
<1>6. \A h \in DOMAIN blocks : Len(h) <= k + 1
  <2> SUFFICES ASSUME NEW h \in DOMAIN blocks PROVE Len(h) <= k + 1
    OBVIOUS
  <2>1. PICK n \in 0 .. k : h = blockHashes[n]
    BY DEF ChainInv, ChainLinked
  <2>2. Len(h) = n + 1
    BY <2>1 DEF ChainInv, HashLengths, IsHash
  <2> QED
    BY <2>2, <1>1
<1>7. IsHash(b.hash, b.number + 1)
  BY <1>1, <1>5 DEF IsHash
<1> QED
  BY <1>1, <1>5, <1>6, <1>7

\* What a block that is accepted adds, and that it leaves what it extends alone.
LEMMA BlockAdded ==
    ASSUME ChainInv, NEW b, AddBlock(b)
    PROVE  /\ latestBlock.number \in Nat /\ b.number = latestBlock.number + 1 /\ latestBlock' = b
           /\ b.hash = HashOf(b) /\ b.parentHash = latestBlock.hash /\ b.hash \notin DOMAIN blocks
           /\ IsHash(b.hash, latestBlock.number + 2)
           /\ DOMAIN blockHashes' = 0 .. latestBlock.number + 1
           /\ blockHashes'[latestBlock.number + 1] = b.hash
           /\ \A n \in 0 .. latestBlock.number : blockHashes'[n] = blockHashes[n]
           /\ DOMAIN blocks' = DOMAIN blocks \cup {b.hash} /\ blocks'[b.hash] = b
           /\ \A h \in DOMAIN blocks : blocks'[h] = blocks[h]
           /\ \A n \in 0 .. latestBlock.number : blocks'[blockHashes[n]] = blocks[blockHashes[n]]
<1> DEFINE k == latestBlock.number
<1>1. /\ b.hash = HashOf(b) /\ Links(b) /\ latestBlock' = b
      /\ blockHashes' = Set(blockHashes, b.number, b.hash)
      /\ blocks' = Set(blocks, b.hash, b)
  BY DEF AddBlock
<1>2. /\ k \in Nat /\ b.number = k + 1 /\ b.parentHash = latestBlock.hash
      /\ DOMAIN blockHashes = 0 .. k /\ blockHashes[k] = latestBlock.hash
      /\ blockHashes[0] = Genesis.hash
      /\ DOMAIN blocks = {blockHashes[n] : n \in 0 .. k}
  BY <1>1 DEF Links, ChainInv, ChainLinked
<1>3. /\ b.hash \notin DOMAIN blocks
      /\ IsHash(b.hash, k + 2)
  BY <1>1, <1>2, HashGrows
<1>4. /\ DOMAIN blockHashes' = 0 .. k + 1 /\ blockHashes'[k + 1] = b.hash
      /\ \A n \in 0 .. k : blockHashes'[n] = blockHashes[n]
  <2>1. /\ DOMAIN blockHashes' = (0 .. k) \cup {k + 1} /\ blockHashes'[k + 1] = b.hash
        /\ \A n \in 0 .. k : n # k + 1 => blockHashes'[n] = blockHashes[n]
    BY <1>1, <1>2 DEF Set
  <2>2. (0 .. k) \cup {k + 1} = 0 .. k + 1 /\ \A n \in 0 .. k : n # k + 1
    BY <1>2
  <2> QED
    BY <2>1, <2>2
<1>5. /\ DOMAIN blocks' = DOMAIN blocks \cup {b.hash} /\ blocks'[b.hash] = b
      /\ \A h \in DOMAIN blocks : blocks'[h] = blocks[h]
      /\ \A n \in 0 .. k : blocks'[blockHashes[n]] = blocks[blockHashes[n]]
  BY <1>1, <1>2, <1>3 DEF Set
<1> QED
  BY <1>1, <1>2, <1>3, <1>4, <1>5

\* And the chain stays linked.
LEMMA AddBlockKeeps ==
    ASSUME ChainInv, NEW b, AddBlock(b)
    PROVE  ChainInv'
<1> DEFINE k == latestBlock.number
<1>2. /\ k \in Nat /\ b.number = k + 1 /\ b.parentHash = latestBlock.hash
      /\ DOMAIN blockHashes = 0 .. k /\ blockHashes[k] = latestBlock.hash
      /\ blockHashes[0] = Genesis.hash
      /\ DOMAIN blocks = {blockHashes[n] : n \in 0 .. k}
  BY BlockAdded DEF ChainInv, ChainLinked
<1>3. b.hash \notin DOMAIN blocks /\ IsHash(b.hash, k + 2) /\ latestBlock' = b
  BY BlockAdded
<1>4. /\ DOMAIN blockHashes' = 0 .. k + 1 /\ blockHashes'[k + 1] = b.hash
      /\ \A n \in 0 .. k : blockHashes'[n] = blockHashes[n]
  BY BlockAdded
<1>5. /\ DOMAIN blocks' = DOMAIN blocks \cup {b.hash} /\ blocks'[b.hash] = b
      /\ \A n \in 0 .. k : blocks'[blockHashes[n]] = blocks[blockHashes[n]]
  BY BlockAdded
<1>6. latestBlock'.number = k + 1 /\ latestBlock'.hash = b.hash
  BY <1>2, <1>3
<1>7. DOMAIN blocks' = {blockHashes'[n] : n \in 0 .. k + 1}
  BY <1>2, <1>4, <1>5
<1>8. \A n \in 0 .. k + 1 : blocks'[blockHashes'[n]].number = n
  <2>1. \A n \in 0 .. k : blocks'[blockHashes'[n]].number = n
    BY <1>4, <1>5 DEF ChainInv, ChainLinked
  <2> QED
    BY <2>1, <1>2, <1>4, <1>5
<1>9. \A n \in 1 .. k + 1 : blocks'[blockHashes'[n]].parentHash = blockHashes'[n - 1]
  <2>1. \A n \in 1 .. k : n \in 0 .. k /\ n - 1 \in 0 .. k
    BY <1>2
  <2>2. \A n \in 1 .. k : blocks'[blockHashes'[n]].parentHash = blockHashes'[n - 1]
    BY <2>1, <1>4, <1>5 DEF ChainInv, ChainLinked
  <2>3. blocks'[blockHashes'[k + 1]].parentHash = blockHashes'[k]
    BY <1>2, <1>4, <1>5
  <2> QED
    BY <2>2, <2>3, <1>2
<1>10. ChainLinked'
  <2>1. blockHashes'[0] = Genesis.hash
    BY <1>2, <1>4
  <2> QED
    BY <2>1, <1>4, <1>6, <1>7, <1>8, <1>9 DEF ChainLinked
<1>11. HashLengths'
  <2>1. \A n \in 0 .. k : IsHash(blockHashes'[n], n + 1)
    BY <1>4 DEF ChainInv, HashLengths
  <2>2. IsHash(blockHashes'[k + 1], (k + 1) + 1)
    BY <1>2, <1>3, <1>4
  <2>3. \A n \in 0 .. k + 1 : IsHash(blockHashes'[n], n + 1)
    BY <2>1, <2>2, <1>2
  <2> QED
    BY <2>3, <1>6 DEF HashLengths
<1> QED
  BY <1>2, <1>6, <1>10, <1>11 DEF ChainInv

LEMMA NextChainInv == ChainInv /\ [LedgerNext]_ledgerVars => ChainInv'
<1> SUFFICES ASSUME ChainInv, [LedgerNext]_ledgerVars PROVE ChainInv'
  OBVIOUS
<1>1. CASE LedgerNext
  BY <1>1, AddBlockKeeps DEF LedgerNext
<1>2. CASE UNCHANGED ledgerVars
  BY <1>2 DEF ledgerVars, ChainInv, ChainLinked, HashLengths
<1> QED
  BY <1>1, <1>2

\* The chain by number and the chain by hash stay one linked chain, whatever
\* blocks are offered: no block replaces another, and none is left out.
THEOREM ChainAlwaysLinked == LedgerSpec => []ChainLinked
<1>1. ChainInv => ChainLinked
  BY DEF ChainInv
<1> QED
  BY <1>1, InitChainInv, NextChainInv, PTL DEF LedgerSpec

-----------------------------------------------------------------------------
\* Sums.  FoldFunction takes the arguments of a function in an order nobody knows;
\* what the ledger's accounts need of a sum is that the order does not matter.
Some(s) == CHOOSE x \in s : TRUE

Adds(sum, S, f) == sum = [s \in SUBSET S |-> IF s = {} THEN 0 ELSE f[Some(s)] + sum[s \ {Some(s)}]]

LEMMA SumUnfolds == \A f : Sum(f) = (CHOOSE sum : Adds(sum, DOMAIN f, f))[DOMAIN f]
BY DEF Sum, FoldFunction, FoldFunctionOnSet, MapThenFoldSet, Adds, Some

LEMMA SomeIsIn == \A s : s # {} => Some(s) \in s
BY DEF Some

\* The subsets of a finite set, and how many elements one less has.
LEMMA OneLess ==
    ASSUME NEW S, IsFiniteSet(S), NEW T \in SUBSET S
    PROVE  /\ Cardinality(T) \in Nat /\ (Cardinality(T) = 0 <=> T = {})
           /\ Cardinality(T) <= Cardinality(S)
           /\ \A x \in T : T \ {x} \in SUBSET S /\ Cardinality(T \ {x}) = Cardinality(T) - 1
<1>1. IsFiniteSet(T) /\ Cardinality(T) <= Cardinality(S)
  BY FS_Subset
<1>2. Cardinality(T) \in Nat /\ (Cardinality(T) = 0 <=> T = {})
  BY <1>1, FS_CardinalityType, FS_EmptySet
<1>3. \A x \in T : Cardinality(T \ {x}) = Cardinality(T) - 1
  BY <1>1, FS_RemoveElement
<1> QED  BY <1>1, <1>2, <1>3

\* There is a sum, for a set of any size.
LEMMA SumExists ==
    ASSUME NEW S, IsFiniteSet(S), NEW f
    PROVE  \E sum : Adds(sum, S, f)
<1> DEFINE UpTo(k) == {s \in SUBSET S : Cardinality(s) <= k}
           Made(g, k) == g = [s \in UpTo(k) |-> IF s = {} THEN 0 ELSE f[Some(s)] + g[s \ {Some(s)}]]
           Missing == {k \in Nat : ~ \E g : Made(g, k)}
<1>1. \A s \in SUBSET S : s # {} => /\ Some(s) \in s /\ s \ {Some(s)} \in SUBSET S
                                    /\ Cardinality(s \ {Some(s)}) = Cardinality(s) - 1
  BY SomeIsIn, OneLess
<1>2. \A s \in SUBSET S : Cardinality(s) \in Nat /\ (Cardinality(s) = 0 <=> s = {})
  BY OneLess
<1>3. Missing = {}
  <2> SUFFICES ASSUME Missing # {} PROVE FALSE
    OBVIOUS
  <2> HIDE DEF Made, UpTo
  <2>1. PICK m \in Missing : \A k \in Missing : m <= k
    BY LeastNatural
  <2>2. m \in Nat /\ ~ \E g : Made(g, m)
    OBVIOUS
  <2>3. m # 0
    <3>1. \A s \in UpTo(0) : s = {}
      BY <1>2 DEF UpTo
    <3>2. Made([s \in UpTo(0) |-> 0], 0)
      BY <3>1 DEF Made
    <3> QED  BY <2>2, <3>2
  <2>4. m - 1 \in Nat /\ m - 1 \notin Missing
    BY <2>1, <2>2, <2>3
  <2>5. PICK g : Made(g, m - 1)
    BY <2>4
  <2> DEFINE h == [s \in UpTo(m) |-> IF s = {} THEN 0 ELSE f[Some(s)] + g[s \ {Some(s)}]]
  <2>6. \A s \in UpTo(m - 1) : s \in UpTo(m) /\ h[s] = g[s]
    <3>1. \A s \in UpTo(m - 1) : s \in UpTo(m)
      BY <1>2, <2>2 DEF UpTo
    <3>2. \A s \in UpTo(m - 1) : g[s] = IF s = {} THEN 0 ELSE f[Some(s)] + g[s \ {Some(s)}]
      BY <2>5 DEF Made
    <3> QED  BY <3>1, <3>2
  <2>7. \A s \in UpTo(m) : s # {} => s \ {Some(s)} \in UpTo(m - 1)
    BY <1>1, <1>2, <2>2 DEF UpTo
  <2>8. \A s \in UpTo(m) : h[s] = IF s = {} THEN 0 ELSE f[Some(s)] + h[s \ {Some(s)}]
    BY <2>6, <2>7
  <2>9. h = [s \in UpTo(m) |-> h[s]]
    OBVIOUS
  <2> HIDE DEF h
  <2>10. Made(h, m)
    BY <2>8, <2>9 DEF Made
  <2> QED  BY <2>2, <2>10
<1>4. Cardinality(S) \in Nat /\ UpTo(Cardinality(S)) = SUBSET S
  BY OneLess
<1>5. PICK g : Made(g, Cardinality(S))
  BY <1>3, <1>4
<1> HIDE DEF UpTo
<1> QED  BY <1>4, <1>5 DEF Adds

\* Any element may be the one taken out of it.
LEMMA SumTakes ==
    ASSUME NEW S, IsFiniteSet(S), NEW f, \A x \in S : f[x] \in Int, NEW sum, Adds(sum, S, f)
    PROVE  \A T \in SUBSET S : sum[T] \in Int /\ \A x \in T : sum[T] = f[x] + sum[T \ {x}]
<1> DEFINE Right(T) == sum[T] \in Int /\ \A x \in T : sum[T] = f[x] + sum[T \ {x}]
           Wrong == {k \in Nat : \E T \in SUBSET S : Cardinality(T) = k /\ ~ Right(T)}
<1>1. \A T \in SUBSET S : sum[T] = IF T = {} THEN 0 ELSE f[Some(T)] + sum[T \ {Some(T)}]
  BY DEF Adds
<1>2. \A T \in SUBSET S : /\ Cardinality(T) \in Nat
                          /\ \A x \in T : T \ {x} \in SUBSET S /\ Cardinality(T \ {x}) = Cardinality(T) - 1
  BY OneLess
<1> HIDE DEF Right
<1>3. ASSUME NEW T \in SUBSET S, \A U \in SUBSET S : Cardinality(U) < Cardinality(T) => Right(U)
      PROVE  Right(T)
  <2>1. CASE T = {}
    <3>1. sum[T] = 0
      BY <1>1, <2>1
    <3> QED  BY <2>1, <3>1 DEF Right
  <2>2. CASE T # {}
    <3> DEFINE y == Some(T)
    <3>1. y \in T
      BY <2>2, SomeIsIn
    <3>2. f[y] \in Int /\ sum[T] = f[y] + sum[T \ {y}]
      BY <1>1, <2>2, <3>1
    <3> HIDE DEF y
    <3>3. \A x \in T : Right(T \ {x})
      <4> TAKE x \in T
      <4>1. Cardinality(T \ {x}) < Cardinality(T)
        <5> DEFINE c == Cardinality(T)
                   d == Cardinality(T \ {x})
        <5>1. c \in Nat /\ d = c - 1
          BY <1>2
        <5> HIDE DEF c, d
        <5>2. d < c
          BY <5>1
        <5> QED  BY <5>2 DEF c, d
      <4> QED  BY <1>2, <1>3, <4>1
    <3>4. sum[T \ {y}] \in Int
      BY <3>1, <3>3 DEF Right
    <3>5. ASSUME NEW x \in T, x # y PROVE sum[T] = f[x] + sum[T \ {x}]
      <4> DEFINE rest == (T \ {x}) \ {y}
      <4>1. rest = (T \ {y}) \ {x} /\ x \in T \ {y} /\ y \in T \ {x}
        BY <3>1, <3>5
      <4>2. sum[T \ {y}] = f[x] + sum[rest]
        BY <3>1, <3>3, <4>1 DEF Right
      <4>3. sum[T \ {x}] = f[y] + sum[rest]
        BY <3>3, <4>1 DEF Right
      <4>4. sum[rest] \in Int
        <5>1. T \ {x} \in SUBSET S
          OBVIOUS
        <5>2. Cardinality(rest) < Cardinality(T)
          <6> DEFINE c == Cardinality(T)
                     d == Cardinality(T \ {x})
                     e == Cardinality(rest)
          <6>1. c \in Nat /\ d = c - 1
            BY <1>2
          <6>2. e = d - 1
            BY <1>2, <4>1, <5>1
          <6> HIDE DEF c, d, e
          <6>3. e < c
            BY <6>1, <6>2
          <6> QED  BY <6>3 DEF c, e
        <5> QED  BY <1>3, <5>2 DEF Right
      <4>5. f[x] \in Int
        OBVIOUS
      <4> DEFINE whole == sum[T]
                 sansX == sum[T \ {x}]
                 sansY == sum[T \ {y}]
                 least == sum[rest]
      <4>6. whole = f[y] + sansY /\ sansY = f[x] + least /\ sansX = f[y] + least /\ least \in Int
        BY <3>2, <4>2, <4>3, <4>4
      <4> HIDE DEF whole, sansX, sansY, least
      <4>7. whole = f[x] + sansX
        BY <3>2, <4>5, <4>6
      <4> QED  BY <4>7 DEF whole, sansX
    <3>6. sum[T] \in Int
      <4> DEFINE d == sum[T \ {y}]
      <4> HIDE DEF d
      <4> QED  BY <3>2, <3>4 DEF d
    <3> QED  BY <3>2, <3>5, <3>6 DEF Right
  <2> QED  BY <2>1, <2>2
<1>4. Wrong = {}
  <2> SUFFICES ASSUME Wrong # {} PROVE FALSE
    OBVIOUS
  <2>1. PICK m \in Wrong : \A k \in Wrong : m <= k
    BY LeastNatural
  <2>2. PICK T \in SUBSET S : Cardinality(T) = m /\ ~ Right(T)
    BY <2>1
  <2>3. \A U \in SUBSET S : Cardinality(U) < Cardinality(T) => Right(U)
    <3> SUFFICES ASSUME NEW U \in SUBSET S, Cardinality(U) < Cardinality(T), ~ Right(U) PROVE FALSE
      OBVIOUS
    <3>1. Cardinality(U) \in Wrong
      BY <1>2
    <3> QED  BY <1>2, <2>1, <2>2, <3>1
  <2> QED  BY <1>3, <2>2, <2>3
<1>5. \A T \in SUBSET S : Right(T)
  BY <1>2, <1>4
<1> QED  BY <1>5 DEF Right

\* Two sums over equal summands are equal.
LEMMA SumAgrees ==
    ASSUME NEW S, IsFiniteSet(S), NEW f, NEW sum, Adds(sum, S, f),
           NEW R, NEW g, NEW other, Adds(other, R, g),
           NEW T \in SUBSET S, T \in SUBSET R, \A x \in T : f[x] = g[x]
    PROVE  sum[T] = other[T]
<1> DEFINE Wrong == {k \in Nat : \E U \in SUBSET T : Cardinality(U) = k /\ sum[U] # other[U]}
<1>1. \A U \in SUBSET T :
        /\ sum[U] = IF U = {} THEN 0 ELSE f[Some(U)] + sum[U \ {Some(U)}]
        /\ other[U] = IF U = {} THEN 0 ELSE g[Some(U)] + other[U \ {Some(U)}]
  <2>1. \A U \in SUBSET T : sum[U] = IF U = {} THEN 0 ELSE f[Some(U)] + sum[U \ {Some(U)}]
    BY DEF Adds
  <2>2. \A U \in SUBSET T : other[U] = IF U = {} THEN 0 ELSE g[Some(U)] + other[U \ {Some(U)}]
    BY DEF Adds
  <2> QED  BY <2>1, <2>2
<1>2. \A U \in SUBSET T : /\ Cardinality(U) \in Nat
                          /\ \A x \in U : U \ {x} \in SUBSET T /\ Cardinality(U \ {x}) = Cardinality(U) - 1
  BY OneLess
<1>3. Wrong = {}
  <2> SUFFICES ASSUME Wrong # {} PROVE FALSE
    OBVIOUS
  <2>1. PICK m \in Wrong : \A k \in Wrong : m <= k
    <3>1. Wrong \subseteq Nat
      OBVIOUS
    <3> HIDE DEF Wrong
    <3> QED  BY <3>1, LeastNatural
  <2>2. PICK U \in SUBSET T : Cardinality(U) = m /\ sum[U] # other[U]
    BY <2>1
  <2>3. U # {} /\ Some(U) \in U
    BY <1>1, <2>2, SomeIsIn
  <2> DEFINE y == Some(U)
             V == U \ {y}
  <2>4. V \in SUBSET T /\ Cardinality(V) = m - 1 /\ Cardinality(V) \in Nat /\ m \in Nat
    BY <1>2, <2>2, <2>3
  <2>5. sum[V] = other[V]
    <3> HIDE DEF V
    <3>1. m - 1 \notin Wrong
      BY <2>1, <2>4
    <3> QED  BY <2>4, <3>1
  <2>6. f[y] = g[y]
    BY <2>3
  <2> QED  BY <1>1, <2>2, <2>3, <2>5, <2>6
<1> QED  BY <1>2, <1>3

LEMMA SumOver ==
    ASSUME NEW f, IsFiniteSet(DOMAIN f)
    PROVE  \E sum : Adds(sum, DOMAIN f, f) /\ Sum(f) = sum[DOMAIN f]
<1> DEFINE sum == CHOOSE s : Adds(s, DOMAIN f, f)
<1>1. Adds(sum, DOMAIN f, f)
  BY SumExists
<1>2. Sum(f) = sum[DOMAIN f]
  BY SumUnfolds
<1> QED  BY <1>1, <1>2

\* A sum of nothing, of one summand more, and of one summand changed.
LEMMA SumIsInt ==
    ASSUME NEW f, IsFiniteSet(DOMAIN f), \A x \in DOMAIN f : f[x] \in Int
    PROVE  Sum(f) \in Int /\ (DOMAIN f = {} => Sum(f) = 0)
<1>1. PICK sum : Adds(sum, DOMAIN f, f) /\ Sum(f) = sum[DOMAIN f]
  BY SumOver
<1>2. Sum(f) \in Int
  BY <1>1, SumTakes
<1>3. DOMAIN f = {} => sum[DOMAIN f] = 0
  BY <1>1 DEF Adds
<1> QED  BY <1>1, <1>2, <1>3

LEMMA SumExtended ==
    ASSUME NEW f, IsFiniteSet(DOMAIN f), NEW g, NEW x, x \notin DOMAIN f, DOMAIN g = DOMAIN f \cup {x},
           \A y \in DOMAIN g : g[y] \in Int, \A y \in DOMAIN f : g[y] = f[y]
    PROVE  Sum(g) = Sum(f) + g[x]
<1> DEFINE F == DOMAIN f
           G == DOMAIN g
<1>1. IsFiniteSet(F) /\ IsFiniteSet(G) /\ G = F \cup {x} /\ x \notin F /\ G \ {x} = F
  BY FS_AddElement
<1>2. \A y \in F : f[y] \in Int
  OBVIOUS
<1>3. PICK sum : Adds(sum, F, f) /\ Sum(f) = sum[F]
  BY SumOver
<1>4. PICK other : Adds(other, G, g) /\ Sum(g) = other[G]
  BY <1>1, SumOver
<1>5. \A y \in F : f[y] = g[y]
  OBVIOUS
<1>6. \A y \in G : g[y] \in Int
  OBVIOUS
<1> HIDE DEF F, G
<1>7. other[G] = g[x] + other[F]
  <2>1. \A T \in SUBSET G : other[T] \in Int /\ \A y \in T : other[T] = g[y] + other[T \ {y}]
    BY <1>1, <1>4, <1>6, SumTakes
  <2>2. x \in G /\ G \in SUBSET G
    BY <1>1
  <2>3. other[G] = g[x] + other[G \ {x}]
    BY <2>1, <2>2
  <2>4. G \ {x} = F
    BY <1>1
  <2> QED  BY <2>3, <2>4
<1>8. sum[F] = other[F]
  BY <1>1, <1>3, <1>4, <1>5, SumAgrees
<1>9. other[F] \in Int /\ g[x] \in Int
  <2>1. F \in SUBSET G
    BY <1>1
  <2> QED  BY <1>1, <1>4, <1>6, <2>1, SumTakes
<1> QED  BY <1>3, <1>4, <1>7, <1>8, <1>9

LEMMA SumChanged ==
    ASSUME NEW f, IsFiniteSet(DOMAIN f), NEW g, NEW x \in DOMAIN f, DOMAIN g = DOMAIN f,
           \A y \in DOMAIN f : f[y] \in Int /\ g[y] \in Int, \A y \in DOMAIN f \ {x} : g[y] = f[y]
    PROVE  Sum(g) = Sum(f) - f[x] + g[x]
<1> DEFINE F == DOMAIN f
           R == F \ {x}
<1>1. PICK sum : Adds(sum, F, f) /\ Sum(f) = sum[F]
  BY SumOver
<1>2. PICK other : Adds(other, F, g) /\ Sum(g) = other[F]
  BY SumOver
<1>3. IsFiniteSet(F) /\ x \in F /\ R \in SUBSET F
  OBVIOUS
<1>4. (\A y \in F : f[y] \in Int /\ g[y] \in Int) /\ (\A y \in R : f[y] = g[y])
  OBVIOUS
<1> HIDE DEF F
<1>5. sum[F] = f[x] + sum[R] /\ sum[R] \in Int
  <2>1. \A T \in SUBSET F : sum[T] \in Int /\ \A y \in T : sum[T] = f[y] + sum[T \ {y}]
    BY <1>1, <1>3, <1>4, SumTakes
  <2> QED  BY <1>3, <2>1
<1>6. other[F] = g[x] + other[R] /\ other[R] \in Int
  <2>1. \A T \in SUBSET F : other[T] \in Int /\ \A y \in T : other[T] = g[y] + other[T \ {y}]
    BY <1>2, <1>3, <1>4, SumTakes
  <2> QED  BY <1>3, <2>1
<1> HIDE DEF R
<1>7. sum[R] = other[R]
  BY <1>1, <1>2, <1>3, <1>4, SumAgrees
<1>8. f[x] \in Int /\ g[x] \in Int
  BY <1>3, <1>4
<1> QED  BY <1>1, <1>2, <1>5, <1>6, <1>7, <1>8

-----------------------------------------------------------------------------
\* The ledger's books: its accounts, and the transactions they come from, each at
\* its place in the chain.
AccountsTyped(accounts) ==
    /\ IsFiniteSet(DOMAIN accounts) /\ DOMAIN Alloc \subseteq DOMAIN accounts
    /\ \A a \in DOMAIN accounts : accounts[a] \in [balance : Int, nonce : Nat]

NoDebt ==
    /\ \A a \in DOMAIN Alloc : Alloc[a].balance \in Nat
    /\ \A tx \in LedgerTxs : tx.value \in Nat /\ tx.gasLimit \in Nat /\ tx.gasPrice \in Nat

Solvent(accounts) == NoDebt => \A a \in DOMAIN accounts : accounts[a].balance \in Nat

ChainTyped(accounts, chain) ==
    /\ IsFiniteSet(DOMAIN chain)
    /\ \A p \in DOMAIN chain : chain[p] \in LedgerTxs /\ chain[p].from \in DOMAIN accounts

SentBy(chain, a) == {p \in DOMAIN chain : chain[p].from = a /\ chain[p].to # a}

Spent(chain, a, nonce) ==
    /\ nonce >= FirstNonce(a)
    /\ {chain[p].nonce : p \in SentBy(chain, a)} = FirstNonce(a) .. nonce - 1
    /\ \A p, q \in SentBy(chain, a) : Before(p, q) => chain[p].nonce < chain[q].nonce

Accounted(accounts, chain) ==
    Total(accounts) + Sum([p \in DOMAIN chain |-> Burnt(chain[p])])
        = Total(Alloc) + Sum([p \in DOMAIN chain |-> Minted(chain[p])])

Books(accounts, chain) ==
    /\ AccountsTyped(accounts)
    /\ Solvent(accounts)
    /\ ChainTyped(accounts, chain)
    /\ \A a \in DOMAIN accounts : Spent(chain, a, accounts[a].nonce)
    /\ Accounted(accounts, chain)

LEMMA FirstNonceIsNat == \A a : FirstNonce(a) \in Nat
<1>1. \A a \in DOMAIN Alloc : Alloc[a].nonce \in Nat
  BY LedgerAssumption
<1> QED  BY <1>1 DEF FirstNonce

\* The nonces of an account nobody has sent from are untouched.
LEMMA NobodySent ==
    ASSUME NEW chain, NEW a, \A p \in DOMAIN chain : chain[p].from # a
    PROVE  SentBy(chain, a) = {} /\ Spent(chain, a, FirstNonce(a))
<1>1. SentBy(chain, a) = {}
  BY DEF SentBy
<1>2. FirstNonce(a) .. FirstNonce(a) - 1 = {}
  BY FirstNonceIsNat
<1> QED  BY <1>1, <1>2, FirstNonceIsNat DEF Spent

\* One transaction more: the accounts it leaves alone, and its sender's.
LEMMA SpentElsewhere ==
    ASSUME NEW chain, NEW q, q \notin DOMAIN chain, NEW tx, NEW a, tx.from # a \/ tx.to = a, NEW nonce,
           Spent(chain, a, nonce)
    PROVE  Spent(Set(chain, q, tx), a, nonce)
<1> DEFINE new == Set(chain, q, tx)
<1>1. DOMAIN new = DOMAIN chain \cup {q} /\ new[q] = tx /\ \A p \in DOMAIN chain : new[p] = chain[p]
  BY DEF Set
<1> HIDE DEF new
<1>2. SentBy(new, a) = SentBy(chain, a)
  BY <1>1 DEF SentBy
<1>3. \A p \in SentBy(chain, a) : new[p] = chain[p]
  BY <1>1 DEF SentBy
<1>4. {new[p].nonce : p \in SentBy(new, a)} = {chain[p].nonce : p \in SentBy(chain, a)}
  BY <1>2, <1>3
<1>5. Spent(new, a, nonce)
  BY <1>2, <1>3, <1>4 DEF Spent
<1> QED  BY <1>5 DEF new

LEMMA SpentHere ==
    ASSUME NEW chain, NEW q, \A p \in DOMAIN chain : p # q /\ ~ Before(q, p), ~ Before(q, q),
           NEW tx, tx.to # tx.from, tx.nonce \in Nat, Spent(chain, tx.from, tx.nonce)
    PROVE  Spent(Set(chain, q, tx), tx.from, tx.nonce + 1)
<1> DEFINE new == Set(chain, q, tx)
           a == tx.from
           first == FirstNonce(a)
           old == SentBy(chain, a)
<1>1. DOMAIN new = DOMAIN chain \cup {q} /\ new[q] = tx /\ \A p \in DOMAIN chain : new[p] = chain[p]
  BY DEF Set
<1>2. first \in Nat /\ tx.nonce \in Nat /\ tx.nonce >= first
  BY FirstNonceIsNat DEF Spent
<1>3. {chain[p].nonce : p \in old} = first .. tx.nonce - 1
  BY DEF Spent
<1>4. \A p, r \in old : Before(p, r) => chain[p].nonce < chain[r].nonce
  BY DEF Spent
<1> HIDE DEF new, first
<1>5. SentBy(new, a) = old \cup {q}
  BY <1>1 DEF SentBy
<1>6. \A p \in old : p \in DOMAIN chain /\ new[p] = chain[p]
  BY <1>1 DEF SentBy
<1> HIDE DEF old
<1>7. {new[p].nonce : p \in SentBy(new, a)} = {chain[p].nonce : p \in old} \cup {tx.nonce}
  BY <1>1, <1>5, <1>6
<1>8. (first .. tx.nonce - 1) \cup {tx.nonce} = first .. (tx.nonce + 1) - 1
  BY <1>2
<1>9. \A p \in old : chain[p].nonce < tx.nonce
  <2>1. \A p \in old : chain[p].nonce \in first .. tx.nonce - 1
    BY <1>3
  <2> QED  BY <1>2, <2>1
<1>10. \A p, r \in old \cup {q} : Before(p, r) => new[p].nonce < new[r].nonce
  BY <1>1, <1>4, <1>6, <1>9
<1>11. tx.nonce + 1 >= first
  BY <1>2
<1>12. Spent(new, a, tx.nonce + 1)
  BY <1>3, <1>5, <1>7, <1>8, <1>10, <1>11 DEF Spent, first
<1> QED  BY <1>12 DEF new

LEMMA CostIsInt ==
    ASSUME NEW tx \in LedgerTxs
    PROVE  /\ tx.value \in Int /\ GasCost(tx) \in Int /\ TotalCost(tx) \in Int
           /\ TotalCost(tx) = tx.value + GasCost(tx)
           /\ NoDebt => tx.value \in Nat /\ GasCost(tx) \in Nat
<1>1. tx.value \in Int /\ tx.gasLimit \in Int /\ tx.gasPrice \in Int
  BY LedgerAssumption
<1>2. NoDebt => tx.value \in Nat /\ tx.gasLimit \in Nat /\ tx.gasPrice \in Nat
  BY DEF NoDebt
<1>3. \A i, j \in Int : i * j \in Int
  OBVIOUS
<1>4. \A i, j \in Nat : i * j \in Nat
  OBVIOUS
<1>5. GasCost(tx) \in Int /\ (NoDebt => GasCost(tx) \in Nat)
  BY <1>1, <1>2, <1>3, <1>4 DEF GasCost
<1> QED  BY <1>1, <1>2, <1>5 DEF TotalCost

\* What processTransaction leaves in each account.
Held(accounts, a) == IF a \in DOMAIN accounts THEN accounts[a] ELSE [balance |-> 0, nonce |-> 0]

LEMMA Executed ==
    ASSUME NEW accounts, AccountsTyped(accounts), NEW tx \in LedgerTxs, CanExecute(accounts, tx)
    PROVE  /\ DOMAIN Execute(accounts, tx) = DOMAIN accounts \cup {tx.to}
           /\ \A a \in DOMAIN accounts \ {tx.from, tx.to} : Execute(accounts, tx)[a] = accounts[a]
           /\ Execute(accounts, tx)[tx.to]
                = [balance |-> Held(accounts, tx.to).balance + tx.value, nonce |-> Held(accounts, tx.to).nonce]
           /\ tx.from # tx.to => Execute(accounts, tx)[tx.from]
                = [balance |-> accounts[tx.from].balance - TotalCost(tx), nonce |-> accounts[tx.from].nonce + 1]
<1> DEFINE to == tx.to
           from == tx.from
           credited == [balance |-> Held(accounts, to).balance + tx.value, nonce |-> Held(accounts, to).nonce]
           paid == [balance |-> accounts[from].balance - TotalCost(tx), nonce |-> accounts[from].nonce + 1]
<1>1. from \in DOMAIN accounts
  BY DEF CanExecute
<1>2. [Held(accounts, to) EXCEPT !.balance = @ + tx.value] = credited
  <2>1. Held(accounts, to) \in [balance : Int, nonce : Nat]
    BY DEF AccountsTyped, Held
  <2> QED  BY <2>1
<1>3. Execute(accounts, tx) = Set(Set(accounts, from, paid), to, credited)
  BY <1>2 DEF Execute, Held
<1> HIDE DEF credited, paid, to, from
<1>4. /\ DOMAIN Set(Set(accounts, from, paid), to, credited) = DOMAIN accounts \cup {to}
      /\ \A a \in DOMAIN accounts \ {from, to} : Set(Set(accounts, from, paid), to, credited)[a] = accounts[a]
      /\ Set(Set(accounts, from, paid), to, credited)[to] = credited
      /\ from # to => Set(Set(accounts, from, paid), to, credited)[from] = paid
  BY <1>1 DEF Set
<1> QED  BY <1>3, <1>4 DEF credited, paid, to, from

LEMMA ExecutedTyped ==
    ASSUME NEW accounts, AccountsTyped(accounts), NEW tx \in LedgerTxs, CanExecute(accounts, tx)
    PROVE  /\ AccountsTyped(Execute(accounts, tx))
           /\ Solvent(accounts) => Solvent(Execute(accounts, tx))
<1> DEFINE after == Execute(accounts, tx)
           held == Held(accounts, tx.to)
<1>1. /\ DOMAIN after = DOMAIN accounts \cup {tx.to}
      /\ \A a \in DOMAIN accounts \ {tx.from, tx.to} : after[a] = accounts[a]
      /\ after[tx.to] = [balance |-> held.balance + tx.value, nonce |-> held.nonce]
      /\ tx.from # tx.to => after[tx.from]
             = [balance |-> accounts[tx.from].balance - TotalCost(tx), nonce |-> accounts[tx.from].nonce + 1]
  BY Executed
<1>2. tx.from \in DOMAIN accounts /\ accounts[tx.from].balance >= TotalCost(tx)
  BY DEF CanExecute
<1>3. tx.value \in Int /\ TotalCost(tx) \in Int /\ (NoDebt => tx.value \in Nat)
  BY CostIsInt
<1>4. \A a \in DOMAIN accounts : accounts[a] \in [balance : Int, nonce : Nat]
  BY DEF AccountsTyped
<1>5. held \in [balance : Int, nonce : Nat] /\ (Solvent(accounts) /\ NoDebt => held.balance \in Nat)
  BY <1>4 DEF Held, Solvent
<1>6. IsFiniteSet(DOMAIN after) /\ DOMAIN Alloc \subseteq DOMAIN after
  BY <1>1, FS_AddElement DEF AccountsTyped
<1> HIDE DEF after, held
<1>7. \A a \in DOMAIN after :
          a \in DOMAIN accounts \ {tx.from, tx.to} \/ a = tx.to \/ (a = tx.from /\ tx.from # tx.to)
  BY <1>1
<1>8. after[tx.to] \in [balance : Int, nonce : Nat] /\ (Solvent(accounts) /\ NoDebt => after[tx.to].balance \in Nat)
  BY <1>1, <1>3, <1>5
<1>9. tx.from # tx.to => after[tx.from] \in [balance : Int, nonce : Nat] /\ after[tx.from].balance \in Nat
  <2>1. accounts[tx.from].balance \in Int /\ accounts[tx.from].nonce \in Nat
    BY <1>2, <1>4
  <2>2. accounts[tx.from].balance - TotalCost(tx) \in Nat
    BY <1>2, <1>3, <2>1
  <2> QED  BY <1>1, <2>1, <2>2
<1>10. \A a \in DOMAIN after : after[a] \in [balance : Int, nonce : Nat]
  BY <1>1, <1>4, <1>7, <1>8, <1>9
<1>11. AccountsTyped(after)
  BY <1>6, <1>10 DEF AccountsTyped
<1>12. Solvent(accounts) => Solvent(after)
  <2> SUFFICES ASSUME Solvent(accounts), NoDebt, NEW a \in DOMAIN after PROVE after[a].balance \in Nat
    BY DEF Solvent
  <2>1. a \in DOMAIN accounts \ {tx.from, tx.to} => after[a].balance \in Nat
    BY <1>1 DEF Solvent
  <2> QED  BY <1>7, <1>8, <1>9, <2>1
<1> QED  BY <1>11, <1>12 DEF after

\* What a transaction changes of the total: its gas goes, and a transfer to oneself is new.
LEMMA TotalExecuted ==
    ASSUME NEW accounts, AccountsTyped(accounts), NEW tx \in LedgerTxs, CanExecute(accounts, tx)
    PROVE  /\ Total(accounts) \in Int
           /\ Total(Execute(accounts, tx)) = Total(accounts) + Minted(tx) - Burnt(tx)
<1> DEFINE after == Execute(accounts, tx)
           to == tx.to
           from == tx.from
           had == Held(accounts, to).balance
           cost == TotalCost(tx)
           before == [a \in DOMAIN accounts |-> accounts[a].balance]
           now1 == [a \in DOMAIN after |-> after[a].balance]
           half == [a \in DOMAIN accounts |-> IF a = from THEN before[from] - cost ELSE before[a]]
<1>1. /\ DOMAIN after = DOMAIN accounts \cup {to}
      /\ \A a \in DOMAIN accounts \ {from, to} : after[a] = accounts[a]
      /\ after[to].balance = had + tx.value
      /\ from # to => after[from].balance = accounts[from].balance - cost
  <2>1. /\ DOMAIN after = DOMAIN accounts \cup {to}
        /\ \A a \in DOMAIN accounts \ {from, to} : after[a] = accounts[a]
        /\ after[to] = [balance |-> had + tx.value, nonce |-> Held(accounts, to).nonce]
        /\ from # to => after[from]
               = [balance |-> accounts[from].balance - cost, nonce |-> accounts[from].nonce + 1]
    BY Executed
  <2> HIDE DEF after, to, from, had, cost
  <2> QED  BY <2>1
<1>2. from \in DOMAIN accounts
  BY DEF CanExecute
<1>3. tx.value \in Int /\ GasCost(tx) \in Int /\ cost \in Int /\ cost = tx.value + GasCost(tx)
  BY CostIsInt
<1>4. AccountsTyped(after)
  BY ExecutedTyped
<1>5. /\ IsFiniteSet(DOMAIN before) /\ (\A a \in DOMAIN before : before[a] \in Int)
      /\ IsFiniteSet(DOMAIN now1) /\ (\A a \in DOMAIN now1 : now1[a] \in Int)
  BY <1>4 DEF AccountsTyped
<1>6. /\ DOMAIN half = DOMAIN before /\ from \in DOMAIN before
      /\ half[from] = before[from] - cost /\ (\A a \in DOMAIN before \ {from} : half[a] = before[a])
      /\ \A a \in DOMAIN before : half[a] \in Int
  BY <1>2, <1>3, <1>5
<1>7. DOMAIN now1 = DOMAIN before \cup {to} /\ now1[to] = had + tx.value
  BY <1>1
<1>8. (\A a \in DOMAIN before \ {from, to} : now1[a] = before[a]) /\ (from # to => now1[from] = before[from] - cost)
  BY <1>1, <1>2
<1>9. had = IF to \in DOMAIN before THEN before[to] ELSE 0
  BY DEF Held
<1>10. Total(accounts) = Sum(before) /\ Total(after) = Sum(now1)
  BY DEF Total
<1> HIDE DEF before, now1, half, had, cost, to, from, after
<1>11. Sum(before) \in Int /\ Sum(half) \in Int /\ Sum(now1) \in Int
  BY <1>5, <1>6, SumIsInt
<1>12. CASE from = to
  <2>1. DOMAIN now1 = DOMAIN before /\ (\A a \in DOMAIN before \ {from} : now1[a] = before[a])
    BY <1>6, <1>7, <1>8, <1>12
  <2>2. Sum(now1) = Sum(before) - before[from] + now1[from]
    BY <1>5, <1>6, <2>1, SumChanged
  <2>3. before[from] \in Int /\ now1[from] = before[from] + tx.value
    BY <1>5, <1>6, <1>7, <1>9, <1>12
  <2>4. Sum(now1) = Sum(before) + tx.value
    BY <1>3, <1>11, <2>2, <2>3
  <2>5. Minted(tx) = tx.value /\ Burnt(tx) = 0
    BY <1>12 DEF Minted, Burnt, from, to
  <2>6. Total(after) = Total(accounts) + Minted(tx) - Burnt(tx)
    BY <1>3, <1>10, <1>11, <2>4, <2>5
  <2> QED  BY <1>10, <1>11, <2>6 DEF after
<1>13. CASE from # to
  <2>1. Sum(half) = Sum(before) - before[from] + half[from]
    BY <1>5, <1>6, SumChanged
  <2>2. before[from] \in Int
    BY <1>5, <1>6
  <2>3. Sum(half) = Sum(before) - cost
    BY <1>3, <1>6, <1>11, <2>1, <2>2
  <2>4. Sum(now1) = Sum(half) + tx.value
    <3>1. CASE to \in DOMAIN before
      <4>1. DOMAIN now1 = DOMAIN half /\ to \in DOMAIN half /\ half[to] = had /\ half[to] \in Int
        BY <1>6, <1>7, <1>9, <1>13, <3>1
      <4>2. \A a \in DOMAIN half \ {to} : now1[a] = half[a]
        BY <1>6, <1>8, <1>13
      <4>3. IsFiniteSet(DOMAIN half) /\ (\A a \in DOMAIN half : half[a] \in Int /\ now1[a] \in Int)
        BY <1>5, <1>6, <4>1
      <4>4. Sum(now1) = Sum(half) - half[to] + now1[to]
        BY <4>1, <4>2, <4>3, SumChanged
      <4> QED  BY <1>3, <1>7, <1>11, <4>1, <4>4
    <3>2. CASE to \notin DOMAIN before
      <4>1. DOMAIN now1 = DOMAIN half \cup {to} /\ to \notin DOMAIN half /\ had = 0
        BY <1>6, <1>7, <1>9, <3>2
      <4>2. \A a \in DOMAIN half : now1[a] = half[a]
        BY <1>6, <1>8, <1>13, <3>2
      <4>3. IsFiniteSet(DOMAIN half) /\ (\A a \in DOMAIN now1 : now1[a] \in Int)
        BY <1>5, <1>6
      <4>4. Sum(now1) = Sum(half) + now1[to]
        BY <4>1, <4>2, <4>3, SumExtended
      <4> QED  BY <1>3, <1>7, <1>11, <4>1, <4>4
    <3> QED  BY <3>1, <3>2
  <2>5. Sum(now1) = Sum(before) - GasCost(tx)
    BY <1>3, <1>11, <2>3, <2>4
  <2>6. Minted(tx) = 0 /\ Burnt(tx) = GasCost(tx)
    BY <1>13 DEF Minted, Burnt, from, to
  <2>7. Total(after) = Total(accounts) + Minted(tx) - Burnt(tx)
    BY <1>3, <1>10, <1>11, <2>5, <2>6
  <2> QED  BY <1>10, <1>11, <2>7 DEF after
<1> QED  BY <1>12, <1>13

\* The books are kept by one transaction, at a place after those there are.
LEMMA ExecuteKeeps ==
    ASSUME NEW accounts, NEW chain, Books(accounts, chain), NEW tx \in LedgerTxs, CanExecute(accounts, tx),
           NEW q, \A p \in DOMAIN chain : p # q /\ ~ Before(q, p), ~ Before(q, q)
    PROVE  Books(Execute(accounts, tx), Set(chain, q, tx))
<1> DEFINE after == Execute(accounts, tx)
           new == Set(chain, q, tx)
<1>1. AccountsTyped(after) /\ Solvent(after) /\ AccountsTyped(accounts)
  BY ExecutedTyped DEF Books
<1>2. /\ DOMAIN after = DOMAIN accounts \cup {tx.to}
      /\ \A a \in DOMAIN accounts \ {tx.from, tx.to} : after[a] = accounts[a]
      /\ after[tx.to].nonce = Held(accounts, tx.to).nonce
      /\ tx.from # tx.to => after[tx.from].nonce = accounts[tx.from].nonce + 1
  <2>1. /\ DOMAIN after = DOMAIN accounts \cup {tx.to}
        /\ \A a \in DOMAIN accounts \ {tx.from, tx.to} : after[a] = accounts[a]
        /\ after[tx.to]
             = [balance |-> Held(accounts, tx.to).balance + tx.value, nonce |-> Held(accounts, tx.to).nonce]
        /\ tx.from # tx.to => after[tx.from]
             = [balance |-> accounts[tx.from].balance - TotalCost(tx), nonce |-> accounts[tx.from].nonce + 1]
    BY <1>1, Executed
  <2> HIDE DEF after
  <2> QED  BY <2>1
<1>3. tx.from \in DOMAIN accounts /\ tx.nonce = accounts[tx.from].nonce /\ tx.nonce \in Nat
  BY <1>1 DEF CanExecute, AccountsTyped
<1>4. /\ DOMAIN new = DOMAIN chain \cup {q} /\ new[q] = tx /\ q \notin DOMAIN chain
      /\ \A p \in DOMAIN chain : new[p] = chain[p]
  BY DEF Set
<1>5. ChainTyped(accounts, chain)
  BY DEF Books
<1> HIDE DEF after
<1>6. ChainTyped(after, new)
  <2>1. IsFiniteSet(DOMAIN new)
    BY <1>4, <1>5, FS_AddElement DEF ChainTyped
  <2> QED  BY <1>2, <1>3, <1>4, <1>5, <2>1 DEF ChainTyped
<1>7. \A a \in DOMAIN accounts : Spent(chain, a, accounts[a].nonce)
  BY DEF Books
<1>8. \A a \in DOMAIN after : Spent(new, a, after[a].nonce)
  <2> TAKE a \in DOMAIN after
  <2>1. CASE a = tx.from /\ tx.to # tx.from
    <3>1. Spent(chain, tx.from, tx.nonce)
      BY <1>3, <1>7
    <3>2. Spent(new, tx.from, tx.nonce + 1)
      BY <1>3, <2>1, <3>1, SpentHere
    <3> HIDE DEF new
    <3> QED  BY <1>2, <1>3, <2>1, <3>2
  <2>2. CASE a = tx.to \/ a # tx.from
    <3>1. Spent(chain, a, after[a].nonce)
      <4>1. CASE a \in DOMAIN accounts
        <5>1. after[a].nonce = accounts[a].nonce
          BY <1>2, <2>2, <4>1 DEF Held
        <5> QED  BY <1>7, <4>1, <5>1
      <4>2. CASE a \notin DOMAIN accounts
        <5>1. after[a].nonce = 0
          BY <1>2, <4>2 DEF Held
        <5>2. FirstNonce(a) = 0
          BY <1>1, <4>2 DEF FirstNonce, AccountsTyped
        <5>3. Spent(chain, a, FirstNonce(a))
          BY <1>5, <4>2, NobodySent DEF ChainTyped
        <5> QED  BY <5>1, <5>2, <5>3
      <4> QED  BY <4>1, <4>2
    <3> QED  BY <1>4, <2>2, <3>1, SpentElsewhere
  <2> QED  BY <2>1, <2>2
<1>9. Accounted(after, new)
  <2> DEFINE burnt(c) == [p \in DOMAIN c |-> Burnt(c[p])]
             minted(c) == [p \in DOMAIN c |-> Minted(c[p])]
  <2>1. \A t \in LedgerTxs : Burnt(t) \in Int /\ Minted(t) \in Int
    BY CostIsInt DEF Burnt, Minted
  <2>2. \A p \in DOMAIN chain : chain[p] \in LedgerTxs
    BY <1>5 DEF ChainTyped
  <2>3. \A p \in DOMAIN new : new[p] \in LedgerTxs
    BY <1>6 DEF ChainTyped
  <2> HIDE DEF new
  <2>4. Sum(burnt(new)) = Sum(burnt(chain)) + Burnt(tx) /\ Sum(burnt(chain)) \in Int
    <3> DEFINE f == burnt(chain)
               g == burnt(new)
    <3>1. /\ IsFiniteSet(DOMAIN f) /\ q \notin DOMAIN f /\ DOMAIN g = DOMAIN f \cup {q} /\ g[q] = Burnt(tx)
          /\ (\A p \in DOMAIN f : f[p] \in Int) /\ (\A p \in DOMAIN g : g[p] \in Int)
          /\ \A p \in DOMAIN f : g[p] = f[p]
      BY <1>4, <1>5, <2>1, <2>2, <2>3 DEF ChainTyped
    <3> HIDE DEF f, g
    <3>2. Sum(g) = Sum(f) + Burnt(tx) /\ Sum(f) \in Int
      BY <3>1, SumExtended, SumIsInt
    <3> QED  BY <3>2 DEF f, g
  <2>5. Sum(minted(new)) = Sum(minted(chain)) + Minted(tx) /\ Sum(minted(chain)) \in Int
    <3> DEFINE f == minted(chain)
               g == minted(new)
    <3>1. /\ IsFiniteSet(DOMAIN f) /\ q \notin DOMAIN f /\ DOMAIN g = DOMAIN f \cup {q} /\ g[q] = Minted(tx)
          /\ (\A p \in DOMAIN f : f[p] \in Int) /\ (\A p \in DOMAIN g : g[p] \in Int)
          /\ \A p \in DOMAIN f : g[p] = f[p]
      BY <1>4, <1>5, <2>1, <2>2, <2>3 DEF ChainTyped
    <3> HIDE DEF f, g
    <3>2. Sum(g) = Sum(f) + Minted(tx) /\ Sum(f) \in Int
      BY <3>1, SumExtended, SumIsInt
    <3> QED  BY <3>2 DEF f, g
  <2>6. Total(accounts) + Sum(burnt(chain)) = Total(Alloc) + Sum(minted(chain))
    BY DEF Books, Accounted
  <2>7. Total(accounts) \in Int /\ Total(after) = Total(accounts) + Minted(tx) - Burnt(tx)
    BY <1>1, TotalExecuted DEF after
  <2>8. Total(Alloc) \in Int
    <3> DEFINE f == [a \in DOMAIN Alloc |-> Alloc[a].balance]
    <3>1. IsFiniteSet(DOMAIN f) /\ \A a \in DOMAIN f : f[a] \in Int
      BY LedgerAssumption
    <3> HIDE DEF f
    <3>2. Sum(f) \in Int
      BY <3>1, SumIsInt
    <3> QED  BY <3>2 DEF f, Total
  <2>9. Burnt(tx) \in Int /\ Minted(tx) \in Int
    BY <2>1
  <2> DEFINE B == Sum(burnt(chain))
             M == Sum(minted(chain))
             B1 == Sum(burnt(new))
             M1 == Sum(minted(new))
  <2> HIDE DEF B, M, B1, M1
  <2>10. /\ B1 = B + Burnt(tx) /\ B \in Int /\ M1 = M + Minted(tx) /\ M \in Int
         /\ Total(accounts) + B = Total(Alloc) + M
    BY <2>4, <2>5, <2>6 DEF B, M, B1, M1
  <2>11. Total(after) + B1 = Total(Alloc) + M1
    BY <2>7, <2>8, <2>9, <2>10
  <2> QED  BY <2>11 DEF Accounted, B1, M1
<1>10. Books(after, new)
  BY <1>1, <1>6, <1>8, <1>9 DEF Books
<1> QED  BY <1>10 DEF after

\* The chain with the first i transactions of a block at height m.
Grown(chain, m, txs, i) ==
    [p \in DOMAIN chain \cup ({m} \X (1 .. i)) |-> IF p \in DOMAIN chain THEN chain[p] ELSE txs[p[2]]]

Result(r) ==
    /\ r = [accounts |-> r.accounts, gas |-> r.gas, success |-> r.success]
    /\ r.gas \in Int /\ (NoDebt => r.gas \in Nat)

LEMMA GrownByOne ==
    ASSUME NEW chain, NEW m, NEW txs, NEW i \in Nat \ {0}, \A p \in DOMAIN chain : p[1] # m
    PROVE  Grown(chain, m, txs, i) = Set(Grown(chain, m, txs, i - 1), <<m, i>>, txs[i])
<1> DEFINE D == DOMAIN chain
           q == <<m, i>>
           shorter == Grown(chain, m, txs, i - 1)
<1>1. {m} \X (1 .. i) = ({m} \X (1 .. i - 1)) \cup {q}
  <2>1. 1 .. i = (1 .. i - 1) \cup {i}
    OBVIOUS
  <2> QED  BY <2>1
<1>2. q \notin D /\ q[2] = i
  OBVIOUS
<1>3. \A j \in 1 .. i - 1 : j # i
  OBVIOUS
<1>4. q \notin {m} \X (1 .. i - 1)
  BY <1>3
<1>5. Grown(chain, m, txs, i) = [p \in (D \cup ({m} \X (1 .. i - 1))) \cup {q} |->
                                    IF p = q THEN txs[i] ELSE IF p \in D THEN chain[p] ELSE txs[p[2]]]
  <2>1. D \cup ({m} \X (1 .. i)) = (D \cup ({m} \X (1 .. i - 1))) \cup {q}
    BY <1>1
  <2>2. \A p : (IF p \in D THEN chain[p] ELSE txs[p[2]])
                 = IF p = q THEN txs[i] ELSE IF p \in D THEN chain[p] ELSE txs[p[2]]
    BY <1>2
  <2> QED  BY <2>1, <2>2 DEF Grown
<1>6. /\ DOMAIN shorter = D \cup ({m} \X (1 .. i - 1))
      /\ \A p \in DOMAIN shorter : shorter[p] = IF p \in D THEN chain[p] ELSE txs[p[2]]
  BY DEF Grown
<1> HIDE DEF shorter, q
<1> QED  BY <1>5, <1>6 DEF Set, shorter, q

LEMMA ProcessKeeps ==
    ASSUME NEW r, Result(r), NEW chain, r.success => Books(r.accounts, chain), NEW tx \in LedgerTxs,
           NEW q, \A p \in DOMAIN chain : p # q /\ ~ Before(q, p), ~ Before(q, q)
    PROVE  /\ Result(Process(r, tx))
           /\ Process(r, tx).success => Books(Process(r, tx).accounts, Set(chain, q, tx))
<1>1. tx.gasLimit \in Int /\ (NoDebt => tx.gasLimit \in Nat)
  BY LedgerAssumption DEF NoDebt
<1>2. r.gas \in Int /\ (NoDebt => r.gas \in Nat)
  BY DEF Result
<1>3. CASE r.success /\ CanExecute(r.accounts, tx)
  <2>1. Process(r, tx) = [accounts |-> Execute(r.accounts, tx), gas |-> r.gas + tx.gasLimit, success |-> r.success]
    BY <1>3 DEF Process, Result
  <2>2. Books(Execute(r.accounts, tx), Set(chain, q, tx))
    BY <1>3, ExecuteKeeps
  <2>3. r.gas + tx.gasLimit \in Int /\ (NoDebt => r.gas + tx.gasLimit \in Nat)
    BY <1>1, <1>2
  <2> QED  BY <2>1, <2>2, <2>3 DEF Result
<1>4. CASE ~ (r.success /\ CanExecute(r.accounts, tx))
  <2>1. Process(r, tx) = [accounts |-> r.accounts, gas |-> r.gas, success |-> FALSE]
    BY <1>4 DEF Process, Result
  <2> QED  BY <1>2, <2>1 DEF Result
<1> QED  BY <1>3, <1>4

\* processBlock: the books are kept by every transaction before the first that fails.
LEMMA ProcessAllKeeps ==
    ASSUME NEW chain, chain = [p \in DOMAIN chain |-> chain[p]], Books(accountStates, chain),
           NEW m \in Int, \A p \in DOMAIN chain : p[1] \in Int /\ p[1] < m,
           NEW n \in Nat, NEW txs \in [1 .. n -> LedgerTxs]
    PROVE  /\ Result(ProcessAll(txs))
           /\ ProcessAll(txs).success => Books(ProcessAll(txs).accounts, Grown(chain, m, txs, n))
<1> DEFINE start == [accounts |-> accountStates, gas |-> 0, success |-> TRUE]
           last == Len(txs)
           Made(f, k) == f = [i \in 0 .. k |-> IF i = 0 THEN start ELSE Process(f[i - 1], txs[i])]
           Missing == {k \in Nat : ~ \E f : Made(f, k)}
           after == CHOOSE f : Made(f, last)
           Kept(r, i) == Result(r) /\ (r.success => Books(r.accounts, Grown(chain, m, txs, i)))
           Unkept == {i \in 0 .. last : ~ Kept(after[i], i)}
<1>1. ProcessAll(txs) = after[last]
  BY DEF ProcessAll
<1>2. last = n /\ \A i \in 1 .. last : txs[i] \in LedgerTxs
  OBVIOUS
<1>3. Kept(start, 0)
  <2>1. {m} \X (1 .. 0) = {}
    OBVIOUS
  <2>2. Grown(chain, m, txs, 0) = chain
    BY <2>1 DEF Grown
  <2> QED  BY <2>2 DEF Result
<1> HIDE DEF start, last
\* The states between the transactions exist, for a list of any length.
<1>4. Missing = {}
  <2> SUFFICES ASSUME Missing # {} PROVE FALSE
    OBVIOUS
  <2> HIDE DEF Made
  <2>1. PICK k \in Missing : \A j \in Missing : k <= j
    BY LeastNatural
  <2>2. k \in Nat /\ ~ \E f : Made(f, k)
    OBVIOUS
  <2>3. k # 0
    <3>1. Made([i \in 0 .. 0 |-> start], 0)
      BY DEF Made
    <3> QED  BY <2>2, <3>1
  <2>4. k - 1 \in Nat /\ k - 1 \notin Missing
    BY <2>1, <2>2, <2>3
  <2>5. PICK g : Made(g, k - 1)
    BY <2>4
  <2> DEFINE f == [i \in 0 .. k |-> IF i = k THEN Process(g[k - 1], txs[k]) ELSE g[i]]
  <2>6. Made(f, k)
    <3>1. \A i \in 0 .. k - 1 : g[i] = IF i = 0 THEN start ELSE Process(g[i - 1], txs[i])
      BY <2>5, <2>2 DEF Made
    <3>2. \A i \in 0 .. k : f[i] = IF i = 0 THEN start ELSE Process(f[i - 1], txs[i])
      <4> TAKE i \in 0 .. k
      <4>1. CASE i = k
        BY <2>2, <2>3, <4>1
      <4>2. CASE i # k
        BY <2>2, <3>1, <4>2
      <4> QED  BY <4>1, <4>2
    <3> HIDE DEF f
    <3>3. f = [i \in 0 .. k |-> f[i]]
      BY DEF f
    <3> QED  BY <3>2, <3>3 DEF Made
  <2> QED  BY <2>2, <2>6
<1>5. Made(after, last)
  <2> HIDE DEF Made
  <2>1. \E f : Made(f, last)
    BY <1>2, <1>4
  <2> QED  BY <2>1
<1>6. \A i \in 0 .. last : after[i] = IF i = 0 THEN start ELSE Process(after[i - 1], txs[i])
  BY <1>5
<1> HIDE DEF Made, after
\* And each keeps the books if the one before it did.
<1>7. Unkept = {}
  <2> SUFFICES ASSUME Unkept # {} PROVE FALSE
    OBVIOUS
  <2> HIDE DEF Kept
  <2>1. Unkept \subseteq Nat
    BY <1>2
  <2>2. PICK i \in Unkept : \A j \in Unkept : i <= j
    <3> HIDE DEF Unkept
    <3> QED  BY <2>1, LeastNatural
  <2>3. i \in 0 .. last /\ ~ Kept(after[i], i)
    OBVIOUS
  <2>4. i # 0
    BY <1>3, <1>6, <2>3
  <2>5. i - 1 \in 0 .. last /\ i - 1 \notin Unkept /\ i \in Nat \ {0} /\ i \in 1 .. last
    BY <1>2, <2>2, <2>3, <2>4
  <2>6. Kept(after[i - 1], i - 1)
    BY <2>5
  <2>7. after[i] = Process(after[i - 1], txs[i]) /\ txs[i] \in LedgerTxs
    BY <1>2, <1>6, <2>3, <2>4, <2>5
  <2>8. Kept(after[i], i)
    <3> DEFINE r == after[i - 1]
               so == Grown(chain, m, txs, i - 1)
               q == <<m, i>>
    <3>1. Result(r) /\ (r.success => Books(r.accounts, so))
      BY <2>6 DEF Kept
    <3>2. \A p \in DOMAIN so : p # q /\ ~ Before(q, p)
      <4> TAKE p \in DOMAIN so
      <4>1. p \in DOMAIN chain \/ p \in {m} \X (1 .. i - 1)
        BY DEF Grown
      <4>2. CASE p \in DOMAIN chain
        BY <4>2 DEF Before
      <4>3. CASE p \in {m} \X (1 .. i - 1)
        <5>1. p[1] = m /\ p[2] \in 1 .. i - 1
          BY <4>3
        <5>2. p[2] # i /\ ~ (i < p[2])
          BY <2>5, <5>1
        <5> QED  BY <5>1, <5>2 DEF Before
      <4> QED  BY <4>1, <4>2, <4>3
    <3>3. ~ Before(q, q)
      BY <2>5 DEF Before
    <3>4. Grown(chain, m, txs, i) = Set(so, q, txs[i])
      BY <2>5, GrownByOne
    <3> HIDE DEF r, so, q
    <3>5. /\ Result(Process(r, txs[i]))
          /\ Process(r, txs[i]).success => Books(Process(r, txs[i]).accounts, Set(so, q, txs[i]))
      BY <2>7, <3>1, <3>2, <3>3, ProcessKeeps
    <3>6. after[i] = Process(r, txs[i])
      BY <2>7 DEF r
    <3> QED  BY <3>4, <3>5, <3>6 DEF Kept
  <2> QED  BY <2>3, <2>8
<1>8. Kept(after[last], last)
  BY <1>2, <1>7
<1> QED  BY <1>1, <1>2, <1>8

\* The transactions of the chain as it stands.
Chain == [p \in Places |-> TxAt(p)]

LedgerInv ==
    /\ ChainInv
    /\ Books(accountStates, Chain)
    /\ NoDebt => LedgerTypeOK

LEMMA EmptyBooks == Books(Alloc, [p \in {} |-> p])
<1> DEFINE none == [p \in {} |-> p]
<1>1. AccountsTyped(Alloc) /\ Solvent(Alloc)
  BY LedgerAssumption DEF AccountsTyped, Solvent, NoDebt
<1>2. ChainTyped(Alloc, none)
  BY FS_EmptySet DEF ChainTyped
<1>3. \A a \in DOMAIN Alloc : Spent(none, a, Alloc[a].nonce)
  BY NobodySent DEF FirstNonce
<1>4. Accounted(Alloc, none)
  <2>1. \A f : DOMAIN f = {} => Sum(f) = 0
    <3> TAKE f
    <3>1. DOMAIN f = {} => IsFiniteSet(DOMAIN f) /\ \A x \in DOMAIN f : f[x] \in Int
      BY FS_EmptySet
    <3> QED  BY <3>1, SumIsInt
  <2> QED  BY <2>1 DEF Accounted
<1> QED  BY <1>1, <1>2, <1>3, <1>4 DEF Books

LEMMA InitLedgerInv == LedgerInit => LedgerInv
<1> SUFFICES ASSUME LedgerInit PROVE LedgerInv
  OBVIOUS
<1>1. ChainInv
  BY InitChainInv
<1>2. latestBlock = Genesis /\ accountStates = Alloc /\ latestBlock.number = 0
  BY DEF LedgerInit, Genesis
<1>3. Chain = [p \in {} |-> p]
  <2>1. 1 .. 0 = {}
    OBVIOUS
  <2>2. Places = {}
    BY <1>2, <2>1 DEF Places
  <2> QED  BY <2>2 DEF Chain
<1>4. Books(accountStates, Chain)
  BY <1>2, <1>3, EmptyBooks
<1>5. NoDebt => LedgerTypeOK
  <2> SUFFICES ASSUME NoDebt PROVE LedgerTypeOK
    OBVIOUS
  <2> DEFINE e == [number |-> 0, gasUsed |-> 0, transactions |-> <<>>]
  <2>1. <<>> \in Seq(LedgerTxs) /\ <<>> \in Seq(Header)
    OBVIOUS
  <2>2. e \in Header
    BY <2>1 DEF Header
  <2>3. Genesis.hash = <<e>> /\ <<e>> \in Seq(Header)
    BY <2>2 DEF Genesis
  <2>4. latestBlock \in [parentHash : Seq(Header), hash : Seq(Header), number : 0 .. MaxHeight,
                        gasUsed : Nat, transactions : Seq(LedgerTxs), signed : BOOLEAN]
    BY <1>2, <2>1, <2>3, LedgerAssumption DEF Genesis
  <2>5. \A h \in DOMAIN blocks : h \in Seq(Header) /\ blocks[h].hash = h
    BY <2>3 DEF LedgerInit
  <2>6. \A n \in DOMAIN blockHashes : blockHashes[n] \in DOMAIN blocks
    BY DEF LedgerInit
  <2>7. \A a \in DOMAIN accountStates : accountStates[a] \in [balance : Nat, nonce : Nat]
    BY <1>2, LedgerAssumption DEF NoDebt
  <2> QED  BY <2>4, <2>5, <2>6, <2>7 DEF LedgerTypeOK
<1> QED  BY <1>1, <1>4, <1>5 DEF LedgerInv

\* A block that is accepted adds its own transactions to those of the chain.
LEMMA ChainGrows ==
    ASSUME ChainInv, NEW b, AddBlock(b), NEW n \in Nat, DOMAIN b.transactions = 1 .. n
    PROVE  /\ Chain' = Grown(Chain, b.number, b.transactions, n)
           /\ b.number \in Int /\ \A p \in DOMAIN Chain : p[1] \in Int /\ p[1] < b.number
<1> DEFINE k == latestBlock.number
           txs == b.transactions
           old(i) == blocks[blockHashes[i]].transactions
           new(i) == blocks'[blockHashes'[i]].transactions
<1>1. k \in Nat /\ b.number = k + 1 /\ latestBlock' = b
  BY BlockAdded
<1>2. blockHashes'[k + 1] = b.hash /\ blocks'[b.hash] = b
  BY BlockAdded
<1>3. \A i \in 0 .. k : blockHashes'[i] = blockHashes[i] /\ blocks'[blockHashes[i]] = blocks[blockHashes[i]]
  BY BlockAdded
<1>4. new(k + 1) = txs
  BY <1>2
<1>5. \A i \in 1 .. k : new(i) = old(i)
  BY <1>1, <1>3
<1>6. Places = UNION {{i} \X DOMAIN old(i) : i \in 1 .. k}
  BY DEF Places
<1>7. Places' = UNION {{i} \X DOMAIN new(i) : i \in 1 .. k + 1}
  BY <1>1 DEF Places
<1>8. Chain = [p \in Places |-> old(p[1])[p[2]]] /\ Chain' = [p \in Places' |-> new(p[1])[p[2]]]
  BY DEF Chain, TxAt
<1> HIDE DEF old, new
<1>9. \A p \in Places : p[1] \in 1 .. k
  BY <1>6
<1>10. Places' = Places \cup ({k + 1} \X (1 .. n))
  <2>1. 1 .. k + 1 = (1 .. k) \cup {k + 1}
    BY <1>1
  <2> QED  BY <1>4, <1>5, <1>6, <1>7, <2>1
<1>11. \A p \in Places' : new(p[1])[p[2]] = IF p \in Places THEN Chain[p] ELSE txs[p[2]]
  <2> TAKE p \in Places'
  <2>1. p \in Places => new(p[1])[p[2]] = Chain[p]
    BY <1>5, <1>8, <1>9
  <2>2. p \notin Places => p[1] = k + 1
    BY <1>10
  <2> QED  BY <1>4, <2>1, <2>2
<1>12. DOMAIN Chain = Places
  BY <1>8
<1>13. Chain' = Grown(Chain, b.number, txs, n)
  BY <1>1, <1>8, <1>10, <1>11, <1>12 DEF Grown
<1>14. \A p \in DOMAIN Chain : p[1] \in Int /\ p[1] < b.number
  BY <1>1, <1>9, <1>12
<1> QED  BY <1>1, <1>13, <1>14

\* What LedgerNext offers.
Offered(b) ==
    /\ b \in [parentHash : DOMAIN blocks, number : 1 .. MaxHeight, gasUsed : {b.gasUsed},
              transactions : TxLists, hash : {b.hash}, signed : BOOLEAN]
    /\ b.gasUsed \in {ProcessAll(b.transactions).gas, 0}

LEMMA AddBlockKeepsLedger ==
    ASSUME LedgerInv, NEW b, Offered(b), AddBlock(b)
    PROVE  LedgerInv'
<1> DEFINE txs == b.transactions
           done == ProcessAll(txs)
<1>1. PICK n \in 0 .. MaxTxs : txs \in [1 .. n -> LedgerTxs]
  BY DEF Offered, TxLists
<1>2. n \in Nat /\ DOMAIN txs = 1 .. n
  BY <1>1, LedgerAssumption
<1>3. ChainInv /\ Books(accountStates, Chain)
  BY DEF LedgerInv
<1>4. /\ Chain' = Grown(Chain, b.number, txs, n)
      /\ b.number \in Int /\ \A p \in DOMAIN Chain : p[1] \in Int /\ p[1] < b.number
  BY <1>2, <1>3, ChainGrows
<1>5. Chain = [p \in DOMAIN Chain |-> Chain[p]]
  BY DEF Chain
<1>6. done.success /\ accountStates' = done.accounts
  BY DEF AddBlock
<1>7. Result(done) /\ (done.success => Books(done.accounts, Grown(Chain, b.number, txs, n)))
  <2> HIDE DEF txs
  <2> QED  BY <1>1, <1>2, <1>3, <1>4, <1>5, ProcessAllKeeps
<1>8. Books(accountStates', Chain')
  BY <1>4, <1>6, <1>7
<1>9. ChainInv'
  BY <1>3, AddBlockKeeps
<1>10. ASSUME NoDebt PROVE LedgerTypeOK'
  <2>1. LedgerTypeOK
    BY <1>10 DEF LedgerInv
  <2>2. b.gasUsed \in Nat
    BY <1>7, <1>10 DEF Offered, Result
  <2>3. txs \in Seq(LedgerTxs)
    BY <1>1, <1>2
  <2>4. b.parentHash \in Seq(Header) /\ b.number \in Nat
    BY <2>1, LedgerAssumption DEF Offered, LedgerTypeOK
  <2>5. [number |-> b.number, gasUsed |-> b.gasUsed, transactions |-> txs] \in Header
    BY <2>2, <2>3, <2>4 DEF Header
  <2>6. b.hash \in Seq(Header)
    <3>1. b.hash = HashOf(b)
      BY <1>3, BlockAdded
    <3> QED  BY <2>4, <2>5, <3>1, AppendProperties DEF HashOf
  <2>7. latestBlock' \in [parentHash : Seq(Header), hash : Seq(Header), number : 0 .. MaxHeight,
                          gasUsed : Nat, transactions : Seq(LedgerTxs), signed : BOOLEAN]
    <3>1. latestBlock' = b
      BY <1>3, BlockAdded
    <3>2. b.number \in 0 .. MaxHeight
      BY LedgerAssumption DEF Offered
    <3> QED  BY <2>2, <2>3, <2>4, <2>6, <3>1, <3>2 DEF Offered
  <2>8. \A h \in (DOMAIN blocks)' : h \in Seq(Header) /\ blocks'[h].hash = h
    <3>1. /\ DOMAIN blocks' = DOMAIN blocks \cup {b.hash} /\ blocks'[b.hash] = b
          /\ \A h \in DOMAIN blocks : blocks'[h] = blocks[h]
      BY <1>3, BlockAdded
    <3> QED  BY <2>1, <2>6, <3>1 DEF LedgerTypeOK
  <2>9. \A i \in (DOMAIN blockHashes)' : blockHashes'[i] \in DOMAIN blocks'
    BY <1>9 DEF ChainInv, ChainLinked
  <2>10. \A a \in (DOMAIN accountStates)' : accountStates'[a] \in [balance : Nat, nonce : Nat]
    BY <1>8, <1>10 DEF Books, AccountsTyped, Solvent
  <2> QED  BY <2>7, <2>8, <2>9, <2>10 DEF LedgerTypeOK
<1> QED  BY <1>8, <1>9, <1>10 DEF LedgerInv

LEMMA NextLedgerInv == LedgerInv /\ [LedgerNext]_ledgerVars => LedgerInv'
<1> SUFFICES ASSUME LedgerInv, [LedgerNext]_ledgerVars PROVE LedgerInv'
  OBVIOUS
<1>1. ASSUME LedgerNext PROVE \E b : Offered(b) /\ AddBlock(b)
  <2>1. PICK parent \in DOMAIN blocks, number \in 1 .. MaxHeight, txs \in TxLists, signed \in BOOLEAN :
            \E gas \in {ProcessAll(txs).gas, 0} :
                \E hash \in {HashOf(Body(parent, number, gas, txs)), parent} :
                    AddBlock([parentHash |-> parent, number |-> number, gasUsed |-> gas,
                              transactions |-> txs, hash |-> hash, signed |-> signed])
    BY <1>1 DEF LedgerNext
  <2>2. PICK gas \in {ProcessAll(txs).gas, 0} :
            \E hash \in {HashOf(Body(parent, number, gas, txs)), parent} :
                AddBlock([parentHash |-> parent, number |-> number, gasUsed |-> gas,
                          transactions |-> txs, hash |-> hash, signed |-> signed])
    BY <2>1
  <2>3. PICK hash : AddBlock([parentHash |-> parent, number |-> number, gasUsed |-> gas,
                              transactions |-> txs, hash |-> hash, signed |-> signed])
    BY <2>2
  <2> DEFINE b == [parentHash |-> parent, number |-> number, gasUsed |-> gas,
                   transactions |-> txs, hash |-> hash, signed |-> signed]
  <2>4. Offered(b)
    BY DEF Offered
  <2> HIDE DEF b
  <2> QED  BY <2>3, <2>4 DEF b
<1>2. CASE LedgerNext
  BY <1>1, <1>2, AddBlockKeepsLedger
<1>3. CASE UNCHANGED ledgerVars
  <2>1. ChainInv'
    BY <1>3, NextChainInv DEF LedgerInv
  <2>2. Chain' = Chain /\ accountStates' = accountStates
    BY <1>3 DEF ledgerVars, Chain, Places, TxAt
  <2>3. NoDebt => LedgerTypeOK'
    BY <1>3 DEF LedgerInv, LedgerTypeOK, ledgerVars
  <2> QED  BY <2>1, <2>2, <2>3 DEF LedgerInv
<1> QED  BY <1>2, <1>3

\* The books are kept in every reachable state of the ledger.
THEOREM LedgerAlwaysInv == LedgerSpec => []LedgerInv
<1> QED  BY InitLedgerInv, NextLedgerInv, PTL DEF LedgerSpec

\* The transfers of an account stand in the chain in the order of their nonces and
\* without a gap, whatever blocks are offered and whatever transactions they list.
THEOREM NoncesAlwaysInOrder == LedgerSpec => []SentInNonceOrder
<1>1. LedgerInv => SentInNonceOrder
  <2> SUFFICES ASSUME LedgerInv PROVE SentInNonceOrder
    OBVIOUS
  <2>1. \A a \in DOMAIN accountStates : Spent(Chain, a, accountStates[a].nonce)
    BY DEF LedgerInv, Books
  <2>2. DOMAIN Chain = Places /\ \A p \in Places : Chain[p] = TxAt(p)
    BY DEF Chain
  <2>3. \A a : SentBy(Chain, a) = Sent(a)
    BY <2>2 DEF SentBy, Sent
  <2>4. \A a : \A p \in Sent(a) : Chain[p] = TxAt(p)
    BY <2>2 DEF Sent
  <2>5. \A a : {Chain[p].nonce : p \in SentBy(Chain, a)} = {TxAt(p).nonce : p \in Sent(a)}
    BY <2>3, <2>4
  <2> QED  BY <2>1, <2>3, <2>4, <2>5 DEF Spent, SentInNonceOrder
<1> QED  BY <1>1, LedgerAlwaysInv, PTL

\* Nothing is lost and nothing appears but by gas and by transfers to oneself,
\* for every allocation, all amounts and every number of blocks.
THEOREM FundsAlwaysAccounted == LedgerSpec => []FundsAccounted
<1>1. LedgerInv => FundsAccounted
  <2> SUFFICES ASSUME LedgerInv PROVE FundsAccounted
    OBVIOUS
  <2>1. DOMAIN Chain = Places /\ \A p \in Places : Chain[p] = TxAt(p)
    BY DEF Chain
  <2>2. /\ [p \in DOMAIN Chain |-> Burnt(Chain[p])] = [p \in Places |-> Burnt(TxAt(p))]
        /\ [p \in DOMAIN Chain |-> Minted(Chain[p])] = [p \in Places |-> Minted(TxAt(p))]
    BY <2>1
  <2> QED  BY <2>2 DEF LedgerInv, Books, Accounted, FundsAccounted
<1> QED  BY <1>1, LedgerAlwaysInv, PTL

\* With no negative amounts no balance ever becomes negative, and the rest of the ledger's
\* state has its type.
THEOREM LedgerTypeCorrect == ASSUME NoDebt PROVE LedgerSpec => []LedgerTypeOK
<1>1. LedgerInv => LedgerTypeOK
  BY DEF LedgerInv
<1> QED  BY <1>1, LedgerAlwaysInv, PTL

-----------------------------------------------------------------------------
\* Ledger and pools are well typed wherever they run, apart or side by side.
THEOREM PartsTypeCorrect == ASSUME NoDebt PROVE Spec /\ LedgerSpec /\ TheBasicPool!Spec => []PartsTypeOK
<1>1. TypeOK /\ LedgerTypeOK /\ TheBasicPool!TypeOK => PartsTypeOK
  BY DEF PartsTypeOK
<1> QED  BY <1>1, TypeCorrect, LedgerTypeCorrect, BasicTypeCorrect, PTL
=============================================================================
