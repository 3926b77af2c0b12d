--------------------------- MODULE Services_proofs ---------------------------
(***************************************************************************)
(* Theorems about the services of module Services, each for every value of    *)
(* its constants.  No two of them share state, so each has an invariant of its *)
(* own (AccessInv, CacheInv, NetworkInv, ...), which its Init establishes and   *)
(* its steps keep; what an instance calls Cardinality or Kept is first shown   *)
(* to be what the modules it comes from call so.                              *)
(***************************************************************************)
EXTENDS Services, Maps, FiniteSetTheorems, SequenceTheorems, WellFoundedInduction, TLAPS

-----------------------------------------------------------------------------
\* A set of natural numbers has a least one.
LEMMA LessThanWellFounded ==
    \E R : IsWellFoundedOn(R, Nat) /\ \A j, k \in Nat : j < k => <<j, k>> \in R
<1> DEFINE R == OpToRel(<, Nat)
<1>1. IsWellFoundedOn(R, Nat)
  BY NatLessThanWellFounded
<1>2. \A j, k \in Nat : j < k => <<j, k>> \in R
  BY DEF OpToRel
<1> HIDE DEF R
<1> QED  BY <1>1, <1>2, Zenon

LEMMA LeastNatural ==
    ASSUME NEW T, T \subseteq Nat, T # {}
    PROVE  \E m \in T : \A k \in T : m <= k
<1>1. PICK R : IsWellFoundedOn(R, Nat) /\ \A j, k \in Nat : j < k => <<j, k>> \in R
  BY LessThanWellFounded
<1>2. IsWellFoundedOn(R, Nat)
  BY <1>1
<1>3. PICK m \in T : \A k \in T : ~ (<<k, m>> \in R)
  BY <1>2, WFMin
<1>4. \A j, k \in Nat : j < k => <<j, k>> \in R
  BY <1>1, Zenon
<1>5. ASSUME NEW k \in T PROVE m <= k
  <2>1. ~(k < m)
    BY <1>3, <1>4
  <2> QED  BY <2>1
<1> QED  BY <1>5

\* Of a set of places, the n-th is one of its own, later ones are higher, and every
\* one is the n-th for some n.
LEMMA BelowGrows ==
    ASSUME NEW N \in Nat, NEW S, S \subseteq 1..N
    PROVE  /\ IsFiniteSet(S) /\ Cardinality(S) \in 0..N
           /\ \A i \in S : Cardinality(Below(S, i)) \in 0..(Cardinality(S) - 1)
           /\ \A i, j \in S : i < j => Cardinality(Below(S, i)) < Cardinality(Below(S, j))
<1>1. IsFiniteSet(1..N) /\ Cardinality(1..N) = N
  BY FS_Interval
<1>2. IsFiniteSet(S) /\ Cardinality(S) \in Nat /\ Cardinality(S) <= N
  BY <1>1, FS_Subset, FS_CardinalityType
<1>3. ASSUME NEW T, T \subseteq S, NEW i \in S, i \notin T
      PROVE  Cardinality(T) \in Nat /\ Cardinality(T) < Cardinality(S)
  <2>1. IsFiniteSet(T) /\ T # S
    BY <1>2, <1>3, FS_Subset
  <2>2. Cardinality(T) \in Nat
    BY <2>1, FS_CardinalityType
  <2>3. Cardinality(T) <= Cardinality(S) /\ Cardinality(T) # Cardinality(S)
    BY <1>2, <1>3, <2>1, FS_Subset
  <2> QED  BY <1>2, <2>2, <2>3
<1>4. ASSUME NEW i \in S PROVE Cardinality(Below(S, i)) \in 0..(Cardinality(S) - 1)
  <2>1. Below(S, i) \subseteq S /\ i \notin Below(S, i)
    BY DEF Below
  <2>2. Cardinality(Below(S, i)) \in Nat /\ Cardinality(Below(S, i)) < Cardinality(S)
    BY <1>3, <2>1
  <2> QED  BY <1>2, <2>2
<1>5. ASSUME NEW i \in S, NEW j \in S, i < j PROVE Cardinality(Below(S, i)) < Cardinality(Below(S, j))
  <2>1. Below(S, i) \subseteq Below(S, j) /\ i \in Below(S, j) /\ i \notin Below(S, i)
    <3>1. \A k \in S : k \in Int
      OBVIOUS
    <3>2. \A k \in S : k < i => k < j
      BY <1>5, <3>1
    <3>3. ~(i < i)
      BY <3>1
    <3> QED  BY <1>5, <3>2, <3>3 DEF Below
  <2>2. IsFiniteSet(Below(S, j))
    <3>1. Below(S, j) \subseteq S
      BY DEF Below
    <3> QED  BY <1>2, <3>1, FS_Subset
  <2>3. Below(S, i) # Below(S, j)
    BY <2>1
  <2> QED  BY <2>1, <2>2, <2>3, FS_Subset, FS_CardinalityType
<1> QED  BY <1>2, <1>4, <1>5

LEMMA PlaceOfRank ==
    ASSUME NEW N \in Nat, NEW S, S \subseteq 1..N, NEW n \in Nat, n < Cardinality(S)
    PROVE  \E i \in S : Cardinality(Below(S, i)) = n
<1> DEFINE Upto(k) == {j \in S : j <= k}
           T == {k \in 0..N : Cardinality(Upto(k)) > n}
<1>1. IsFiniteSet(S)
  BY BelowGrows
<1>2. ASSUME NEW k PROVE IsFiniteSet(Upto(k)) /\ Cardinality(Upto(k)) \in Nat
  <2>1. Upto(k) \subseteq S
    OBVIOUS
  <2> HIDE DEF Upto
  <2> QED  BY <1>1, <2>1, FS_Subset, FS_CardinalityType
<1> HIDE DEF T
<1>3. Upto(N) = S /\ Upto(0) = {}
  <2>1. \A j \in S : j \in 1..N
    OBVIOUS
  <2>2. \A j \in S : j <= N /\ ~(j <= 0)
    BY <2>1
  <2> QED  BY <2>2
<1>4. \A i \in 1..N : Upto(i) = IF i \in S THEN Upto(i - 1) \cup {i} ELSE Upto(i - 1)
  <2> SUFFICES ASSUME NEW i \in 1..N
               PROVE  Upto(i) = IF i \in S THEN Upto(i - 1) \cup {i} ELSE Upto(i - 1)
    OBVIOUS
  <2>1. \A j \in S : j \in Int /\ (j <= i <=> j <= i - 1 \/ j = i)
    OBVIOUS
  <2> QED  BY <2>1
<1>5. \A i \in 1..N : Below(S, i) = Upto(i - 1) /\ i \notin Upto(i - 1)
  <2> SUFFICES ASSUME NEW i \in 1..N
               PROVE  Below(S, i) = Upto(i - 1) /\ i \notin Upto(i - 1)
    OBVIOUS
  <2>1. \A j \in S : j \in Int /\ (j < i <=> j <= i - 1)
    OBVIOUS
  <2>2. Below(S, i) = {j \in S : j <= i - 1}
    BY <2>1 DEF Below
  <2>3. ~(i <= i - 1)
    OBVIOUS
  <2> QED  BY <2>2, <2>3
<1> HIDE DEF Upto
<1>6. Cardinality(Upto(0)) = 0
  BY <1>3, FS_EmptySet
<1>7. N \in T /\ 0 \notin T /\ T \subseteq Nat
  BY <1>3, <1>6 DEF T
<1>8. PICK i \in T : \A k \in T : i <= k
  BY <1>7, LeastNatural
<1>9. i \in 1..N /\ i - 1 \in 0..N /\ i - 1 \notin T /\ Cardinality(Upto(i)) > n
  BY <1>7, <1>8 DEF T
<1>10. Cardinality(Upto(i - 1)) <= n
  BY <1>2, <1>9 DEF T
<1>11. i \in S
  BY <1>2, <1>4, <1>9, <1>10
<1>12. Cardinality(Upto(i)) = Cardinality(Upto(i - 1)) + 1
  <2>1. IsFiniteSet(Upto(i - 1)) /\ i \notin Upto(i - 1) /\ Upto(i) = Upto(i - 1) \cup {i}
    BY <1>2, <1>4, <1>5, <1>9, <1>11
  <2> QED  BY <2>1, FS_AddElement
<1>13. Cardinality(Upto(i - 1)) = n
  BY <1>2, <1>9, <1>10, <1>12
<1> QED  BY <1>5, <1>9, <1>11, <1>13

LEMMA NthIs ==
    ASSUME NEW N \in Nat, NEW S, S \subseteq 1..N
    PROVE  /\ \A n \in 1..Cardinality(S) : Nth(S, n) \in S /\ Cardinality(Below(S, Nth(S, n))) = n - 1
           /\ \A i \in S : \E n \in 1..Cardinality(S) : n = Cardinality(Below(S, i)) + 1 /\ Nth(S, n) = i
           /\ \A m, n \in 1..Cardinality(S) : m < n => Nth(S, m) < Nth(S, n)
<1>1. /\ Cardinality(S) \in 0..N
      /\ \A i \in S : Cardinality(Below(S, i)) \in 0..(Cardinality(S) - 1)
      /\ \A i, j \in S : i < j => Cardinality(Below(S, i)) < Cardinality(Below(S, j))
  BY BelowGrows
<1>2. ASSUME NEW n \in 1..Cardinality(S) PROVE Nth(S, n) \in S /\ Cardinality(Below(S, Nth(S, n))) = n - 1
  <2> DEFINE r == n - 1
  <2>1. r \in Nat /\ r < Cardinality(S)
    BY <1>1
  <2> HIDE DEF r
  <2>2. \E i \in S : Cardinality(Below(S, i)) = r
    BY <2>1, PlaceOfRank
  <2> QED  BY <2>2 DEF Nth, r
<1>3. ASSUME NEW i \in S PROVE \E n \in 1..Cardinality(S) : n = Cardinality(Below(S, i)) + 1 /\ Nth(S, n) = i
  <2> DEFINE n == Cardinality(Below(S, i)) + 1
  <2>1. n \in 1..Cardinality(S) /\ n - 1 = Cardinality(Below(S, i))
    BY <1>1
  <2>2. Nth(S, n) \in S /\ Cardinality(Below(S, Nth(S, n))) = n - 1
    BY <1>2, <2>1
  <2> DEFINE k == Nth(S, n)
  <2>3. k \in S /\ Cardinality(Below(S, k)) = Cardinality(Below(S, i))
    BY <2>1, <2>2
  <2> HIDE DEF k, n
  <2>4. i \in Int /\ k \in Int
    BY <2>3
  <2>5. Cardinality(Below(S, i)) \in Int
    BY <1>1
  <2>6. ~(i < k) /\ ~(k < i)
    BY <1>1, <2>3, <2>5
  <2>7. Nth(S, n) = i
    BY <2>4, <2>6 DEF k
  <2> QED  BY <2>1, <2>7 DEF n
<1>4. ASSUME NEW m \in 1..Cardinality(S), NEW n \in 1..Cardinality(S), m < n PROVE Nth(S, m) < Nth(S, n)
  <2>1. Nth(S, m) \in S /\ Nth(S, n) \in S
        /\ Cardinality(Below(S, Nth(S, m))) = m - 1 /\ Cardinality(Below(S, Nth(S, n))) = n - 1
    BY <1>2
  <2> DEFINE i == Nth(S, m)
             j == Nth(S, n)
  <2>2. i \in S /\ j \in S /\ Cardinality(Below(S, i)) = m - 1 /\ Cardinality(Below(S, j)) = n - 1
    BY <2>1
  <2> HIDE DEF i, j
  <2>3. i \in Int /\ j \in Int /\ m \in Int /\ n \in Int
    BY <2>2
  <2>4. ~(j < i) /\ i # j
    BY <1>1, <1>4, <2>2, <2>3
  <2>5. i < j
    BY <2>3, <2>4
  <2> QED  BY <2>5 DEF i, j
<1> QED  BY <1>2, <1>3, <1>4

\* What is kept of a sequence: elements of it, in their order, and all of those places.
LEMMA KeptIs ==
    ASSUME NEW N \in Nat, NEW s, NEW S, S \subseteq 1..N
    PROVE  /\ Cardinality(S) \in 0..N
           /\ DOMAIN Kept(s, S) = 1..Cardinality(S)
           /\ \A n \in 1..Cardinality(S) : Nth(S, n) \in S /\ Kept(s, S)[n] = s[Nth(S, n)]
           /\ \A i \in S : \E n \in 1..Cardinality(S) : Nth(S, n) = i /\ Kept(s, S)[n] = s[i]
<1>1. Cardinality(S) \in 0..N
  BY BelowGrows
<1>2. \A n \in 1..Cardinality(S) : Nth(S, n) \in S
  BY NthIs
<1>3. \A i \in S : \E n \in 1..Cardinality(S) : Nth(S, n) = i
  BY NthIs
<1> QED  BY <1>1, <1>2, <1>3 DEF Kept

LEMMA KeptIsSeq ==
    ASSUME NEW T, NEW s \in Seq(T), NEW S, S \subseteq DOMAIN s
    PROVE  Kept(s, S) \in Seq(T) /\ Len(Kept(s, S)) = Cardinality(S)
<1>1. Len(s) \in Nat /\ DOMAIN s = 1..Len(s)
  OBVIOUS
<1>2. /\ Cardinality(S) \in Nat
      /\ DOMAIN Kept(s, S) = 1..Cardinality(S)
      /\ \A n \in 1..Cardinality(S) : Kept(s, S)[n] \in T
  <2>1. S \subseteq 1..Len(s)
    BY <1>1
  <2> QED  BY <1>1, <2>1, KeptIs
<1>3. Kept(s, S) = [n \in 1..Cardinality(S) |-> Kept(s, S)[n]]
  BY <1>2 DEF Kept
<1> DEFINE k == Kept(s, S)
<1> HIDE DEF k
<1>4. k = [n \in 1..Cardinality(S) |-> k[n]] /\ \A n \in 1..Cardinality(S) : k[n] \in T
  BY <1>2, <1>3 DEF k
<1>5. k \in Seq(T) /\ Len(k) = Cardinality(S)
  BY <1>2, <1>4, SeqDef, LenProperties
<1> QED  BY <1>5 DEF k

\* What is kept of a longer sequence is what was kept before, and the new element
\* after it if its place is kept.
LEMMA KeptAppend ==
    ASSUME NEW T, NEW s \in Seq(T), NEW e \in T, NEW S, S \subseteq 1..Len(s)
    PROVE  /\ Kept(Append(s, e), S) = Kept(s, S)
           /\ Kept(Append(s, e), S \cup {Len(s) + 1}) = Append(Kept(s, S), e)
<1> DEFINE N == Len(s)
           a == Append(s, e)
           last == N + 1
           more == S \cup {last}
           c == Cardinality(S)
<1>1. N \in Nat /\ DOMAIN s = 1..N /\ S \subseteq 1..N
  BY LenProperties
<1>2. a[last] = e /\ \A i \in 1..N : a[i] = s[i]
  BY AppendProperties
<1> HIDE DEF a, N
<1>3. c \in Nat /\ IsFiniteSet(S)
  <2>1. S \subseteq 1..N /\ N \in Nat
    BY <1>1
  <2>2. IsFiniteSet(S) /\ Cardinality(S) \in 0..N
    BY <2>1, BelowGrows
  <2> QED  BY <2>1, <2>2
<1>4. \A n \in 1..c : Nth(S, n) \in S /\ Cardinality(Below(S, Nth(S, n))) = n - 1
  BY <1>1, NthIs
<1>5. Kept(s, S) \in Seq(T) /\ Len(Kept(s, S)) = c
  BY <1>1, KeptIsSeq
<1>6. Kept(a, S) = Kept(s, S)
  BY <1>1, <1>2, <1>4 DEF Kept
<1>7. last \in Nat /\ more \subseteq 1..last /\ last \notin S /\ last \in more
      /\ \A i \in S : i \in more /\ i < last /\ ~(last < i)
  <2>1. last \in Nat /\ last = N + 1 /\ more = S \cup {last}
    BY <1>1
  <2> HIDE DEF last, more
  <2>2. \A i \in S : i \in 1..N
    BY <1>1
  <2>3. \A i \in S : i \in 1..last /\ i < last /\ ~(last < i) /\ i # last
    BY <1>1, <2>1, <2>2
  <2>4. last \in 1..last
    BY <1>1, <2>1
  <2> QED  BY <2>1, <2>3, <2>4
<1>8. Below(more, last) = S /\ \A i \in S : Below(more, i) = Below(S, i)
  BY <1>7 DEF Below, more
<1>9. Cardinality(more) = c + 1
  BY <1>3, <1>7, FS_AddElement DEF more
<1> HIDE DEF last, more
<1>10. \A i \in more : \E n \in 1..Cardinality(more) : n = Cardinality(Below(more, i)) + 1 /\ Nth(more, n) = i
  BY <1>7, NthIs
<1>11. Nth(more, c + 1) = last
  BY <1>7, <1>8, <1>10
<1>12. ASSUME NEW n \in 1..c PROVE Nth(more, n) = Nth(S, n) /\ Nth(S, n) \in 1..N
  <2> DEFINE i == Nth(S, n)
  <2>1. i \in S /\ Cardinality(Below(S, i)) = n - 1
    BY <1>4
  <2> HIDE DEF i
  <2>2. Nth(more, Cardinality(Below(more, i)) + 1) = i
    BY <1>7, <1>10, <2>1
  <2>3. Cardinality(Below(more, i)) + 1 = n
    <3>1. Cardinality(Below(more, i)) = n - 1
      BY <1>8, <2>1
    <3> QED  BY <1>3, <3>1
  <2> QED  BY <1>1, <2>1, <2>2, <2>3 DEF i
<1> DEFINE k == Kept(s, S)
           m == Kept(a, more)
<1>13. DOMAIN m = 1..(c + 1) /\ m[c + 1] = e /\ \A n \in 1..c : m[n] = k[n]
  <2>1. \A n \in 1..(c + 1) : m[n] = a[Nth(more, n)]
    BY <1>9 DEF Kept
  <2>2. \A n \in 1..c : k[n] = s[Nth(S, n)]
    BY DEF Kept
  <2>3. \A n \in 1..c : n \in 1..(c + 1)
    BY <1>3
  <2>4. c + 1 \in 1..(c + 1)
    BY <1>3
  <2>5. m[c + 1] = e
    <3>1. m[c + 1] = a[Nth(more, c + 1)]
      BY <2>1, <2>4
    <3> QED  BY <1>2, <1>11, <3>1
  <2>6. ASSUME NEW n \in 1..c PROVE m[n] = k[n]
    BY <1>2, <1>12, <2>1, <2>2, <2>3
  <2>7. DOMAIN m = 1..(c + 1)
    BY <1>9 DEF Kept
  <2> QED  BY <2>5, <2>6, <2>7
<1>14. m = [n \in DOMAIN m |-> m[n]]
  BY DEF Kept
<1>15. k \in Seq(T) /\ Len(k) = c
  BY <1>5
<1> HIDE DEF k, m, c, more
<1>16. /\ Append(k, e) \in Seq(T) /\ Len(Append(k, e)) = c + 1
       /\ Append(k, e)[c + 1] = e /\ \A n \in 1..c : Append(k, e)[n] = k[n]
  BY <1>15, AppendProperties
<1>17. Append(k, e) = [n \in 1..(c + 1) |-> Append(k, e)[n]]
  BY <1>16, LenProperties
<1>18. \A n \in 1..(c + 1) : m[n] = Append(k, e)[n]
  <2>1. \A n \in 1..(c + 1) : n = c + 1 \/ n \in 1..c
    BY <1>3 DEF c
  <2> QED  BY <1>13, <1>16, <2>1
<1>19. m = Append(k, e)
  BY <1>13, <1>14, <1>17, <1>18
<1> QED  BY <1>6, <1>19 DEF k, m, a, more, last, N

\* The elements of a finite set in some order, each once.
LEMMA ListedIs ==
    ASSUME NEW T, NEW S, S \subseteq T, IsFiniteSet(S)
    PROVE  /\ Listed(S) \in Seq(T) /\ Len(Listed(S)) = Cardinality(S)
           /\ \A i, j \in 1..Cardinality(S) : Listed(S)[i] = Listed(S)[j] => i = j
<1> DEFINE n == Cardinality(S)
           f == Listed(S)
<1>1. n \in Nat
  BY FS_CardinalityType
<1>2. ExistsBijection(1..n, S)
  BY FS_CardinalityType
<1>3. \E g \in [1..n -> S] : \A i, j \in DOMAIN g : g[i] = g[j] => i = j
  <2>1. PICK g \in Bijection(1..n, S) : TRUE
    BY <1>2 DEF ExistsBijection
  <2>2. g \in [1..n -> S] /\ \A i, j \in 1..n : g[i] = g[j] => i = j
    BY <2>1 DEF Bijection, Injection, IsInjective
  <2>3. DOMAIN g = 1..n
    BY <2>2
  <2> QED  BY <2>2, <2>3
<1>4. f \in [1..n -> S] /\ \A i, j \in DOMAIN f : f[i] = f[j] => i = j
  BY <1>3 DEF Listed, n
<1> HIDE DEF f, n
<1>5. f = [i \in 1..n |-> f[i]] /\ \A i \in 1..n : f[i] \in T
  BY <1>4
<1>6. f \in Seq(T) /\ Len(f) = n
  BY <1>1, <1>4, <1>5
<1>7. \A i, j \in 1..n : f[i] = f[j] => i = j
  BY <1>4
<1> QED  BY <1>6, <1>7 DEF f, n

\* AccessControl.  Sessions are numbered from 1, and so a new one takes no number
\* that one before it has.
LEMMA AccessCardinality == \A S : TheAccess!Cardinality(S) = Cardinality(S)
BY DEF Cardinality, TheAccess!Cardinality

AccessConstants == MaxLoginAttempts \in Nat \ {0} /\ SessionTimeout \in Nat /\ MaxTime \in Nat /\ MaxSessions \in Nat

UserType == [list : DOMAIN roleLists, permissions : SUBSET Permissions,
             loginAttempts : 0..MaxLoginAttempts, isLocked : BOOLEAN]
SessionType == [user : DOMAIN users, expiresAt : Nat, isActive : BOOLEAN]

RolesTyped == TheAccess!IsMap(roles, Roles, SUBSET Permissions) /\ TheAccess!IsMap(roleLists, Accounts, SUBSET DOMAIN roles)
UsersTyped == TheAccess!IsMap(users, Accounts, UserType)
SessionsTyped ==
    /\ \E n \in 0..MaxSessions : DOMAIN sessions = 1..n
    /\ \A s \in DOMAIN sessions : sessions[s] \in SessionType
RequestsTyped == \A request \in accessRequests : request[1] \in DOMAIN users
Locked == \A u \in DOMAIN users : users[u].isLocked <=> users[u].loginAttempts = MaxLoginAttempts

AccessInv ==
    /\ time \in 0..MaxTime
    /\ RolesTyped /\ UsersTyped /\ SessionsTyped /\ RequestsTyped
    /\ TheAccess!PermissionsMatchRoles /\ Locked

Over == \A s \in DOMAIN sessions : ~TheAccess!Valid(s) => ~(sessions'[s].isActive /\ time' <= sessions'[s].expiresAt)
LocksLast == \A u \in DOMAIN users : users[u].isLocked => users'[u].isLocked

LEMMA PermissionsTyped ==
    ASSUME RolesTyped, NEW list, list \subseteq DOMAIN roles
    PROVE  TheAccess!PermissionsOf(list) \subseteq Permissions
BY DEF RolesTyped, TheAccess!IsMap, TheAccess!PermissionsOf

LEMMA AccessInit == ASSUME AccessConstants PROVE TheAccess!Init => AccessInv
<1> SUFFICES ASSUME TheAccess!Init PROVE AccessInv
  OBVIOUS
<1>1. /\ DOMAIN roles = {} /\ DOMAIN roleLists = {} /\ DOMAIN users = {} /\ DOMAIN sessions = {}
      /\ accessRequests = {} /\ time = 0
  BY DEF TheAccess!Init, TheAccess!Empty
<1>2. DOMAIN sessions = 1..0 /\ 0 \in 0..MaxSessions
  BY <1>1 DEF AccessConstants
<1>3. SessionsTyped
  BY <1>1, <1>2 DEF SessionsTyped
<1>4. RolesTyped /\ UsersTyped /\ RequestsTyped /\ TheAccess!PermissionsMatchRoles /\ Locked
  BY <1>1 DEF RolesTyped, UsersTyped, RequestsTyped, TheAccess!PermissionsMatchRoles, Locked, TheAccess!IsMap
<1> QED  BY <1>1, <1>3, <1>4 DEF AccessInv, AccessConstants

\* A step that leaves sessions and time alone ends none and opens none.
LEMMA SessionsStay ==
    ASSUME AccessInv, UNCHANGED <<time, sessions>>, DOMAIN users \subseteq DOMAIN users'
    PROVE  SessionsTyped' /\ Over
<1>1. SessionType \subseteq SessionType'
  BY DEF SessionType
<1> QED  BY <1>1 DEF AccessInv, SessionsTyped, Over, TheAccess!Valid

\* One that leaves the users alone keeps what is said of them.
LEMMA UsersStay ==
    ASSUME AccessInv, UNCHANGED <<roles, roleLists, users>>
    PROVE  RolesTyped' /\ UsersTyped' /\ TheAccess!PermissionsMatchRoles' /\ Locked' /\ LocksLast
BY DEF AccessInv, RolesTyped, UsersTyped, UserType, TheAccess!PermissionsMatchRoles, TheAccess!PermissionsOf, Locked, LocksLast

LEMMA CreateRoleKeeps ==
    ASSUME AccessInv, NEW r \in Roles, NEW permissions \in SUBSET Permissions, TheAccess!CreateRole(r, permissions)
    PROVE  AccessInv' /\ Over /\ LocksLast
<1>1. /\ roles' = TheAccess!Put(roles, r, permissions) /\ r \notin DOMAIN roles
      /\ UNCHANGED <<time, roleLists, users, sessions, accessRequests>>
  BY DEF TheAccess!CreateRole
<1>2. DOMAIN roles' = DOMAIN roles \cup {r} /\ roles'[r] = permissions /\ \A q \in DOMAIN roles : roles'[q] = roles[q]
  BY <1>1 DEF TheAccess!Put
<1>3. RolesTyped'
  BY <1>1, <1>2 DEF AccessInv, RolesTyped, TheAccess!IsMap
<1>4. \A u \in DOMAIN users : TheAccess!PermissionsOf(roleLists[users[u].list])' = TheAccess!PermissionsOf(roleLists[users[u].list])
  <2> TAKE u \in DOMAIN users
  <2>1. roleLists[users[u].list] \subseteq DOMAIN roles
    BY DEF AccessInv, UsersTyped, RolesTyped, UserType, TheAccess!IsMap
  <2>2. roleLists'[users'[u].list] = roleLists[users[u].list]
    BY <1>1
  <2> QED  BY <1>2, <2>1, <2>2 DEF TheAccess!PermissionsOf
<1>5. TheAccess!PermissionsMatchRoles'
  BY <1>1, <1>4 DEF AccessInv, TheAccess!PermissionsMatchRoles
<1>6. UsersTyped' /\ Locked' /\ LocksLast /\ RequestsTyped'
  BY <1>1 DEF AccessInv, UsersTyped, UserType, Locked, LocksLast, RequestsTyped
<1> QED  BY <1>1, <1>3, <1>5, <1>6, SessionsStay DEF AccessInv

LEMMA CreateUserKeeps ==
    ASSUME AccessConstants, AccessInv, NEW u \in Accounts, NEW l \in Accounts, NEW list \in SUBSET Roles, TheAccess!CreateUser(u, l, list)
    PROVE  AccessInv' /\ Over /\ LocksLast
<1> DEFINE fresh == [list |-> l, permissions |-> TheAccess!PermissionsOf(list), loginAttempts |-> 0, isLocked |-> FALSE]
<1>1. /\ roleLists' = TheAccess!Put(roleLists, l, list) /\ users' = TheAccess!Put(users, u, fresh)
      /\ u \notin DOMAIN users
      /\ UNCHANGED <<time, roles, sessions, accessRequests>>
  BY DEF TheAccess!CreateUser
<1>2. list \subseteq DOMAIN roles /\ (l \in DOMAIN roleLists => list = roleLists[l])
  BY DEF TheAccess!CreateUser, AccessInv, RolesTyped, TheAccess!IsMap
<1>3. /\ DOMAIN roleLists' = DOMAIN roleLists \cup {l} /\ roleLists'[l] = list
      /\ \A k \in DOMAIN roleLists : roleLists'[k] = roleLists[k]
  BY <1>1, <1>2 DEF TheAccess!Put
<1>4. /\ fresh.list = l /\ fresh.permissions = TheAccess!PermissionsOf(list) /\ fresh.loginAttempts = 0 /\ fresh.isLocked = FALSE
      /\ fresh \in UserType'
  <2>1. TheAccess!PermissionsOf(list) \subseteq Permissions
    BY <1>2, PermissionsTyped DEF AccessInv
  <2>2. 0 \in 0..MaxLoginAttempts
    BY DEF AccessConstants
  <2> QED  BY <1>3, <2>1, <2>2 DEF UserType
<1> HIDE DEF fresh
<1>5. DOMAIN users' = DOMAIN users \cup {u} /\ users'[u] = fresh /\ \A v \in DOMAIN users : users'[v] = users[v]
  BY <1>1 DEF TheAccess!Put
<1>6. RolesTyped'
  BY <1>1, <1>2, <1>3 DEF AccessInv, RolesTyped, TheAccess!IsMap
<1>7. UserType \subseteq UserType'
  BY <1>3 DEF UserType
<1>8. UsersTyped'
  BY <1>4, <1>5, <1>7 DEF AccessInv, UsersTyped, TheAccess!IsMap
<1>9. TheAccess!PermissionsMatchRoles'
  <2> SUFFICES ASSUME NEW v \in DOMAIN users'
               PROVE  \/ users'[v].permissions = TheAccess!PermissionsOf(roleLists[users[v].list])'
                      \/ \E other \in DOMAIN users' \ {v} : users'[other].list = users'[v].list
    BY DEF TheAccess!PermissionsMatchRoles
  <2>1. CASE v = u
    BY <1>1, <1>3, <1>4, <1>5, <2>1 DEF TheAccess!PermissionsOf
  <2>2. CASE v # u
    <3>1. v \in DOMAIN users /\ users'[v] = users[v] /\ users[v].list \in DOMAIN roleLists
      BY <1>5, <2>2 DEF AccessInv, UsersTyped, UserType, TheAccess!IsMap
    <3>2. roleLists'[users'[v].list] = roleLists[users[v].list]
      BY <1>3, <3>1
    <3>3. TheAccess!PermissionsOf(roleLists[users[v].list])' = TheAccess!PermissionsOf(roleLists[users[v].list])
      BY <1>1, <3>2 DEF TheAccess!PermissionsOf
    <3>4. \/ users[v].permissions = TheAccess!PermissionsOf(roleLists[users[v].list])
          \/ \E other \in DOMAIN users \ {v} : users[other].list = users[v].list
      BY <3>1 DEF AccessInv, TheAccess!PermissionsMatchRoles
    <3> QED  BY <1>5, <3>1, <3>3, <3>4
  <2> QED  BY <2>1, <2>2
<1>10. Locked' /\ LocksLast
  <2>1. 0 # MaxLoginAttempts
    BY DEF AccessConstants
  <2> QED  BY <1>4, <1>5, <2>1 DEF AccessInv, Locked, LocksLast
<1>11. RequestsTyped'
  BY <1>1, <1>5 DEF AccessInv, RequestsTyped
<1> QED  BY <1>1, <1>5, <1>6, <1>8, <1>9, <1>10, <1>11, SessionsStay DEF AccessInv

LEMMA SetRolesKeeps ==
    ASSUME AccessInv, NEW u \in DOMAIN users, NEW list, list \subseteq DOMAIN roles, TheAccess!SetRoles(u, list)
    PROVE  AccessInv' /\ Over /\ LocksLast
<1> DEFINE l == users[u].list
           changed == [users[u] EXCEPT !.permissions = TheAccess!PermissionsOf(list)]
<1>1. /\ roleLists' = [roleLists EXCEPT ![l] = list] /\ users' = [users EXCEPT ![u] = changed]
      /\ UNCHANGED <<time, roles, sessions, accessRequests>>
  BY DEF TheAccess!SetRoles
<1>2. l \in DOMAIN roleLists /\ users[u] \in UserType
  BY DEF AccessInv, UsersTyped, UserType, TheAccess!IsMap
<1>3. /\ DOMAIN roleLists' = DOMAIN roleLists /\ roleLists'[l] = list
      /\ \A k \in DOMAIN roleLists \ {l} : roleLists'[k] = roleLists[k]
  BY <1>1, <1>2
<1>4. /\ changed.list = l /\ changed.permissions = TheAccess!PermissionsOf(list)
      /\ changed.loginAttempts = users[u].loginAttempts /\ changed.isLocked = users[u].isLocked
      /\ changed \in UserType'
  <2>1. TheAccess!PermissionsOf(list) \subseteq Permissions
    BY PermissionsTyped DEF AccessInv
  <2> QED  BY <1>2, <1>3, <2>1 DEF UserType
<1>5. DOMAIN users' = DOMAIN users /\ users'[u] = changed /\ \A v \in DOMAIN users \ {u} : users'[v] = users[v]
  BY <1>1
<1>6. l = users[u].list
  OBVIOUS
<1> HIDE DEF changed, l
<1>7. RolesTyped'
  BY <1>1, <1>3 DEF AccessInv, RolesTyped, TheAccess!IsMap
<1>8. UserType \subseteq UserType'
  BY <1>3 DEF UserType
<1>9. UsersTyped'
  BY <1>4, <1>5, <1>8 DEF AccessInv, UsersTyped, TheAccess!IsMap
<1>10. TheAccess!PermissionsMatchRoles'
  <2> SUFFICES ASSUME NEW v \in DOMAIN users'
               PROVE  \/ users'[v].permissions = TheAccess!PermissionsOf(roleLists[users[v].list])'
                      \/ \E other \in DOMAIN users' \ {v} : users'[other].list = users'[v].list
    BY DEF TheAccess!PermissionsMatchRoles
  <2>1. CASE v = u
    <3>1. users'[v].permissions = TheAccess!PermissionsOf(list) /\ roleLists'[users'[v].list] = list
      BY <1>3, <1>4, <1>5, <2>1
    <3> QED  BY <1>1, <3>1 DEF TheAccess!PermissionsOf
  <2>2. CASE v # u /\ users[v].list = l
    <3>1. users'[v].list = l /\ users'[u].list = l
      BY <1>4, <1>5, <2>2
    <3> QED  BY <1>5, <2>2, <3>1
  <2>3. CASE v # u /\ users[v].list # l
    <3>1. v \in DOMAIN users /\ users'[v] = users[v] /\ users[v].list \in DOMAIN roleLists
      BY <1>5, <2>3 DEF AccessInv, UsersTyped, UserType, TheAccess!IsMap
    <3>2. roleLists'[users'[v].list] = roleLists[users[v].list]
      BY <1>3, <2>3, <3>1
    <3>3. TheAccess!PermissionsOf(roleLists[users[v].list])' = TheAccess!PermissionsOf(roleLists[users[v].list])
      BY <1>1, <3>2 DEF TheAccess!PermissionsOf
    <3>4. users[v].permissions = TheAccess!PermissionsOf(roleLists[users[v].list])
          \/ \E other \in DOMAIN users \ {v} : users[other].list = users[v].list
      BY <3>1 DEF AccessInv, TheAccess!PermissionsMatchRoles
    <3>5. CASE users[v].permissions = TheAccess!PermissionsOf(roleLists[users[v].list])
      BY <3>1, <3>3, <3>5
    <3>6. CASE \E other \in DOMAIN users \ {v} : users[other].list = users[v].list
      <4>1. PICK other \in DOMAIN users \ {v} : users[other].list = users[v].list
        BY <3>6
      <4>2. users'[other].list = users'[v].list
        BY <1>5, <1>6, <2>3, <3>1, <4>1
      <4> QED  BY <1>5, <4>1, <4>2
    <3> QED  BY <3>4, <3>5, <3>6
  <2> QED  BY <2>1, <2>2, <2>3
<1>11. Locked' /\ LocksLast
  BY <1>4, <1>5 DEF AccessInv, Locked, LocksLast
<1>12. RequestsTyped'
  BY <1>1, <1>5 DEF AccessInv, RequestsTyped
<1> QED  BY <1>1, <1>5, <1>7, <1>9, <1>10, <1>11, <1>12, SessionsStay DEF AccessInv

\* An attempt to authenticate changes no more of a user than his count and lock.
LEMMA AttemptKeeps ==
    ASSUME AccessInv, NEW u \in DOMAIN users, ~users[u].isLocked, NEW n \in 0..MaxLoginAttempts, NEW lock \in BOOLEAN,
           lock <=> n = MaxLoginAttempts,
           users' = [users EXCEPT ![u] = [users[u] EXCEPT !.loginAttempts = n, !.isLocked = lock]],
           UNCHANGED <<roles, roleLists>>
    PROVE  /\ RolesTyped' /\ UsersTyped' /\ TheAccess!PermissionsMatchRoles' /\ Locked' /\ LocksLast
           /\ DOMAIN users' = DOMAIN users
<1> DEFINE changed == [users[u] EXCEPT !.loginAttempts = n, !.isLocked = lock]
<1>1. users[u] \in UserType
  BY DEF AccessInv, UsersTyped, TheAccess!IsMap
<1>2. /\ changed.list = users[u].list /\ changed.permissions = users[u].permissions
      /\ changed.loginAttempts = n /\ changed.isLocked = lock /\ changed \in UserType
  BY <1>1 DEF UserType
<1>3. DOMAIN users' = DOMAIN users /\ users'[u] = changed /\ \A v \in DOMAIN users \ {u} : users'[v] = users[v]
  OBVIOUS
<1> HIDE DEF changed
<1>4. UserType' = UserType
  BY DEF UserType
<1>5. RolesTyped'
  BY DEF AccessInv, RolesTyped
<1>6. UsersTyped'
  BY <1>2, <1>3, <1>4 DEF AccessInv, UsersTyped, TheAccess!IsMap
<1>7. \A v \in DOMAIN users : users'[v].list = users[v].list /\ users'[v].permissions = users[v].permissions
  BY <1>2, <1>3
<1>8. TheAccess!PermissionsMatchRoles'
  BY <1>3, <1>7 DEF AccessInv, TheAccess!PermissionsMatchRoles, TheAccess!PermissionsOf
<1>9. Locked' /\ LocksLast
  BY <1>2, <1>3 DEF AccessInv, Locked, LocksLast
<1> QED  BY <1>3, <1>5, <1>6, <1>8, <1>9

LEMMA FailToAuthenticateKeeps ==
    ASSUME AccessConstants, AccessInv, NEW u, TheAccess!FailToAuthenticate(u)
    PROVE  AccessInv' /\ Over /\ LocksLast
<1> DEFINE n == users[u].loginAttempts + 1
           lock == n >= MaxLoginAttempts
<1>1. /\ u \in DOMAIN users /\ ~users[u].isLocked
      /\ users' = [users EXCEPT ![u] = [users[u] EXCEPT !.loginAttempts = n, !.isLocked = lock]]
      /\ UNCHANGED <<time, roles, roleLists, sessions, accessRequests>>
  BY DEF TheAccess!FailToAuthenticate
<1>2. users[u].loginAttempts \in 0..MaxLoginAttempts /\ users[u].loginAttempts # MaxLoginAttempts
  BY <1>1 DEF AccessInv, UsersTyped, UserType, TheAccess!IsMap, Locked
<1>3. n \in 0..MaxLoginAttempts /\ (lock <=> n = MaxLoginAttempts) /\ lock \in BOOLEAN
  BY <1>2 DEF AccessConstants
<1> HIDE DEF n, lock
<1>4. /\ RolesTyped' /\ UsersTyped' /\ TheAccess!PermissionsMatchRoles' /\ Locked' /\ LocksLast
      /\ DOMAIN users' = DOMAIN users
  BY <1>1, <1>3, AttemptKeeps
<1>5. RequestsTyped'
  BY <1>1, <1>4 DEF AccessInv, RequestsTyped
<1> QED  BY <1>1, <1>4, <1>5, SessionsStay DEF AccessInv

LEMMA AuthenticateKeeps ==
    ASSUME AccessConstants, AccessInv, NEW u, TheAccess!Authenticate(u)
    PROVE  AccessInv' /\ Over /\ LocksLast
<1>1. PICK n \in 0..MaxSessions : DOMAIN sessions = 1..n
  BY DEF AccessInv, SessionsTyped
<1> DEFINE fresh == [user |-> u, expiresAt |-> time + SessionTimeout, isActive |-> TRUE]
<1>2. Cardinality(DOMAIN sessions) = n
  BY <1>1, FS_Interval
<1>3. /\ u \in DOMAIN users /\ ~users[u].isLocked /\ n < MaxSessions
      /\ users' = [users EXCEPT ![u].loginAttempts = 0]
      /\ sessions' = TheAccess!Put(sessions, n + 1, fresh)
      /\ UNCHANGED <<time, roles, roleLists, accessRequests>>
  BY <1>2, AccessCardinality DEF TheAccess!Authenticate
<1>4. users[u] \in UserType
  BY <1>3 DEF AccessInv, UsersTyped, TheAccess!IsMap
<1>5. users' = [users EXCEPT ![u] = [users[u] EXCEPT !.loginAttempts = 0, !.isLocked = FALSE]]
  <2>1. [users[u] EXCEPT !.loginAttempts = 0, !.isLocked = FALSE] = [users[u] EXCEPT !.loginAttempts = 0]
    BY <1>3, <1>4 DEF UserType
  <2> QED  BY <1>3, <2>1
<1>6. 0 \in 0..MaxLoginAttempts /\ 0 # MaxLoginAttempts
  BY DEF AccessConstants
<1>7. /\ RolesTyped' /\ UsersTyped' /\ TheAccess!PermissionsMatchRoles' /\ Locked' /\ LocksLast
      /\ DOMAIN users' = DOMAIN users
  BY <1>3, <1>5, <1>6, AttemptKeeps
<1>8. fresh \in SessionType
  BY <1>3 DEF SessionType, AccessInv, AccessConstants
<1> HIDE DEF fresh
<1>9. /\ DOMAIN sessions' = 1..(n + 1) /\ n + 1 \in 0..MaxSessions
      /\ sessions'[n + 1] = fresh /\ \A s \in DOMAIN sessions : sessions'[s] = sessions[s]
  BY <1>1, <1>3 DEF TheAccess!Put, AccessConstants
<1>10. SessionsTyped'
  <2>1. SessionType' = SessionType
    BY <1>7 DEF SessionType
  <2>2. \A s \in DOMAIN sessions' : sessions'[s] \in SessionType
    <3> TAKE s \in DOMAIN sessions'
    <3>1. s \in DOMAIN sessions \/ s = n + 1
      BY <1>1, <1>9
    <3> QED  BY <1>8, <1>9, <3>1 DEF AccessInv, SessionsTyped
  <2> QED  BY <1>9, <2>1, <2>2 DEF SessionsTyped
<1>11. Over
  BY <1>3, <1>9 DEF Over, TheAccess!Valid
<1>12. RequestsTyped'
  BY <1>3, <1>7 DEF AccessInv, RequestsTyped
<1> QED  BY <1>3, <1>7, <1>10, <1>11, <1>12 DEF AccessInv

\* A step that only makes sessions inactive, and all that are over among those it
\* leaves active were so before.
LEMMA ClosingKeeps ==
    ASSUME AccessInv, UNCHANGED <<time, roles, roleLists, users, accessRequests>>, DOMAIN sessions' = DOMAIN sessions,
           \A s \in DOMAIN sessions :
              \E open \in BOOLEAN : sessions'[s] = [sessions[s] EXCEPT !.isActive = open] /\ (open => TheAccess!Valid(s) \/ sessions[s].isActive = open)
    PROVE  AccessInv' /\ Over /\ LocksLast
<1>1. SessionType' = SessionType
  BY DEF SessionType
<1>2. \A s \in DOMAIN sessions :
        /\ sessions'[s] \in SessionType /\ sessions'[s].expiresAt = sessions[s].expiresAt
        /\ sessions'[s].isActive => sessions[s].isActive
  <2> TAKE s \in DOMAIN sessions
  <2>1. PICK open \in BOOLEAN : sessions'[s] = [sessions[s] EXCEPT !.isActive = open] /\ (open => TheAccess!Valid(s) \/ sessions[s].isActive = open)
    OBVIOUS
  <2>2. sessions[s] \in SessionType
    BY DEF AccessInv, SessionsTyped
  <2> QED  BY <2>1, <2>2 DEF SessionType, TheAccess!Valid
<1>3. SessionsTyped'
  BY <1>1, <1>2 DEF AccessInv, SessionsTyped
<1>4. Over
  BY <1>2 DEF Over, TheAccess!Valid
<1>5. RequestsTyped'
  BY DEF AccessInv, RequestsTyped
<1>6. RolesTyped' /\ UsersTyped' /\ TheAccess!PermissionsMatchRoles' /\ Locked' /\ LocksLast
  BY UsersStay
<1> QED  BY <1>3, <1>4, <1>5, <1>6 DEF AccessInv

LEMMA AccessStep ==
    ASSUME AccessConstants, AccessInv, [TheAccess!Next]_TheAccess!accessVars
    PROVE  AccessInv' /\ Over /\ LocksLast
<1>1. CASE UNCHANGED TheAccess!accessVars
  <2>1. UNCHANGED <<time, roles, roleLists, users, sessions, accessRequests>>
    BY <1>1 DEF TheAccess!accessVars
  <2>2. RequestsTyped'
    BY <2>1 DEF AccessInv, RequestsTyped
  <2> QED  BY <2>1, <2>2, UsersStay, SessionsStay DEF AccessInv
<1>2. ASSUME NEW r \in Roles, NEW permissions \in SUBSET Permissions, TheAccess!CreateRole(r, permissions)
      PROVE  AccessInv' /\ Over /\ LocksLast
  BY <1>2, CreateRoleKeeps
<1>3. ASSUME NEW u \in Accounts, NEW l \in Accounts, NEW list \in SUBSET Roles, TheAccess!CreateUser(u, l, list)
      PROVE  AccessInv' /\ Over /\ LocksLast
  BY <1>3, CreateUserKeeps
<1>4. ASSUME NEW u \in Accounts, NEW r \in Roles, TheAccess!AssignRole(u, r) \/ TheAccess!RemoveRole(u, r)
      PROVE  AccessInv' /\ Over /\ LocksLast
  <2> DEFINE old == roleLists[users[u].list]
  <2>1. u \in DOMAIN users
    BY <1>4 DEF TheAccess!AssignRole, TheAccess!RemoveRole
  <2>2. old \subseteq DOMAIN roles
    BY <2>1 DEF AccessInv, UsersTyped, RolesTyped, UserType, TheAccess!IsMap
  <2>3. PICK list : list \subseteq DOMAIN roles /\ TheAccess!SetRoles(u, list)
    <3>1. CASE TheAccess!AssignRole(u, r)
      BY <2>2, <3>1 DEF TheAccess!AssignRole
    <3>2. CASE TheAccess!RemoveRole(u, r)
      BY <2>2, <3>2 DEF TheAccess!RemoveRole
    <3> QED  BY <1>4, <3>1, <3>2
  <2> QED  BY <2>1, <2>3, SetRolesKeeps
<1>5. ASSUME NEW u \in Accounts, TheAccess!FailToAuthenticate(u) PROVE AccessInv' /\ Over /\ LocksLast
  BY <1>5, FailToAuthenticateKeeps
<1>6. ASSUME NEW u \in Accounts, TheAccess!Authenticate(u) PROVE AccessInv' /\ Over /\ LocksLast
  BY <1>6, AuthenticateKeeps
<1>7. ASSUME NEW u \in Accounts, NEW p \in Permissions, TheAccess!CheckAccess(u, p) PROVE AccessInv' /\ Over /\ LocksLast
  <2>1. /\ u \in DOMAIN users /\ accessRequests' = accessRequests \cup {<<u, p>>}
        /\ UNCHANGED <<time, roles, roleLists, users, sessions>>
    BY <1>7 DEF TheAccess!CheckAccess, TheAccess!Granted
  <2>2. RequestsTyped'
    BY <2>1 DEF AccessInv, RequestsTyped
  <2> QED  BY <2>1, <2>2, UsersStay, SessionsStay DEF AccessInv
<1>8. ASSUME NEW s \in 1..MaxSessions, TheAccess!ValidateSession(s) PROVE AccessInv' /\ Over /\ LocksLast
  <2>1. /\ UNCHANGED <<time, roles, roleLists, users, accessRequests>>
        /\ sessions' = [sessions EXCEPT ![s] = [sessions[s] EXCEPT !.isActive = TheAccess!Valid(s)]] /\ s \in DOMAIN sessions
    BY <1>8 DEF TheAccess!ValidateSession
  <2>2. \A k \in DOMAIN sessions : sessions[k] \in SessionType /\ TheAccess!Valid(k) \in BOOLEAN
    BY DEF AccessInv, SessionsTyped, TheAccess!Valid, SessionType
  <2>3. \A k \in DOMAIN sessions \ {s} : sessions'[k] = [sessions[k] EXCEPT !.isActive = sessions[k].isActive] /\ sessions[k].isActive \in BOOLEAN
    BY <2>1, <2>2 DEF SessionType
  <2>4. \A k \in DOMAIN sessions :
          \E open \in BOOLEAN : sessions'[k] = [sessions[k] EXCEPT !.isActive = open] /\ (open => TheAccess!Valid(k) \/ sessions[k].isActive = open)
    BY <2>1, <2>2, <2>3
  <2> QED  BY <2>1, <2>4, ClosingKeeps
<1>9. ASSUME NEW s \in 1..MaxSessions, TheAccess!Logout(s) PROVE AccessInv' /\ Over /\ LocksLast
  <2>1. /\ UNCHANGED <<time, roles, roleLists, users, accessRequests>>
        /\ sessions' = [sessions EXCEPT ![s] = [sessions[s] EXCEPT !.isActive = FALSE]] /\ s \in DOMAIN sessions
    BY <1>9 DEF TheAccess!Logout
  <2>2. \A k \in DOMAIN sessions : sessions[k] \in SessionType
    BY DEF AccessInv, SessionsTyped
  <2>3. \A k \in DOMAIN sessions \ {s} : sessions'[k] = [sessions[k] EXCEPT !.isActive = sessions[k].isActive] /\ sessions[k].isActive \in BOOLEAN
    BY <2>1, <2>2 DEF SessionType
  <2>4. \A k \in DOMAIN sessions :
          \E open \in BOOLEAN : sessions'[k] = [sessions[k] EXCEPT !.isActive = open] /\ (open => TheAccess!Valid(k) \/ sessions[k].isActive = open)
    BY <2>1, <2>3
  <2> QED  BY <2>1, <2>4, ClosingKeeps
<1>10. CASE TheAccess!CleanupExpiredSessions
  <2>1. /\ UNCHANGED <<time, roles, roleLists, users, accessRequests>>
        /\ sessions' = [s \in DOMAIN sessions |-> [sessions[s] EXCEPT !.isActive = TheAccess!Valid(s)]]
    BY <1>10 DEF TheAccess!CleanupExpiredSessions
  <2>2. \A k \in DOMAIN sessions : sessions[k] \in SessionType /\ TheAccess!Valid(k) \in BOOLEAN
    BY DEF AccessInv, SessionsTyped, TheAccess!Valid, SessionType
  <2>3. \A k \in DOMAIN sessions :
          \E open \in BOOLEAN : sessions'[k] = [sessions[k] EXCEPT !.isActive = open] /\ (open => TheAccess!Valid(k) \/ sessions[k].isActive = open)
    BY <2>1, <2>2
  <2> QED  BY <2>1, <2>3, ClosingKeeps
<1>11. CASE TheAccess!TimePasses
  <2>1. time < MaxTime /\ time' = time + 1 /\ UNCHANGED <<roles, roleLists, users, sessions, accessRequests>>
    BY <1>11 DEF TheAccess!TimePasses
  <2>2. time' \in 0..MaxTime
    BY <2>1 DEF AccessInv, AccessConstants
  <2>3. RequestsTyped'
    BY <2>1 DEF AccessInv, RequestsTyped
  <2>4. SessionsTyped'
    BY <2>1 DEF AccessInv, SessionsTyped, SessionType
  <2>5. Over
    <3> SUFFICES ASSUME NEW s \in DOMAIN sessions, sessions[s].isActive, time' <= sessions[s].expiresAt
                 PROVE  TheAccess!Valid(s)
      BY <2>1 DEF Over
    <3>1. sessions[s].expiresAt \in Nat
      BY DEF AccessInv, SessionsTyped, SessionType
    <3>2. time \in Int
      BY DEF AccessInv
    <3> QED  BY <2>1, <3>1, <3>2 DEF TheAccess!Valid
  <2> QED  BY <2>1, <2>2, <2>3, <2>4, <2>5, UsersStay DEF AccessInv
<1> QED
  BY <1>1, <1>2, <1>3, <1>4, <1>5, <1>6, <1>7, <1>8, <1>9, <1>10, <1>11 DEF TheAccess!Next

LEMMA AccessInvSays == ASSUME AccessConstants PROVE AccessInv => TheAccess!TypeOK /\ TheAccess!PermissionsMatchRoles /\ TheAccess!LockedByAttempts
<1> SUFFICES ASSUME AccessInv PROVE TheAccess!TypeOK /\ TheAccess!PermissionsMatchRoles /\ TheAccess!LockedByAttempts
  OBVIOUS
<1>1. TheAccess!IsMap(sessions, 1..MaxSessions, SessionType)
  <2>1. PICK n \in 0..MaxSessions : DOMAIN sessions = 1..n
    BY DEF AccessInv, SessionsTyped
  <2>2. DOMAIN sessions \subseteq 1..MaxSessions
    BY <2>1 DEF AccessConstants
  <2> QED  BY <2>2 DEF AccessInv, SessionsTyped, TheAccess!IsMap
<1>2. TheAccess!TypeOK
  BY <1>1 DEF AccessInv, TheAccess!TypeOK, RolesTyped, UsersTyped, UserType, SessionType, RequestsTyped
<1>3. TheAccess!LockedByAttempts
  BY DEF AccessInv, Locked, TheAccess!LockedByAttempts, TheAccess!Granted
<1> QED  BY <1>2, <1>3 DEF AccessInv

\* PermissionManager: what is true of the table and of the users who hold it.
PermissionsConstants ==
    /\ DefaultPermissions \in [PMRoles -> SUBSET PMPermissions]
    /\ MaxMs \in Nat

PMUser == [role : PMRoles, own : SUBSET PMPermissions, shares : SUBSET PMRoles, isActive : BOOLEAN]

PermissionsInv ==
    /\ ThePermissions!TypeOK
    /\ \A r \in PMRoles : rolePermissions[r] \subseteq DefaultPermissions[r] \cup accessLog
    /\ \A u \in DOMAIN pmUsers : pmUsers[u].shares \subseteq {pmUsers[u].role}

LEMMA HeldIsGranted ==
    ASSUME PermissionsInv, NEW u \in DOMAIN pmUsers
    PROVE  /\ ThePermissions!PermissionsHeld(u) \subseteq PMPermissions
           /\ ThePermissions!PermissionsHeld(u) \subseteq DefaultPermissions[pmUsers[u].role] \cup pmUsers[u].own \cup accessLog
<1>1. /\ pmUsers[u] \in PMUser /\ pmUsers[u].shares \subseteq {pmUsers[u].role}
      /\ rolePermissions \in [PMRoles -> SUBSET PMPermissions]
  BY DEF PermissionsInv, ThePermissions!TypeOK, ThePermissions!IsMap, PMUser
<1>2. CASE pmUsers[u].shares = {}
  BY <1>1, <1>2 DEF PMUser, ThePermissions!PermissionsHeld
<1>3. CASE pmUsers[u].shares # {}
  <2>1. \A r \in pmUsers[u].shares : r = pmUsers[u].role /\ r \in PMRoles
    BY <1>1 DEF PMUser
  <2>2. ThePermissions!PermissionsHeld(u) = rolePermissions[pmUsers[u].role]
    BY <1>3, <2>1 DEF ThePermissions!PermissionsHeld
  <2> QED  BY <1>1, <1>3, <2>1, <2>2 DEF PermissionsInv
<1> QED  BY <1>2, <1>3

\* What somebody holds changes in place: to what he held and was granted, or less.
LEMMA SetPermissionsKeeps ==
    ASSUME PermissionsInv, NEW u \in DOMAIN pmUsers, NEW permissions \in SUBSET PMPermissions,
           ThePermissions!SetPermissions(u, permissions), ms' = ms, accessLog \subseteq accessLog', accessLog' \subseteq PMPermissions,
           permissions \subseteq ThePermissions!PermissionsHeld(u) \cup accessLog'
    PROVE  PermissionsInv'
<1>1. /\ pmUsers[u] \in PMUser /\ pmUsers[u].shares \subseteq {pmUsers[u].role}
      /\ rolePermissions \in [PMRoles -> SUBSET PMPermissions]
  BY DEF PermissionsInv, ThePermissions!TypeOK, ThePermissions!IsMap, PMUser
<1>2. CASE pmUsers[u].shares = {}
  <2> DEFINE changed == [pmUsers[u] EXCEPT !.own = permissions]
  <2>1. pmUsers' = [pmUsers EXCEPT ![u] = changed] /\ rolePermissions' = rolePermissions
    BY <1>2 DEF ThePermissions!SetPermissions
  <2>2. changed \in PMUser /\ changed.shares = pmUsers[u].shares /\ changed.role = pmUsers[u].role
    BY <1>1 DEF PMUser
  <2> HIDE DEF changed
  <2>3. DOMAIN pmUsers' = DOMAIN pmUsers /\ pmUsers'[u] = changed /\ \A v \in DOMAIN pmUsers \ {u} : pmUsers'[v] = pmUsers[v]
    BY <2>1
  <2>4. \A v \in DOMAIN pmUsers' : pmUsers'[v] \in PMUser /\ pmUsers'[v].shares \subseteq {pmUsers'[v].role}
    BY <1>1, <2>2, <2>3 DEF PermissionsInv, ThePermissions!TypeOK, ThePermissions!IsMap, PMUser
  <2> QED  BY <2>1, <2>3, <2>4 DEF PermissionsInv, ThePermissions!TypeOK, ThePermissions!IsMap, PMUser
<1>3. CASE pmUsers[u].shares # {}
  <2>1. /\ rolePermissions' = [r \in PMRoles |-> IF r \in pmUsers[u].shares THEN permissions ELSE rolePermissions[r]]
        /\ pmUsers' = pmUsers
    BY <1>3 DEF ThePermissions!SetPermissions
  <2>2. \A r \in pmUsers[u].shares : ThePermissions!PermissionsHeld(u) \subseteq rolePermissions[r]
    BY <1>1, <1>3 DEF ThePermissions!PermissionsHeld
  <2>3. \A r \in PMRoles : rolePermissions'[r] \subseteq DefaultPermissions[r] \cup accessLog'
    BY <2>1, <2>2 DEF PermissionsInv
  <2>4. rolePermissions' \in [PMRoles -> SUBSET PMPermissions]
    BY <1>1, <2>1
  <2> QED  BY <2>1, <2>3, <2>4 DEF PermissionsInv, ThePermissions!TypeOK, ThePermissions!IsMap
<1> QED  BY <1>2, <1>3

\* A user is made or changed without touching the array others hold.
LEMMA UserSetKeeps ==
    ASSUME PermissionsInv, NEW u \in ThePermissions!UserIds, NEW user \in PMUser, user.shares \subseteq {user.role},
           DOMAIN pmUsers' = DOMAIN pmUsers \cup {u}, pmUsers'[u] = user,
           \A v \in DOMAIN pmUsers \ {u} : pmUsers'[v] = pmUsers[v],
           UNCHANGED <<ms, rolePermissions, accessLog>>
    PROVE  PermissionsInv'
<1>1. \A v \in DOMAIN pmUsers' : pmUsers'[v] \in PMUser /\ pmUsers'[v].shares \subseteq {pmUsers'[v].role}
  BY DEF PermissionsInv, ThePermissions!TypeOK, ThePermissions!IsMap, PMUser
<1> QED  BY <1>1 DEF PermissionsInv, ThePermissions!TypeOK, ThePermissions!IsMap, PMUser, ThePermissions!UserIds

LEMMA PermissionsInit == ASSUME PermissionsConstants PROVE ThePermissions!Init => PermissionsInv
<1> SUFFICES ASSUME ThePermissions!Init PROVE PermissionsInv
  OBVIOUS
<1>1. ms = 0 /\ rolePermissions = DefaultPermissions /\ DOMAIN pmUsers = {} /\ accessLog = {}
  BY DEF ThePermissions!Init, ThePermissions!Empty
<1> QED  BY <1>1 DEF PermissionsInv, ThePermissions!TypeOK, ThePermissions!IsMap, PermissionsConstants

LEMMA PermissionsStep == ASSUME PermissionsConstants, PermissionsInv, [ThePermissions!Next]_ThePermissions!pmVars PROVE PermissionsInv'
<1>1. CASE UNCHANGED ThePermissions!pmVars
  BY <1>1 DEF ThePermissions!pmVars, PermissionsInv, ThePermissions!TypeOK
<1>2. ASSUME NEW address \in Addresses, NEW role \in PMRoles, NEW own \in SUBSET PMPermissions, NEW shares \in {{}, {role}},
             ThePermissions!CreateUser(address, role, own, shares)
      PROVE  PermissionsInv'
  <2> DEFINE fresh == [role |-> role, own |-> own, shares |-> shares, isActive |-> TRUE]
             u == <<address, ms>>
  <2>1. pmUsers' = ThePermissions!Put(pmUsers, u, fresh) /\ UNCHANGED <<ms, rolePermissions, accessLog>>
    BY <1>2 DEF ThePermissions!CreateUser
  <2>2. fresh \in PMUser /\ fresh.shares \subseteq {fresh.role}
    BY DEF PMUser
  <2>3. u \in ThePermissions!UserIds
    BY DEF ThePermissions!UserIds, PermissionsInv, ThePermissions!TypeOK
  <2> HIDE DEF fresh, u
  <2>4. DOMAIN pmUsers' = DOMAIN pmUsers \cup {u} /\ pmUsers'[u] = fresh /\ \A v \in DOMAIN pmUsers \ {u} : pmUsers'[v] = pmUsers[v]
    BY <2>1 DEF ThePermissions!Put
  <2> QED  BY <2>1, <2>2, <2>3, <2>4, UserSetKeeps
<1>3. ASSUME NEW u \in ThePermissions!UserIds, NEW user \in PMUser, u \in DOMAIN pmUsers, user.shares \subseteq {user.role},
             pmUsers' = [pmUsers EXCEPT ![u] = user], UNCHANGED <<ms, rolePermissions, accessLog>>
      PROVE  PermissionsInv'
  BY <1>3, UserSetKeeps
<1>4. \A u \in DOMAIN pmUsers : pmUsers[u] \in PMUser /\ pmUsers[u].shares \subseteq {pmUsers[u].role}
  BY DEF PermissionsInv, ThePermissions!TypeOK, ThePermissions!IsMap, PMUser
<1>5. ASSUME NEW u \in ThePermissions!UserIds, NEW role \in PMRoles, ThePermissions!UpdateUserRole(u, role) PROVE PermissionsInv'
  <2> DEFINE user == [pmUsers[u] EXCEPT !.role = role, !.shares = {role}, !.own = {}]
  <2>1. u \in DOMAIN pmUsers /\ pmUsers' = [pmUsers EXCEPT ![u] = user] /\ UNCHANGED <<ms, rolePermissions, accessLog>>
    BY <1>5 DEF ThePermissions!UpdateUserRole
  <2>2. user \in PMUser /\ user.shares \subseteq {user.role}
    BY <1>4, <2>1 DEF PMUser
  <2> HIDE DEF user
  <2> QED  BY <1>3, <2>1, <2>2
<1>6. ASSUME NEW u \in ThePermissions!UserIds, NEW active \in BOOLEAN, ThePermissions!SwitchUser(u, active) PROVE PermissionsInv'
  <2> DEFINE user == [pmUsers[u] EXCEPT !.isActive = active]
  <2>1. u \in DOMAIN pmUsers /\ pmUsers' = [pmUsers EXCEPT ![u] = user] /\ UNCHANGED <<ms, rolePermissions, accessLog>>
    BY <1>6 DEF ThePermissions!SwitchUser
  <2>2. user \in PMUser /\ user.shares \subseteq {user.role}
    BY <1>4, <2>1 DEF PMUser
  <2> HIDE DEF user
  <2> QED  BY <1>3, <2>1, <2>2
<1>7. ASSUME NEW u \in ThePermissions!UserIds, NEW p \in PMPermissions, ThePermissions!GrantPermission(u, p) PROVE PermissionsInv'
  <2> DEFINE more == ThePermissions!PermissionsHeld(u) \cup {p}
  <2>1. u \in DOMAIN pmUsers /\ ThePermissions!SetPermissions(u, more) /\ accessLog' = accessLog \cup {p} /\ ms' = ms
    BY <1>7 DEF ThePermissions!GrantPermission
  <2>2. more \in SUBSET PMPermissions /\ more \subseteq ThePermissions!PermissionsHeld(u) \cup accessLog'
    BY <2>1, HeldIsGranted
  <2>3. accessLog \subseteq accessLog' /\ accessLog' \subseteq PMPermissions
    BY <2>1 DEF PermissionsInv, ThePermissions!TypeOK
  <2> HIDE DEF more
  <2> QED  BY <2>1, <2>2, <2>3, SetPermissionsKeeps
<1>8. ASSUME NEW u \in ThePermissions!UserIds, NEW p \in PMPermissions, ThePermissions!RevokePermission(u, p) PROVE PermissionsInv'
  <2> DEFINE less == ThePermissions!PermissionsHeld(u) \ {p}
  <2>1. u \in DOMAIN pmUsers /\ ThePermissions!SetPermissions(u, less) /\ accessLog' = accessLog /\ ms' = ms
    BY <1>8 DEF ThePermissions!RevokePermission
  <2>2. less \in SUBSET PMPermissions /\ less \subseteq ThePermissions!PermissionsHeld(u) \cup accessLog'
    BY <2>1, HeldIsGranted
  <2>3. accessLog \subseteq accessLog' /\ accessLog' \subseteq PMPermissions
    BY <2>1 DEF PermissionsInv, ThePermissions!TypeOK
  <2> HIDE DEF less
  <2> QED  BY <2>1, <2>2, <2>3, SetPermissionsKeeps
<1>9. CASE ThePermissions!MillisecondPasses
  <2>1. ms' \in 0..MaxMs /\ UNCHANGED <<rolePermissions, pmUsers, accessLog>>
    BY <1>9 DEF ThePermissions!MillisecondPasses, PermissionsInv, ThePermissions!TypeOK, PermissionsConstants
  <2> QED  BY <2>1 DEF PermissionsInv, ThePermissions!TypeOK
<1>10. ASSUME NEW address \in Addresses, NEW role \in PMRoles,
              \/ ThePermissions!CreateUser(address, role, {}, {role})
              \/ \E own \in SUBSET PMPermissions : ThePermissions!CreateUser(address, role, own, {})
       PROVE  PermissionsInv'
  BY <1>2, <1>10
<1> QED  BY <1>1, <1>5, <1>6, <1>7, <1>8, <1>9, <1>10 DEF ThePermissions!Next

LEMMA PermissionsInvSays == PermissionsInv => ThePermissions!TypeOK /\ ThePermissions!AuthorityIsGranted
<1> SUFFICES ASSUME PermissionsInv PROVE ThePermissions!AuthorityIsGranted
  BY DEF PermissionsInv
<1>1. ASSUME NEW address \in Addresses, NEW p \in PMPermissions, ThePermissions!HasPermissionByAddress(address, p)
      PROVE  \E u \in DOMAIN pmUsers :
                u[1] = address /\ p \in DefaultPermissions[pmUsers[u].role] \cup pmUsers[u].own \cup accessLog
  <2>1. PICK u \in DOMAIN pmUsers : u[1] = address /\ p \in ThePermissions!PermissionsHeld(u)
    BY <1>1 DEF ThePermissions!HasPermissionByAddress, ThePermissions!HasPermission
  <2> QED  BY <2>1, HeldIsGranted
<1>2. \A r \in PMRoles : rolePermissions[r] \ DefaultPermissions[r] \subseteq accessLog
  BY DEF PermissionsInv
<1> QED  BY <1>1, <1>2 DEF ThePermissions!AuthorityIsGranted

\* RBACManager: the cache and the identities in step.
RBACConstants == MaxMinute \in Nat /\ RateWindow \in Nat

IdentityType == [roles : SUBSET TheRBAC!NodeRoles, permissions : SUBSET TheRBAC!NodePermissions,
                 isActive : BOOLEAN, lastActive : 0..minute]

ServedType == [id : Identities, role : TheRBAC!NodeRoles, at : 0..minute]

RBACInv ==
    /\ TheRBAC!TypeOK
    /\ served \in Seq(ServedType)
    /\ DOMAIN permissionCache = DOMAIN identities
    /\ \A id \in DOMAIN identities :
          /\ permissionCache[id] = TheRBAC!CalculatePermissions(identities[id].roles)
          /\ permissionCache[id] = identities[id].permissions

LEMMA CalculatedTyped == \A held \in SUBSET TheRBAC!NodeRoles : TheRBAC!CalculatePermissions(held) \subseteq TheRBAC!NodePermissions
BY DEF TheRBAC!CalculatePermissions, TheRBAC!RolePermissions, TheRBAC!NodePermissions

\* An identity is registered anew or changed, and the cache with it.
LEMMA IdentitySetKeeps ==
    ASSUME RBACInv, NEW id \in Identities, NEW identity \in IdentityType, NEW cached,
           cached = TheRBAC!CalculatePermissions(identity.roles), cached = identity.permissions,
           DOMAIN identities' = DOMAIN identities \cup {id}, identities'[id] = identity,
           \A k \in DOMAIN identities \ {id} : identities'[k] = identities[k],
           DOMAIN permissionCache' = DOMAIN permissionCache \cup {id}, permissionCache'[id] = cached,
           \A k \in DOMAIN permissionCache \ {id} : permissionCache'[k] = permissionCache[k],
           UNCHANGED <<minute, requestCounts, served>>
    PROVE  RBACInv'
<1>1. cached \subseteq TheRBAC!NodePermissions /\ identity \in IdentityType'
  BY DEF IdentityType
<1>2. IdentityType' = IdentityType
  BY DEF IdentityType
<1>3. \A k \in DOMAIN identities' :
        /\ identities'[k] \in IdentityType /\ permissionCache'[k] \subseteq TheRBAC!NodePermissions
        /\ permissionCache'[k] = TheRBAC!CalculatePermissions(identities'[k].roles)
        /\ permissionCache'[k] = identities'[k].permissions
  <2> TAKE k \in DOMAIN identities'
  <2>1. CASE k = id
    BY <1>1, <2>1
  <2>2. CASE k # id
    BY <2>2 DEF RBACInv, TheRBAC!TypeOK, TheRBAC!IsMap, IdentityType
  <2> QED  BY <2>1, <2>2
<1>4. TheRBAC!IsMap(identities, Identities, IdentityType)'
  BY <1>2, <1>3 DEF RBACInv, TheRBAC!TypeOK, TheRBAC!IsMap
<1>5. TheRBAC!IsMap(permissionCache, Identities, SUBSET TheRBAC!NodePermissions)'
  BY <1>3 DEF RBACInv, TheRBAC!TypeOK, TheRBAC!IsMap
<1>6. DOMAIN permissionCache' = DOMAIN identities'
  BY DEF RBACInv
<1>7. TheRBAC!TypeOK'
  BY <1>4, <1>5 DEF RBACInv, TheRBAC!TypeOK, IdentityType, TheRBAC!IsMap
<1>8. (served \in Seq(ServedType))'
  BY DEF RBACInv, ServedType
<1> QED  BY <1>3, <1>6, <1>7, <1>8 DEF RBACInv

LEMMA RBACInit == ASSUME RBACConstants PROVE TheRBAC!Init => RBACInv
<1> SUFFICES ASSUME TheRBAC!Init PROVE RBACInv
  OBVIOUS
<1>1. /\ minute = 0 /\ DOMAIN identities = {} /\ DOMAIN permissionCache = {}
      /\ DOMAIN requestCounts = {} /\ served = <<>>
  BY DEF TheRBAC!Init, TheRBAC!Empty
<1>2. served \in Seq(ServedType)
  BY <1>1
<1> QED  BY <1>1, <1>2 DEF RBACInv, TheRBAC!TypeOK, TheRBAC!IsMap, RBACConstants

LEMMA RequestKeeps ==
    ASSUME RBACConstants, RBACInv, NEW id \in Identities, NEW get, NEW stamp, NEW p, NEW context,
           TheRBAC!Request(id, get, stamp, p, context)
    PROVE  RBACInv'
<1> DEFINE role == TheRBAC!RateRole(id)
           key == <<id, role>>
           entry == [id |-> id, role |-> role, at |-> minute]
<1>1. /\ UNCHANGED <<minute, identities, permissionCache>>
      /\ requestCounts' = TheRBAC!Counted(key)
      /\ served' = Append(served, entry) \/ served' = served
  BY DEF TheRBAC!Request
<1>2. role \in TheRBAC!NodeRoles
  BY DEF TheRBAC!RateRole, TheRBAC!NodeRoles
<1>3. minute \in 0..MaxMinute
  BY DEF RBACInv, TheRBAC!TypeOK
<1>4. entry \in [id : Identities, role : TheRBAC!NodeRoles, at : 0..minute] /\ key \in Identities \X TheRBAC!NodeRoles
  BY <1>2, <1>3 DEF RBACConstants
<1> DEFINE Counter == [count : Nat, resetTime : 0..(MaxMinute + RateWindow)]
<1>5. TheRBAC!IsMap(requestCounts, Identities \X TheRBAC!NodeRoles, Counter)
  BY DEF RBACInv, TheRBAC!TypeOK
<1>6. minute + RateWindow \in 0..(MaxMinute + RateWindow)
  BY <1>3 DEF RBACConstants
<1> HIDE DEF key, entry, role
<1>7. TheRBAC!IsMap(requestCounts', Identities \X TheRBAC!NodeRoles, Counter)
  <2>1. CASE TheRBAC!Current(key)
    <3>1. key \in DOMAIN requestCounts /\ requestCounts[key] \in Counter
      BY <1>5, <2>1 DEF TheRBAC!Current, TheRBAC!IsMap
    <3>2. requestCounts' = [requestCounts EXCEPT ![key] = [requestCounts[key] EXCEPT !.count = requestCounts[key].count + 1]]
      BY <1>1, <2>1 DEF TheRBAC!Counted
    <3>3. [requestCounts[key] EXCEPT !.count = requestCounts[key].count + 1] \in Counter
      BY <3>1
    <3> QED  BY <1>5, <3>1, <3>2, <3>3 DEF TheRBAC!IsMap
  <2>2. CASE ~TheRBAC!Current(key)
    <3>1. requestCounts' = TheRBAC!Put(requestCounts, key, [count |-> 1, resetTime |-> minute + RateWindow])
      BY <1>1, <2>2 DEF TheRBAC!Counted
    <3>2. [count |-> 1, resetTime |-> minute + RateWindow] \in Counter
      BY <1>6
    <3> HIDE DEF Counter
    <3> QED  BY <1>4, <1>5, <3>1, <3>2 DEF TheRBAC!IsMap, TheRBAC!Put
  <2> QED  BY <2>1, <2>2
<1>8. served' \in Seq(ServedType) /\ ServedType' = ServedType
  <2>1. ServedType' = ServedType
    BY <1>1 DEF ServedType
  <2>2. served \in Seq(ServedType) /\ entry \in ServedType
    BY <1>4 DEF RBACInv, ServedType
  <2> HIDE DEF ServedType
  <2> QED  BY <1>1, <2>1, <2>2
<1>9. \A i \in DOMAIN served' : served'[i] \in ServedType
  BY <1>8
<1>10. TheRBAC!IsMap(identities, Identities, IdentityType)' /\ TheRBAC!IsMap(permissionCache, Identities, SUBSET TheRBAC!NodePermissions)'
  BY <1>1 DEF RBACInv, TheRBAC!TypeOK, TheRBAC!IsMap, IdentityType
<1> HIDE DEF Counter
<1>11. minute' = minute /\ minute' \in 0..MaxMinute
  BY <1>1, <1>3
<1>12. TheRBAC!TypeOK'
  BY <1>7, <1>8, <1>9, <1>10, <1>11 DEF TheRBAC!TypeOK, IdentityType, ServedType, Counter
<1> QED  BY <1>1, <1>8, <1>12 DEF RBACInv

LEMMA RBACStep == ASSUME RBACConstants, RBACInv, [TheRBAC!Next]_TheRBAC!rbacVars PROVE RBACInv'
<1>0. /\ \A id \in DOMAIN identities : id \in Identities /\ identities[id] \in IdentityType
      /\ DOMAIN permissionCache = DOMAIN identities
      /\ minute \in 0..minute
  BY DEF RBACInv, TheRBAC!TypeOK, TheRBAC!IsMap, IdentityType
<1>1. CASE UNCHANGED TheRBAC!rbacVars
  <2>1. TheRBAC!TypeOK'
    BY <1>1 DEF TheRBAC!rbacVars, RBACInv, TheRBAC!TypeOK
  <2> QED  BY <1>1, <2>1 DEF TheRBAC!rbacVars, RBACInv, ServedType
<1>2. ASSUME NEW id \in Identities, NEW held \in SUBSET TheRBAC!NodeRoles, TheRBAC!RegisterIdentity(id, held) PROVE RBACInv'
  <2> DEFINE cached == TheRBAC!CalculatePermissions(held)
             identity == [roles |-> held, permissions |-> cached, isActive |-> TRUE, lastActive |-> minute]
  <2>1. /\ identities' = TheRBAC!Put(identities, id, identity) /\ permissionCache' = TheRBAC!Put(permissionCache, id, cached)
        /\ UNCHANGED <<minute, requestCounts, served>>
    BY <1>2 DEF TheRBAC!RegisterIdentity
  <2>2. /\ identity \in IdentityType /\ cached = TheRBAC!CalculatePermissions(identity.roles)
        /\ cached = identity.permissions
    BY <1>0, CalculatedTyped DEF IdentityType
  <2> HIDE DEF identity, cached
  <2>3. /\ DOMAIN identities' = DOMAIN identities \cup {id} /\ identities'[id] = identity
        /\ \A k \in DOMAIN identities \ {id} : identities'[k] = identities[k]
    BY <2>1 DEF TheRBAC!Put
  <2>4. /\ DOMAIN permissionCache' = DOMAIN permissionCache \cup {id} /\ permissionCache'[id] = cached
        /\ \A k \in DOMAIN permissionCache \ {id} : permissionCache'[k] = permissionCache[k]
    BY <2>1 DEF TheRBAC!Put
  <2> QED  BY <2>1, <2>2, <2>3, <2>4, IdentitySetKeeps
<1>3. ASSUME NEW id \in Identities, NEW held \in SUBSET TheRBAC!NodeRoles, TheRBAC!UpdateIdentityRoles(id, held) PROVE RBACInv'
  <2> DEFINE cached == TheRBAC!CalculatePermissions(held)
             identity == [identities[id] EXCEPT !.roles = held, !.permissions = cached, !.lastActive = minute]
  <2>1. /\ id \in DOMAIN identities
        /\ identities' = [identities EXCEPT ![id] = identity] /\ permissionCache' = TheRBAC!Put(permissionCache, id, cached)
        /\ UNCHANGED <<minute, requestCounts, served>>
    BY <1>3 DEF TheRBAC!UpdateIdentityRoles
  <2>2. /\ identity \in IdentityType /\ cached = TheRBAC!CalculatePermissions(identity.roles)
        /\ cached = identity.permissions
    BY <1>0, <2>1, CalculatedTyped DEF IdentityType
  <2> HIDE DEF identity, cached
  <2>3. /\ DOMAIN identities' = DOMAIN identities \cup {id} /\ identities'[id] = identity
        /\ \A k \in DOMAIN identities \ {id} : identities'[k] = identities[k]
    BY <2>1
  <2>4. /\ DOMAIN permissionCache' = DOMAIN permissionCache \cup {id} /\ permissionCache'[id] = cached
        /\ \A k \in DOMAIN permissionCache \ {id} : permissionCache'[k] = permissionCache[k]
    BY <2>1 DEF TheRBAC!Put
  <2> QED  BY <2>1, <2>2, <2>3, <2>4, IdentitySetKeeps
<1>4. ASSUME NEW id \in Identities, TheRBAC!DeactivateIdentity(id) PROVE RBACInv'
  <2> DEFINE identity == [identities[id] EXCEPT !.isActive = FALSE, !.lastActive = minute]
             cached == permissionCache[id]
  <2>1. /\ id \in DOMAIN identities /\ identities' = [identities EXCEPT ![id] = identity]
        /\ UNCHANGED <<minute, permissionCache, requestCounts, served>>
    BY <1>4 DEF TheRBAC!DeactivateIdentity
  <2>2. identity \in IdentityType /\ identity.roles = identities[id].roles /\ identity.permissions = identities[id].permissions
    BY <1>0, <2>1 DEF IdentityType
  <2>3. cached = TheRBAC!CalculatePermissions(identity.roles) /\ cached = identity.permissions
    BY <2>1, <2>2 DEF RBACInv
  <2> HIDE DEF identity
  <2>4. /\ DOMAIN identities' = DOMAIN identities \cup {id} /\ identities'[id] = identity
        /\ \A k \in DOMAIN identities \ {id} : identities'[k] = identities[k]
    BY <2>1
  <2>5. /\ DOMAIN permissionCache' = DOMAIN permissionCache \cup {id} /\ permissionCache'[id] = cached
        /\ \A k \in DOMAIN permissionCache \ {id} : permissionCache'[k] = permissionCache[k]
    BY <1>0, <2>1
  <2> HIDE DEF cached
  <2> QED  BY <2>1, <2>2, <2>3, <2>4, <2>5, IdentitySetKeeps
<1>5. ASSUME NEW id \in Identities, NEW p, NEW context, NEW get, TheRBAC!Request(id, get, 0, p, context) PROVE RBACInv'
  BY <1>5, RequestKeeps
<1>6. CASE TheRBAC!MinutePasses
  <2>1. /\ minute < MaxMinute /\ minute' = minute + 1
        /\ UNCHANGED <<identities, permissionCache, requestCounts, served>>
    BY <1>6 DEF TheRBAC!MinutePasses
  <2>2. minute \in Nat /\ minute' \in 0..MaxMinute /\ \A n \in 0..minute : n \in 0..minute'
    BY <2>1 DEF RBACInv, TheRBAC!TypeOK, RBACConstants
  <2>3. IdentityType \subseteq IdentityType' /\ ServedType \subseteq ServedType'
    BY <2>2 DEF IdentityType, ServedType
  <2>4. served \in Seq(ServedType')
    BY <2>3 DEF RBACInv
  <2>5. TheRBAC!IsMap(identities, Identities, IdentityType)'
    BY <2>1, <2>3 DEF RBACInv, TheRBAC!TypeOK, TheRBAC!IsMap, IdentityType
  <2>6. \A i \in DOMAIN served' : served'[i] \in ServedType'
    BY <2>1, <2>4
  <2>7. TheRBAC!TypeOK'
    BY <2>1, <2>2, <2>5, <2>6 DEF RBACInv, TheRBAC!TypeOK, IdentityType, ServedType, TheRBAC!IsMap
  <2> QED  BY <2>1, <2>4, <2>7 DEF RBACInv
<1> QED  BY <1>1, <1>2, <1>3, <1>4, <1>5, <1>6 DEF TheRBAC!Next

LEMMA RBACInvSays == RBACInv => TheRBAC!TypeOK /\ TheRBAC!CacheFollowsRoles
<1> SUFFICES ASSUME RBACInv PROVE TheRBAC!CacheFollowsRoles
  BY DEF RBACInv
<1>1. \A id \in DOMAIN identities : \A p \in TheRBAC!NodePermissions :
         TheRBAC!HasPermission(id, p, "emergencyMode") => "authority" \in identities[id].roles
  BY DEF TheRBAC!HasPermission, TheRBAC!ContextCheck
<1> QED  BY <1>1 DEF RBACInv, TheRBAC!CacheFollowsRoles

\* The windows of RBACManager.  A counter counts what its window let through, and
\* what the stretch before its window saw is no more than one window's worth.
RateConstants == \A role \in TheRBAC!NodeRoles : RoleLimits[role] \in Nat \ {0}

LEMMA RBACCardinality == \A S : TheRBAC!Cardinality(S) = Cardinality(S)
BY DEF Cardinality, TheRBAC!Cardinality

Through(log, id, role, first, last) ==
    {i \in DOMAIN log : log[i].id = id /\ log[i].role = role /\ log[i].at \in first..last}

CounterFits(counter, log, id, role, at) ==
    LET start == counter.resetTime - RateWindow IN
    /\ counter.resetTime \in Int /\ counter.count \in Nat
    /\ counter.count <= RoleLimits[role] /\ start <= at
    /\ \A i \in DOMAIN log : log[i].id = id /\ log[i].role = role => log[i].at <= counter.resetTime
    /\ Cardinality(Through(log, id, role, start, at)) <= counter.count
    /\ Cardinality(Through(log, id, role, start - RateWindow - 1, start - 1)) <= RoleLimits[role]

RateInv ==
    /\ \A id \in Identities : \A role \in TheRBAC!NodeRoles :
          IF <<id, role>> \in DOMAIN requestCounts
          THEN CounterFits(requestCounts[<<id, role>>], served, id, role, minute)
          ELSE \A i \in DOMAIN served : ~(served[i].id = id /\ served[i].role = role)
    /\ TheRBAC!RateIsLimited

LEMMA CountingPart ==
    ASSUME NEW n \in Nat, NEW S \in SUBSET (1..n), NEW T \in SUBSET S
    PROVE  /\ IsFiniteSet(S) /\ IsFiniteSet(T) /\ Cardinality(S) \in Nat /\ Cardinality(T) \in Nat
           /\ Cardinality(T) <= Cardinality(S)
<1>1. IsFiniteSet(1..n)
  BY FS_Interval
<1>2. IsFiniteSet(S)
  BY <1>1, FS_Subset
<1> QED  BY <1>2, FS_Subset, FS_CardinalityType

LEMMA CountingBoth ==
    ASSUME NEW n \in Nat, NEW S \in SUBSET (1..n), NEW T \in SUBSET (1..n), NEW U \in SUBSET (S \cup T)
    PROVE  Cardinality(U) \in Nat /\ Cardinality(U) <= Cardinality(S) + Cardinality(T)
<1>1. /\ IsFiniteSet(S) /\ IsFiniteSet(T) /\ Cardinality(S) \in Nat /\ Cardinality(T) \in Nat
  BY CountingPart
<1>2. /\ IsFiniteSet(S \cup T)
      /\ Cardinality(S \cup T) = Cardinality(S) + Cardinality(T) - Cardinality(S \cap T)
  BY <1>1, FS_Union
<1>3. Cardinality(S \cap T) \in Nat
  <2>1. S \cap T \in SUBSET S
    OBVIOUS
  <2> QED  BY <2>1, CountingPart
<1>4. IsFiniteSet(U) /\ Cardinality(U) <= Cardinality(S \cup T)
  BY <1>2, FS_Subset
<1>5. Cardinality(U) \in Nat /\ Cardinality(S \cup T) \in Nat
  BY <1>2, <1>4, FS_CardinalityType
<1> QED  BY <1>1, <1>2, <1>3, <1>4, <1>5

LEMMA ServedTyped ==
    ASSUME RBACConstants, RBACInv
    PROVE  /\ served \in Seq(ServedType) /\ Len(served) \in Nat /\ DOMAIN served = 1..Len(served)
           /\ minute \in Nat /\ \A i \in DOMAIN served : served[i].at \in Int /\ served[i].at <= minute
           /\ RateWindow \in Nat
<1>1. minute \in 0..MaxMinute /\ served \in Seq(ServedType)
  BY DEF RBACInv, TheRBAC!TypeOK
<1>2. \A i \in DOMAIN served : served[i] \in ServedType
  BY <1>1
<1>3. minute \in Nat
  BY <1>1 DEF RBACConstants
<1>4. \A i \in DOMAIN served : served[i].at \in 0..minute
  BY <1>2 DEF ServedType
<1> HIDE DEF ServedType
<1> QED  BY <1>1, <1>3, <1>4 DEF RBACConstants

LEMMA RateInit == ASSUME RBACConstants, RateConstants PROVE TheRBAC!Init => RateInv
<1> SUFFICES ASSUME TheRBAC!Init PROVE RateInv
  OBVIOUS
<1>1. DOMAIN requestCounts = {} /\ DOMAIN served = {}
  BY DEF TheRBAC!Init, TheRBAC!Empty
<1>2. \A id, role, from : {i \in DOMAIN served : /\ served[i].id = id /\ served[i].role = role
                                                 /\ served[i].at \in from..(from + RateWindow + 1)} = {}
  BY <1>1
<1>3. Cardinality({}) = 0
  BY FS_EmptySet
<1>4. ASSUME NEW role \in TheRBAC!NodeRoles PROVE 0 <= 2 * RoleLimits[role]
  <2>1. RoleLimits[role] \in Nat
    BY DEF RateConstants
  <2> QED  BY <2>1
<1>5. TheRBAC!RateIsLimited
  BY <1>2, <1>3, <1>4, RBACCardinality DEF TheRBAC!RateIsLimited
<1> QED  BY <1>1, <1>5 DEF RateInv

LEMMA Appended ==
    ASSUME NEW S, NEW s \in Seq(S), NEW e \in S
    PROVE  /\ DOMAIN Append(s, e) = 1..(Len(s) + 1) /\ Append(s, e)[Len(s) + 1] = e
           /\ \A i \in 1..Len(s) : Append(s, e)[i] = s[i]
<1>1. Append(s, e) \in Seq(S) /\ Len(Append(s, e)) = Len(s) + 1
  BY AppendProperties
<1>2. Append(s, e)[Len(s) + 1] = e /\ \A i \in 1..Len(s) : Append(s, e)[i] = s[i]
  BY AppendProperties
<1> QED  BY <1>1, <1>2

\* A request is let through, or counted and refused: the counter fits the log.
LEMMA CounterCounts ==
    ASSUME RBACConstants, RateConstants, RBACInv, RateInv, NEW id \in Identities, NEW role \in TheRBAC!NodeRoles,
           TheRBAC!Current(<<id, role>>) => requestCounts[<<id, role>>].count < RoleLimits[role],
           NEW log, log \in Seq(ServedType), log = served \/ log = Append(served, [id |-> id, role |-> role, at |-> minute]),
           NEW counter,
           counter = IF TheRBAC!Current(<<id, role>>)
                     THEN [requestCounts[<<id, role>>] EXCEPT !.count = @ + 1]
                     ELSE [count |-> 1, resetTime |-> minute + RateWindow],
           TheRBAC!Current(<<id, role>>) => counter.count = requestCounts[<<id, role>>].count + 1
                                    /\ counter.resetTime = requestCounts[<<id, role>>].resetTime
    PROVE  CounterFits(counter, log, id, role, minute)
<1> DEFINE key == <<id, role>>
           n == Len(served) + 1
           last == IF log = served THEN {} ELSE {n}
<1>1. /\ served \in Seq(ServedType) /\ Len(served) \in Nat /\ DOMAIN served = 1..Len(served)
      /\ minute \in Nat /\ RateWindow \in Nat
      /\ \A i \in DOMAIN served : served[i].at \in Int /\ served[i].at <= minute
  BY ServedTyped
<1>2. RoleLimits[role] \in Nat /\ RoleLimits[role] >= 1
  BY DEF RateConstants
<1>3. /\ DOMAIN log = DOMAIN served \cup last /\ n \in Nat /\ n \notin DOMAIN served /\ DOMAIN log \subseteq 1..n
      /\ \A i \in DOMAIN served : log[i] = served[i]
      /\ \A i \in last : log[i].id = id /\ log[i].role = role /\ log[i].at = minute
  <2> HIDE DEF ServedType
  <2>1. CASE log = served
    BY <1>1, <2>1
  <2>2. CASE log # served
    <3> DEFINE entry == [id |-> id, role |-> role, at |-> minute]
    <3>1. log = Append(served, entry) /\ last = {n} /\ entry.id = id /\ entry.role = role /\ entry.at = minute
      BY <2>2
    <3>0. entry \in ServedType
      BY <1>1 DEF ServedType
    <3> HIDE DEF entry, last
    <3>2. DOMAIN log = 1..n /\ log[n] = entry /\ \A i \in DOMAIN served : log[i] = served[i]
      <4>1. served \in Seq(ServedType) /\ log = Append(served, entry)
        BY <1>1, <3>1
      <4>2. /\ DOMAIN Append(served, entry) = 1..(Len(served) + 1) /\ Append(served, entry)[Len(served) + 1] = entry
            /\ \A i \in 1..Len(served) : Append(served, entry)[i] = served[i]
        BY <3>0, <4>1, Appended
      <4> QED  BY <1>1, <4>1, <4>2
    <3>3. 1..n = DOMAIN served \cup {n} /\ n \notin DOMAIN served /\ n \in Nat
      BY <1>1
    <3> QED  BY <3>1, <3>2, <3>3
  <2> QED  BY <2>1, <2>2
<1>4. Cardinality(last) \in Nat /\ Cardinality(last) <= 1 /\ last \in SUBSET (1..n)
  <2>1. Cardinality({}) = 0 /\ Cardinality({n}) = 1
    BY FS_EmptySet, FS_Singleton
  <2> QED  BY <1>1, <2>1
<1> HIDE DEF last, n
<1>5. CASE TheRBAC!Current(key)
  <2> DEFINE old == requestCounts[key]
             start == old.resetTime - RateWindow
  <2>1. key \in DOMAIN requestCounts /\ minute <= old.resetTime
    BY <1>5 DEF TheRBAC!Current
  <2>2. CounterFits(old, served, id, role, minute)
    BY <2>1 DEF RateInv
  <2>3. /\ old.resetTime \in Int /\ old.count \in Nat /\ old.count <= RoleLimits[role] /\ start <= minute
        /\ Cardinality(Through(served, id, role, start, minute)) <= old.count
        /\ Cardinality(Through(served, id, role, start - RateWindow - 1, start - 1)) <= RoleLimits[role]
        /\ \A i \in DOMAIN served : served[i].id = id /\ served[i].role = role => served[i].at <= old.resetTime
    BY <2>2 DEF CounterFits
  <2>4. counter.count = old.count + 1 /\ counter.resetTime = old.resetTime /\ old.count < RoleLimits[role]
    BY <1>5
  <2> HIDE DEF old
  <2>5. Through(log, id, role, start, minute) \in SUBSET (Through(served, id, role, start, minute) \cup last)
    BY <1>3 DEF Through
  <2>6. Through(log, id, role, start - RateWindow - 1, start - 1) = Through(served, id, role, start - RateWindow - 1, start - 1)
    <3>1. \A i \in last : ~(log[i].at \in (start - RateWindow - 1)..(start - 1))
      BY <1>1, <1>3, <2>3
    <3> QED  BY <1>3, <3>1 DEF Through
  <2>7. Through(served, id, role, start, minute) \in SUBSET (1..n)
    BY <1>3 DEF Through
  <2>8. /\ Cardinality(Through(log, id, role, start, minute)) \in Nat
        /\ Cardinality(Through(log, id, role, start, minute)) <= Cardinality(Through(served, id, role, start, minute)) + Cardinality(last)
    BY <1>3, <1>4, <2>5, <2>7, CountingBoth
  <2>9. Cardinality(Through(served, id, role, start, minute)) \in Nat
    BY <1>3, <2>7, CountingPart
  <2>10. Cardinality(Through(log, id, role, start, minute)) <= counter.count
    BY <1>4, <2>3, <2>4, <2>8, <2>9
  <2>11. \A i \in DOMAIN log : log[i].id = id /\ log[i].role = role => log[i].at <= counter.resetTime
    BY <1>1, <1>3, <2>1, <2>3, <2>4
  <2>12. counter.resetTime \in Int /\ counter.count \in Nat /\ counter.count <= RoleLimits[role]
    BY <1>2, <2>3, <2>4
  <2>13. start = counter.resetTime - RateWindow
    BY <2>4
  <2> HIDE DEF start
  <2> QED  BY <2>3, <2>6, <2>10, <2>11, <2>12, <2>13 DEF CounterFits
<1>6. CASE ~TheRBAC!Current(key)
  <2>1. counter.count = 1 /\ counter.resetTime = minute + RateWindow
    BY <1>6
  <2>2. \A i \in DOMAIN served : ~(served[i].id = id /\ served[i].role = role /\ served[i].at \in minute..minute)
    <3>1. CASE key \in DOMAIN requestCounts
      <4>1. ~(minute <= requestCounts[key].resetTime)
        BY <1>6, <3>1 DEF TheRBAC!Current
      <4>2. /\ requestCounts[key].resetTime \in Int
            /\ \A i \in DOMAIN served : served[i].id = id /\ served[i].role = role => served[i].at <= requestCounts[key].resetTime
        BY <3>1 DEF RateInv, CounterFits
      <4> QED  BY <1>1, <4>1, <4>2
    <3>2. CASE key \notin DOMAIN requestCounts
      BY <3>2 DEF RateInv
    <3> QED  BY <3>1, <3>2
  <2>3. Through(log, id, role, minute, minute) \in SUBSET last
    BY <1>3, <2>2 DEF Through
  <2>4. Cardinality(Through(log, id, role, minute, minute)) <= 1
    BY <1>3, <1>4, <2>3, CountingPart
  <2>5. Through(log, id, role, minute - RateWindow - 1, minute - 1) = Through(served, id, role, minute - RateWindow - 1, minute - 1)
    <3>1. \A i \in last : ~(log[i].at \in (minute - RateWindow - 1)..(minute - 1))
      BY <1>1, <1>3
    <3> QED  BY <1>3, <3>1 DEF Through
  <2>6. Cardinality(Through(served, id, role, minute - RateWindow - 1, minute - 1)) <= RoleLimits[role]
    <3> DEFINE before == Through(served, id, role, minute - RateWindow - 1, minute - 1)
    <3>1. CASE key \in DOMAIN requestCounts
      <4> DEFINE old == requestCounts[key]
                 start == old.resetTime - RateWindow
                 during == Through(served, id, role, start, minute)
      <4>1. ~(minute <= old.resetTime)
        BY <1>6, <3>1 DEF TheRBAC!Current
      <4>2. /\ old.resetTime \in Int /\ old.count \in Nat /\ old.count <= RoleLimits[role]
            /\ Cardinality(during) <= old.count
        BY <3>1 DEF RateInv, CounterFits
      <4> HIDE DEF old
      <4>3. start <= minute - RateWindow - 1 /\ start \in Int
        BY <1>1, <4>1, <4>2
      <4> HIDE DEF start
      <4>4. before \in SUBSET during
        BY <1>1, <4>3 DEF Through
      <4>5. during \in SUBSET (1..n)
        BY <1>3 DEF Through
      <4> HIDE DEF before, during
      <4>6. Cardinality(before) \in Nat /\ Cardinality(during) \in Nat /\ Cardinality(before) <= Cardinality(during)
        BY <1>3, <4>4, <4>5, CountingPart
      <4> QED  BY <1>2, <4>2, <4>6 DEF before
    <3>2. CASE key \notin DOMAIN requestCounts
      <4>1. before = {}
        BY <3>2 DEF RateInv, Through
      <4> HIDE DEF before
      <4>2. Cardinality(before) = 0
        BY <4>1, FS_EmptySet
      <4> QED  BY <1>2, <4>2 DEF before
    <3> QED  BY <3>1, <3>2
  <2>7. \A i \in DOMAIN log : log[i].id = id /\ log[i].role = role => log[i].at <= counter.resetTime
    BY <1>1, <1>3, <2>1
  <2>8. counter.resetTime - RateWindow = minute /\ counter.resetTime \in Int
    BY <1>1, <2>1
  <2> DEFINE start == counter.resetTime - RateWindow
  <2>9. start = minute
    BY <2>8
  <2>10. counter.count \in Nat /\ counter.count <= RoleLimits[role] /\ start <= minute
    BY <1>1, <1>2, <2>1, <2>9
  <2> HIDE DEF start
  <2>11. /\ Cardinality(Through(log, id, role, start, minute)) <= counter.count
         /\ Cardinality(Through(log, id, role, start - RateWindow - 1, start - 1)) <= RoleLimits[role]
    BY <2>1, <2>4, <2>5, <2>6, <2>9
  <2> QED  BY <2>7, <2>8, <2>10, <2>11 DEF CounterFits, start
<1> QED  BY <1>5, <1>6

LEMMA RateIsThrough ==
    TheRBAC!RateIsLimited <=> \A id \in Identities : \A role \in TheRBAC!NodeRoles : \A from \in 0..MaxMinute :
                          Cardinality(Through(served, id, role, from, from + RateWindow + 1)) <= 2 * RoleLimits[role]
BY RBACCardinality DEF TheRBAC!RateIsLimited, Through

LEMMA RateIsThroughNext ==
    TheRBAC!RateIsLimited' <=> \A id \in Identities : \A role \in TheRBAC!NodeRoles : \A from \in 0..MaxMinute :
                           Cardinality(Through(served', id, role, from, from + RateWindow + 1)) <= 2 * RoleLimits[role]
BY RBACCardinality DEF TheRBAC!RateIsLimited, Through

\* Two windows' worth and no more fits in a window and the minutes at its ends.
LEMMA TwoWindows ==
    ASSUME NEW log, NEW n \in Nat, DOMAIN log \subseteq 1..n, NEW at \in Nat, \A i \in DOMAIN log : log[i].at \in Int /\ log[i].at <= at,
           NEW id, NEW role \in TheRBAC!NodeRoles, RateWindow \in Nat, RateConstants,
           NEW counter, CounterFits(counter, log, id, role, at),
           NEW from \in Nat, from >= counter.resetTime - RateWindow - RateWindow - 1
    PROVE  Cardinality(Through(log, id, role, from, from + RateWindow + 1)) <= 2 * RoleLimits[role]
<1> DEFINE start == counter.resetTime - RateWindow
           before == Through(log, id, role, start - RateWindow - 1, start - 1)
           during == Through(log, id, role, start, at)
           all == Through(log, id, role, from, from + RateWindow + 1)
<1>1. /\ start \in Int /\ counter.count \in Nat /\ counter.count <= RoleLimits[role]
      /\ Cardinality(during) <= counter.count /\ Cardinality(before) <= RoleLimits[role]
  BY DEF CounterFits
<1>2. from >= start - RateWindow - 1
  OBVIOUS
<1>3. RoleLimits[role] \in Nat
  BY DEF RateConstants
<1> HIDE DEF start
<1>4. all \in SUBSET (before \cup during)
  BY <1>1, <1>2 DEF Through
<1>5. before \in SUBSET (1..n) /\ during \in SUBSET (1..n)
  BY DEF Through
<1> HIDE DEF before, during, all
<1>6. Cardinality(all) \in Nat /\ Cardinality(all) <= Cardinality(before) + Cardinality(during)
  BY <1>4, <1>5, CountingBoth
<1>7. Cardinality(before) \in Nat /\ Cardinality(during) \in Nat
  BY <1>5, CountingPart
<1>8. Cardinality(all) <= 2 * RoleLimits[role]
  BY <1>1, <1>3, <1>6, <1>7
<1> QED  BY <1>8 DEF all

LEMMA RequestKeepsRate ==
    ASSUME RBACConstants, RateConstants, RBACInv, RateInv, RBACInv',
           NEW id \in Identities, NEW get, NEW stamp, NEW p, NEW context, TheRBAC!Request(id, get, stamp, p, context)
    PROVE  RateInv'
<1> DEFINE role == TheRBAC!RateRole(id)
           key == <<id, role>>
           entry == [id |-> id, role |-> role, at |-> minute]
           counter == IF TheRBAC!Current(key) THEN [requestCounts[key] EXCEPT !.count = @ + 1]
                      ELSE [count |-> 1, resetTime |-> minute + RateWindow]
<1>1. /\ minute' = minute /\ requestCounts' = TheRBAC!Counted(key)
      /\ served' = Append(served, entry) \/ served' = served
      /\ TheRBAC!Current(key) => requestCounts[key].count < RoleLimits[role]
  BY DEF TheRBAC!Request
<1>2. role \in TheRBAC!NodeRoles
  BY DEF TheRBAC!RateRole, TheRBAC!NodeRoles
<1>3. /\ served \in Seq(ServedType) /\ Len(served) \in Nat /\ DOMAIN served = 1..Len(served)
      /\ minute \in Nat /\ RateWindow \in Nat
      /\ \A i \in DOMAIN served : served[i].at \in Int /\ served[i].at <= minute
  BY ServedTyped
<1>4. served' \in Seq(ServedType)
  <2>1. ServedType' = ServedType
    BY <1>1 DEF ServedType
  <2> QED  BY <2>1 DEF RBACInv
<1>5. TheRBAC!Current(key) => /\ key \in DOMAIN requestCounts
                      /\ counter.count = requestCounts[key].count + 1 /\ counter.resetTime = requestCounts[key].resetTime
  <2> SUFFICES ASSUME TheRBAC!Current(key)
               PROVE  /\ key \in DOMAIN requestCounts
                      /\ counter.count = requestCounts[key].count + 1 /\ counter.resetTime = requestCounts[key].resetTime
    OBVIOUS
  <2>1. key \in DOMAIN requestCounts
    BY DEF TheRBAC!Current
  <2>2. requestCounts[key] \in [count : Nat, resetTime : 0..(MaxMinute + RateWindow)]
    <3>1. TheRBAC!IsMap(requestCounts, Identities \X TheRBAC!NodeRoles, [count : Nat, resetTime : 0..(MaxMinute + RateWindow)])
      BY DEF RBACInv, TheRBAC!TypeOK
    <3> QED  BY <2>1, <3>1 DEF TheRBAC!IsMap
  <2>3. counter = [requestCounts[key] EXCEPT !.count = @ + 1]
    OBVIOUS
  <2> HIDE DEF counter
  <2> QED  BY <2>1, <2>2, <2>3
<1>6. CounterFits(counter, served', id, role, minute)
  <2> HIDE DEF role
  <2> QED  BY <1>1, <1>2, <1>4, <1>5, CounterCounts
<1>7. /\ DOMAIN requestCounts' = DOMAIN requestCounts \cup {key} /\ requestCounts'[key] = counter
      /\ \A k \in DOMAIN requestCounts \ {key} : requestCounts'[k] = requestCounts[k]
  <2>1. CASE TheRBAC!Current(key)
    <3>1. requestCounts' = [requestCounts EXCEPT ![key] = [requestCounts[key] EXCEPT !.count = @ + 1]]
      BY <1>1, <2>1 DEF TheRBAC!Counted
    <3>2. counter = [requestCounts[key] EXCEPT !.count = @ + 1] /\ key \in DOMAIN requestCounts
      BY <1>5, <2>1
    <3> HIDE DEF counter, key
    <3> QED  BY <3>1, <3>2
  <2>2. CASE ~TheRBAC!Current(key)
    <3>1. requestCounts' = TheRBAC!Put(requestCounts, key, [count |-> 1, resetTime |-> minute + RateWindow])
      BY <1>1, <2>2 DEF TheRBAC!Counted
    <3>2. counter = [count |-> 1, resetTime |-> minute + RateWindow]
      BY <2>2
    <3> HIDE DEF counter, key
    <3> QED  BY <3>1, <3>2 DEF TheRBAC!Put
  <2> QED  BY <2>1, <2>2
<1>8. /\ DOMAIN served \subseteq DOMAIN served' /\ \A i \in DOMAIN served : served'[i] = served[i]
      /\ \A i \in DOMAIN served' \ DOMAIN served : served'[i] = entry
      /\ DOMAIN served' \subseteq 1..(Len(served) + 1)
  <2> HIDE DEF entry, ServedType
  <2> QED  BY <1>1, <1>3
<1>9. \A i \in DOMAIN served' : served'[i].at \in Int /\ served'[i].at <= minute
  BY <1>3, <1>8
<1> HIDE DEF counter
<1>10. ASSUME NEW i2 \in Identities, NEW r2 \in TheRBAC!NodeRoles, <<i2, r2>> # key, NEW from, NEW to
       PROVE  Through(served', i2, r2, from, to) = Through(served, i2, r2, from, to)
  BY <1>8, <1>10 DEF Through
<1>11. ASSUME NEW i2 \in Identities, NEW r2 \in TheRBAC!NodeRoles
       PROVE  IF <<i2, r2>> \in DOMAIN requestCounts'
              THEN CounterFits(requestCounts'[<<i2, r2>>], served', i2, r2, minute)
              ELSE \A i \in DOMAIN served' : ~(served'[i].id = i2 /\ served'[i].role = r2)
  <2>1. CASE <<i2, r2>> = key
    <3>1. i2 = id /\ r2 = role
      BY <2>1
    <3> HIDE DEF role
    <3> QED  BY <1>6, <1>7, <2>1, <3>1
  <2>2. CASE <<i2, r2>> # key
    <3> DEFINE k2 == <<i2, r2>>
    <3>1. \A i \in DOMAIN served' : served'[i].id = i2 /\ served'[i].role = r2 => i \in DOMAIN served /\ served'[i] = served[i]
      BY <1>8, <2>2
    <3>2. CASE k2 \in DOMAIN requestCounts
      <4>1. CounterFits(requestCounts[k2], served, i2, r2, minute)
        BY <3>2 DEF RateInv
      <4>2. CounterFits(requestCounts[k2], served', i2, r2, minute)
        BY <1>10, <2>2, <3>1, <4>1 DEF CounterFits
      <4>3. k2 \in DOMAIN requestCounts' /\ requestCounts'[k2] = requestCounts[k2]
        BY <1>7, <2>2, <3>2
      <4> QED  BY <4>2, <4>3
    <3>3. CASE k2 \notin DOMAIN requestCounts
      BY <1>7, <2>2, <3>1, <3>3 DEF RateInv
    <3> QED  BY <3>2, <3>3
  <2> QED  BY <2>1, <2>2
<1>12. ASSUME NEW i2 \in Identities, NEW r2 \in TheRBAC!NodeRoles, NEW from \in 0..MaxMinute
       PROVE  Cardinality(Through(served', i2, r2, from, from + RateWindow + 1)) <= 2 * RoleLimits[r2]
  <2>0. Cardinality(Through(served, i2, r2, from, from + RateWindow + 1)) <= 2 * RoleLimits[r2]
    BY RateIsThrough DEF RateInv
  <2>1. CASE <<i2, r2>> # key
    BY <1>10, <2>0, <2>1
  <2>2. CASE <<i2, r2>> = key
    <3>1. i2 = id /\ r2 = role
      BY <2>2
    <3> DEFINE start == counter.resetTime - RateWindow
    <3>2. start \in Int /\ start <= minute /\ counter.resetTime \in Int
      BY <1>3, <1>6 DEF CounterFits
    <3>3. CASE from >= start - RateWindow - 1
      <4> HIDE DEF role
      <4>1. CounterFits(counter, served', i2, r2, minute) /\ Len(served) + 1 \in Nat /\ from \in Nat
        BY <1>3, <1>6, <3>1
      <4> QED  BY <1>3, <1>8, <1>9, <3>3, <4>1, TwoWindows
    <3>4. CASE ~(from >= start - RateWindow - 1)
      <4>1. from + RateWindow + 1 < minute
        BY <1>3, <3>2, <3>4
      <4>2. \A i \in DOMAIN served' \ DOMAIN served : ~(served'[i].at \in from..(from + RateWindow + 1))
        BY <1>3, <1>8, <4>1
      <4>3. Through(served', i2, r2, from, from + RateWindow + 1) = Through(served, i2, r2, from, from + RateWindow + 1)
        BY <1>8, <4>2 DEF Through
      <4> QED  BY <2>0, <4>3
    <3> QED  BY <3>3, <3>4
  <2> QED  BY <2>1, <2>2
<1>13. TheRBAC!RateIsLimited'
  BY <1>12, RateIsThroughNext
<1> QED  BY <1>1, <1>11, <1>13 DEF RateInv

LEMMA RateStep ==
    ASSUME RBACConstants, RateConstants, RBACInv, RateInv, RBACInv', [TheRBAC!Next]_TheRBAC!rbacVars
    PROVE  RateInv'
<1>1. ASSUME UNCHANGED <<minute, requestCounts, served>> PROVE RateInv'
  BY <1>1, RBACCardinality DEF RateInv, TheRBAC!RateIsLimited
<1>2. ASSUME NEW id \in Identities, NEW held \in SUBSET TheRBAC!NodeRoles, TheRBAC!RegisterIdentity(id, held) \/ TheRBAC!UpdateIdentityRoles(id, held)
      PROVE  RateInv'
  BY <1>1, <1>2 DEF TheRBAC!RegisterIdentity, TheRBAC!UpdateIdentityRoles
<1>3. ASSUME NEW id \in Identities, TheRBAC!DeactivateIdentity(id) PROVE RateInv'
  BY <1>1, <1>3 DEF TheRBAC!DeactivateIdentity
<1>4. ASSUME NEW id \in Identities, NEW p, NEW context, NEW get, TheRBAC!Request(id, get, 0, p, context) PROVE RateInv'
  BY <1>4, RequestKeepsRate
<1>5. CASE TheRBAC!MinutePasses
  <2>1. minute' = minute + 1 /\ UNCHANGED <<requestCounts, served>>
    BY <1>5 DEF TheRBAC!MinutePasses
  <2>2. /\ minute \in Nat /\ RateWindow \in Nat
        /\ \A i \in DOMAIN served : served[i].at \in Int /\ served[i].at <= minute
    BY ServedTyped
  <2>3. ASSUME NEW id, NEW role, NEW start \in Int
        PROVE  Through(served, id, role, start, minute + 1) = Through(served, id, role, start, minute)
    BY <2>2 DEF Through
  <2>4. ASSUME NEW id, NEW role, NEW counter, CounterFits(counter, served, id, role, minute)
        PROVE  CounterFits(counter, served, id, role, minute + 1)
    <3>1. counter.resetTime - RateWindow \in Int /\ counter.resetTime - RateWindow <= minute
      BY <2>2, <2>4 DEF CounterFits
    <3>2. counter.resetTime - RateWindow <= minute + 1
      BY <2>2, <3>1
    <3>3. Through(served, id, role, counter.resetTime - RateWindow, minute + 1)
             = Through(served, id, role, counter.resetTime - RateWindow, minute)
      BY <2>3, <3>1
    <3> QED  BY <2>4, <3>2, <3>3 DEF CounterFits
  <2>5. TheRBAC!RateIsLimited'
    BY <2>1, RBACCardinality DEF RateInv, TheRBAC!RateIsLimited
  <2> QED  BY <2>1, <2>4, <2>5 DEF RateInv
<1>6. CASE UNCHANGED TheRBAC!rbacVars
  BY <1>1, <1>6 DEF TheRBAC!rbacVars
<1> QED  BY <1>2, <1>3, <1>4, <1>5, <1>6 DEF TheRBAC!Next

\* ParallelProcessor.  Sorting only changes the order of the queue: no two places
\* have one rank, so every rank is that of a place.
LEMMA ProcessorCardinality == \A S : TheProcessor!Cardinality(S) = Cardinality(S)
BY DEF Cardinality, TheProcessor!Cardinality

ProcessorConstants == IsFiniteSet(Workers) /\ Priorities \subseteq Int

Prioritised(t, q) == q \in Seq(DOMAIN t) /\ \A i \in DOMAIN q : t[q[i]].priority \in Int

LEMMA RanksDiffer ==
    ASSUME NEW t, NEW q, Prioritised(t, q), NEW i \in DOMAIN q, NEW j \in DOMAIN q, i # j
    PROVE  TheProcessor!Rank(t, q, i) # TheProcessor!Rank(t, q, j)
<1> DEFINE Ahead(k) == {m \in DOMAIN q : TheProcessor!Before(t, q, m, k)}
<1>1. IsFiniteSet(DOMAIN q) /\ DOMAIN q \subseteq Int
  <2>1. DOMAIN q = 1..Len(q) /\ Len(q) \in Nat
    BY DEF Prioritised
  <2> QED  BY <2>1, FS_Interval
<1>2. \A k \in DOMAIN q : IsFiniteSet(Ahead(k)) /\ Cardinality(Ahead(k)) \in Nat
  <2> TAKE k \in DOMAIN q
  <2>1. IsFiniteSet(Ahead(k))
    BY <1>1, FS_Subset
  <2> QED  BY <2>1, FS_CardinalityType
<1>3. ASSUME NEW k \in DOMAIN q, NEW l \in DOMAIN q, TheProcessor!Before(t, q, k, l)
      PROVE  Cardinality(Ahead(k)) # Cardinality(Ahead(l))
  <2>1. \A m \in DOMAIN q : t[q[m]].priority \in Int /\ m \in Int
    BY <1>1 DEF Prioritised
  <2>2. Ahead(k) \subseteq Ahead(l)
    BY <1>3, <2>1 DEF TheProcessor!Before
  <2>3. k \in Ahead(l) /\ k \notin Ahead(k)
    BY <1>3, <2>1 DEF TheProcessor!Before
  <2> HIDE DEF Ahead
  <2>4. Ahead(k) # Ahead(l)
    BY <2>3
  <2> QED  BY <1>2, <2>2, <2>4, FS_Subset
<1>4. TheProcessor!Before(t, q, i, j) \/ TheProcessor!Before(t, q, j, i)
  <2>1. t[q[i]].priority \in Int /\ t[q[j]].priority \in Int /\ i \in Int /\ j \in Int
    BY <1>1 DEF Prioritised
  <2> QED  BY <2>1 DEF TheProcessor!Before
<1>5. Cardinality(Ahead(i)) # Cardinality(Ahead(j))
  BY <1>3, <1>4
<1>6. TheProcessor!Rank(t, q, i) = 1 + Cardinality(Ahead(i)) /\ TheProcessor!Rank(t, q, j) = 1 + Cardinality(Ahead(j))
  BY ProcessorCardinality DEF TheProcessor!Rank
<1>7. Cardinality(Ahead(i)) \in Nat /\ Cardinality(Ahead(j)) \in Nat
  BY <1>2
<1> HIDE DEF Ahead
<1> QED  BY <1>5, <1>6, <1>7

LEMMA SortedPermutes ==
    ASSUME NEW t, NEW q, Prioritised(t, q)
    PROVE  \E f \in Bijection(DOMAIN q, DOMAIN q) : TheProcessor!Sorted(t, q) = [r \in DOMAIN q |-> q[f[r]]]
<1> DEFINE D == DOMAIN q
           rank == [i \in D |-> TheProcessor!Rank(t, q, i)]
           at == [r \in D |-> CHOOSE i \in D : TheProcessor!Rank(t, q, i) = r]
<1>1. D = 1..Len(q) /\ Len(q) \in Nat /\ IsFiniteSet(D) /\ Cardinality(D) = Len(q)
  <2> DEFINE L == Len(q)
  <2>1. D = 1..L /\ L \in Nat
    BY DEF Prioritised
  <2> HIDE DEF L, D
  <2>2. IsFiniteSet(1..L) /\ Cardinality(1..L) = L
    <3>1. L \in Int /\ 1 \in Int /\ (1 > L => L = 0)
      BY <2>1
    <3>2. IsFiniteSet(1..L) /\ Cardinality(1..L) = IF 1 > L THEN 0 ELSE L - 1 + 1
      BY <3>1, FS_Interval
    <3> QED  BY <2>1, <3>1, <3>2
  <2> QED  BY <2>1, <2>2 DEF L
<1>2. \A i \in D : TheProcessor!Rank(t, q, i) \in D
  <2> TAKE i \in D
  <2> DEFINE Ahead == {m \in D : TheProcessor!Before(t, q, m, i)}
             n == Cardinality(Ahead)
  <2>1. i \notin Ahead
    <3>1. t[q[i]].priority \in Int /\ i \in Int
      BY <1>1 DEF Prioritised
    <3> QED  BY <3>1 DEF TheProcessor!Before
  <2>2. IsFiniteSet(Ahead) /\ Ahead \subseteq D /\ n \in Nat /\ n <= Len(q)
    <3>1. Ahead \subseteq D
      OBVIOUS
    <3> HIDE DEF Ahead, D
    <3>2. IsFiniteSet(Ahead) /\ n <= Cardinality(D)
      BY <1>1, <3>1, FS_Subset
    <3> QED  BY <1>1, <3>1, <3>2, FS_CardinalityType
  <2>3. n # Len(q)
    <3> HIDE DEF Ahead, D
    <3> QED  BY <1>1, <2>1, <2>2, FS_Subset
  <2>4. TheProcessor!Rank(t, q, i) = 1 + n
    BY ProcessorCardinality DEF TheProcessor!Rank
  <2> HIDE DEF n, D
  <2>5. 1 + n \in 1..Len(q)
    BY <1>1, <2>2, <2>3
  <2> QED  BY <1>1, <2>4, <2>5
<1>3. rank \in Injection(D, D)
  BY <1>2, RanksDiffer DEF Injection, IsInjective
<1>4. rank \in Surjection(D, D)
  <2> HIDE DEF rank, D
  <2> QED  BY <1>1, <1>3, FS_Injection
<1>5. \A r \in D : at[r] \in D /\ TheProcessor!Rank(t, q, at[r]) = r
  BY <1>4 DEF Surjection
<1>6. at \in Bijection(D, D)
  <2>1. at \in [D -> D] /\ \A r, s \in D : at[r] = at[s] => r = s
    BY <1>5
  <2>2. \A i \in D : \E r \in D : at[r] = i
    <3> TAKE i \in D
    <3>1. TheProcessor!Rank(t, q, i) \in D
      BY <1>2
    <3>2. at[TheProcessor!Rank(t, q, i)] = i
      BY <1>5, <3>1, RanksDiffer
    <3> QED  BY <3>1, <3>2
  <2> QED  BY <2>1, <2>2 DEF Bijection, Injection, Surjection, IsInjective
<1>7. TheProcessor!Sorted(t, q) = [r \in D |-> q[at[r]]]
  BY DEF TheProcessor!Sorted
<1> QED  BY <1>6, <1>7

Task == [status : {"PENDING", "PROCESSING"} \cup TheProcessor!Finished, priority : Priorities, retries : Nat]
WorkerRecord == [status : {"IDLE", "BUSY"}, task : Nat]
Attempt(t, r) == [task : DOMAIN t, record : DOMAIN r]

LEMMA TaskBecomes ==
    ASSUME NEW x \in Task, NEW s \in {"PENDING", "PROCESSING"} \cup TheProcessor!Finished
    PROVE  [x EXCEPT !.status = s] \in Task /\ [x EXCEPT !.status = s].status = s
BY DEF Task

\* What holds of tasks, queue, records and attempts, whichever of them a handler
\* has changed already when it goes on to the next task.
TasksFit(t, q, a) ==
    /\ t \in Seq(Task) /\ q \in Seq(DOMAIN t)
    /\ \A i, j \in DOMAIN q : q[i] = q[j] => i = j
    /\ \A i \in DOMAIN q : t[q[i]].status = "PENDING"
    /\ \A k \in DOMAIN t : (\E x \in a : x.task = k) <=> t[k].status = "PROCESSING"
    /\ pool # TheProcessor!Empty => \A k \in DOMAIN t : t[k].status = "PENDING" => \E i \in DOMAIN q : q[i] = k

RecordsFit(t, r, a) ==
    /\ r \in Seq(WorkerRecord) /\ a \subseteq Attempt(t, r)
    /\ \A x, y \in a : x.task = y.task \/ x.record = y.record => x = y
    /\ \A x \in a : r[x.record].status = "BUSY"
    /\ DOMAIN pool \subseteq Workers /\ \A w \in DOMAIN pool : pool[w] \in DOMAIN r

ProcessorInv ==
    /\ TasksFit(tasks, queue, attempts) /\ RecordsFit(tasks, workerRecords, attempts)
    /\ retryTimers \in Nat

StayFinished(t) == \A k \in DOMAIN t : t[k].status \in TheProcessor!Finished => k \in DOMAIN tasks' /\ tasks'[k].status = t[k].status

LEMMA TakingFits ==
    ASSUME NEW t, NEW q, NEW r, NEW a, TasksFit(t, q, a), RecordsFit(t, r, a),
           TheProcessor!ProcessNextTask(t, q, r, a), pool' = pool
    PROVE  /\ TasksFit(tasks, queue, attempts)' /\ RecordsFit(tasks, workerRecords, attempts)'
           /\ StayFinished(t)
<1>1. CASE tasks' = t /\ queue' = q /\ workerRecords' = r /\ attempts' = a
  BY <1>1 DEF TasksFit, RecordsFit, StayFinished, Attempt
<1>2. ASSUME NEW w \in DOMAIN pool, r[pool[w]].status = "IDLE", q # <<>>,
             tasks' = [t EXCEPT ![q[1]].status = "PROCESSING"], queue' = Tail(q),
             workerRecords' = [r EXCEPT ![pool[w]] = [status |-> "BUSY", task |-> q[1]]],
             attempts' = a \cup {[task |-> q[1], record |-> pool[w]]}
      PROVE  /\ TasksFit(tasks, queue, attempts)' /\ RecordsFit(tasks, workerRecords, attempts)'
             /\ StayFinished(t)
  <2> DEFINE head == q[1]
             new == [task |-> head, record |-> pool[w]]
             taken == [t[head] EXCEPT !.status = "PROCESSING"]
             busy == [status |-> "BUSY", task |-> head]
  <2>1. /\ t \in Seq(Task) /\ q \in Seq(DOMAIN t) /\ DOMAIN t = 1..Len(t) /\ Len(t) \in Nat
        /\ r \in Seq(WorkerRecord) /\ a \subseteq Attempt(t, r) /\ pool[w] \in DOMAIN r
    BY <1>2 DEF TasksFit, RecordsFit
  <2>2. head \in DOMAIN t /\ 1 \in DOMAIN q /\ t[head].status = "PENDING" /\ head \in Nat
    BY <1>2, <2>1 DEF TasksFit
  <2>3. taken \in Task /\ taken.status = "PROCESSING"
    <3>1. t[head] \in Task
      BY <2>1, <2>2
    <3> QED  BY <3>1, TaskBecomes
  <2>4. tasks' = [t EXCEPT ![head] = taken]
    BY <1>2
  <2>5. busy \in WorkerRecord /\ busy.status = "BUSY"
    BY <2>2 DEF WorkerRecord
  <2>6. new.task = head /\ new.record = pool[w] /\ new \in Attempt(t, r)
    BY <2>1, <2>2 DEF Attempt
  <2>7. /\ Tail(q) \in Seq(DOMAIN t) /\ \A i \in DOMAIN Tail(q) : i + 1 \in DOMAIN q /\ Tail(q)[i] = q[i + 1]
        /\ \A i \in DOMAIN q : i = 1 \/ (i - 1 \in DOMAIN Tail(q) /\ Tail(q)[i - 1] = q[i])
    BY <1>2, <2>1
  <2> HIDE DEF taken, busy, new
  <2>8. /\ tasks' \in Seq(Task) /\ DOMAIN tasks' = DOMAIN t
        /\ tasks'[head].status = "PROCESSING" /\ \A k \in DOMAIN t \ {head} : tasks'[k] = t[k]
    BY <2>1, <2>2, <2>3, <2>4
  <2>9. /\ workerRecords' \in Seq(WorkerRecord) /\ DOMAIN workerRecords' = DOMAIN r
        /\ workerRecords'[pool[w]].status = "BUSY" /\ \A k \in DOMAIN r \ {pool[w]} : workerRecords'[k] = r[k]
    <3>1. workerRecords' = [r EXCEPT ![pool[w]] = busy]
      BY <1>2 DEF busy
    <3> QED  BY <2>1, <2>5, <3>1
  <2>10. attempts' = a \cup {new}
    BY <1>2 DEF new
  <2>11. \A x \in a : x.task # head /\ x.record # pool[w]
    BY <1>2, <2>2 DEF TasksFit, RecordsFit
  <2>12. \A i \in DOMAIN Tail(q) : Tail(q)[i] # head /\ Tail(q)[i] \in DOMAIN t
    <3> TAKE i \in DOMAIN Tail(q)
    <3>1. i + 1 \in DOMAIN q /\ Tail(q)[i] = q[i + 1] /\ i + 1 # 1
      BY <2>1, <2>7
    <3> QED  BY <2>1, <2>2, <3>1 DEF TasksFit
  <2>13. TasksFit(tasks, queue, attempts)'
    <3>1. queue' \in Seq(DOMAIN tasks')
      BY <1>2, <2>7, <2>8
    <3>2. \A i, j \in DOMAIN Tail(q) : Tail(q)[i] = Tail(q)[j] => i = j
      <4> TAKE i, j \in DOMAIN Tail(q)
      <4>1. i + 1 \in DOMAIN q /\ j + 1 \in DOMAIN q /\ Tail(q)[i] = q[i + 1] /\ Tail(q)[j] = q[j + 1] /\ i \in Int /\ j \in Int
        BY <2>1, <2>7
      <4>2. q[i + 1] = q[j + 1] => i + 1 = j + 1
        BY <4>1 DEF TasksFit
      <4> QED  BY <4>1, <4>2
    <3>3. \A i \in DOMAIN Tail(q) : tasks'[Tail(q)[i]].status = "PENDING"
      BY <2>7, <2>8, <2>12 DEF TasksFit
    <3>4. \A k \in DOMAIN tasks' : (\E x \in attempts' : x.task = k) <=> tasks'[k].status = "PROCESSING"
      <4> TAKE k \in DOMAIN tasks'
      <4>1. CASE k = head
        BY <2>6, <2>8, <2>10, <4>1
      <4>2. CASE k # head
        <5>1. (\E x \in attempts' : x.task = k) <=> (\E x \in a : x.task = k)
          BY <2>6, <2>10, <4>2
        <5> QED  BY <2>8, <4>2, <5>1 DEF TasksFit
      <4> QED  BY <4>1, <4>2
    <3>5. pool # TheProcessor!Empty => \A k \in DOMAIN tasks' : tasks'[k].status = "PENDING" => \E i \in DOMAIN Tail(q) : Tail(q)[i] = k
      <4> SUFFICES ASSUME pool # TheProcessor!Empty, NEW k \in DOMAIN tasks', tasks'[k].status = "PENDING"
                   PROVE  \E i \in DOMAIN Tail(q) : Tail(q)[i] = k
        OBVIOUS
      <4>1. k # head /\ k \in DOMAIN t /\ t[k].status = "PENDING"
        BY <2>8
      <4>2. PICK i \in DOMAIN q : q[i] = k
        BY <4>1 DEF TasksFit
      <4> QED  BY <2>7, <4>1, <4>2
    <3> QED  BY <1>2, <2>8, <3>1, <3>2, <3>3, <3>4, <3>5 DEF TasksFit
  <2>14. RecordsFit(tasks, workerRecords, attempts)'
    <3>1. attempts' \subseteq Attempt(tasks', workerRecords')
      BY <2>1, <2>6, <2>8, <2>9, <2>10 DEF Attempt
    <3>2. \A x, y \in attempts' : x.task = y.task \/ x.record = y.record => x = y
      BY <2>6, <2>10, <2>11 DEF RecordsFit
    <3>3. \A x \in attempts' : workerRecords'[x.record].status = "BUSY"
      <4> TAKE x \in attempts'
      <4>1. CASE x = new
        BY <2>6, <2>9, <4>1
      <4>2. CASE x \in a
        BY <2>1, <2>9, <2>11, <4>2 DEF RecordsFit, Attempt
      <4> QED  BY <2>10, <4>1, <4>2
    <3>4. DOMAIN pool' \subseteq Workers /\ \A v \in DOMAIN pool' : pool'[v] \in DOMAIN workerRecords'
      BY <2>9 DEF RecordsFit
    <3> QED  BY <2>9, <3>1, <3>2, <3>3, <3>4 DEF RecordsFit
  <2>15. StayFinished(t)
    BY <2>2, <2>8 DEF StayFinished, TheProcessor!Finished
  <2> QED  BY <2>13, <2>14, <2>15
<1> QED  BY <1>1, <1>2 DEF TheProcessor!ProcessNextTask

\* What each handler leaves before it goes on.
LEMMA ProcessorInit ==
    ASSUME ProcessorConstants, TheProcessor!Init
    PROVE  ProcessorInv
<1> DEFINE n == Cardinality(Workers)
<1>1. n \in Nat /\ ExistsBijection(1..n, Workers)
  BY FS_CardinalityType DEF ProcessorConstants
<1> HIDE DEF n
<1>2. PICK b \in Bijection(1..n, Workers) : TRUE
  BY <1>1 DEF ExistsBijection
<1>3. \E f \in [Workers -> 1..n] : \A v, w \in Workers : f[v] = f[w] => v = w
  <2> DEFINE f == [w \in Workers |-> CHOOSE i \in 1..n : b[i] = w]
  <2>1. \A w \in Workers : f[w] \in 1..n /\ b[f[w]] = w
    BY <1>2 DEF Bijection, Surjection
  <2> HIDE DEF f
  <2>2. f \in [Workers -> 1..n]
    <3>1. f = [w \in Workers |-> f[w]]
      BY DEF f
    <3> QED  BY <2>1, <3>1
  <2> QED  BY <2>1, <2>2
<1>4. DOMAIN workerRecords = 1..n /\ workerRecords = [i \in 1..n |-> TheProcessor!IdleRecord]
  BY ProcessorCardinality DEF TheProcessor!Init, n
<1>5. pool \in [Workers -> 1..n]
  <2> DEFINE Shares(f) == \A v, w \in Workers : f[v] = f[w] => v = w
  <2>1. pool = CHOOSE f \in [Workers -> 1..n] : Shares(f)
    BY <1>4, ProcessorCardinality DEF TheProcessor!Init
  <2>2. \E f \in [Workers -> 1..n] : Shares(f)
    BY <1>3
  <2> HIDE DEF Shares
  <2> QED  BY <2>1, <2>2
<1>6. TheProcessor!IdleRecord \in WorkerRecord
  BY DEF TheProcessor!IdleRecord, WorkerRecord
<1>7. workerRecords \in Seq(WorkerRecord)
  BY <1>1, <1>4, <1>6
<1>8. tasks = <<>> /\ queue = <<>> /\ attempts = {} /\ retryTimers = 0
  BY ProcessorCardinality DEF TheProcessor!Init
<1>9. TasksFit(tasks, queue, attempts)
  BY <1>8 DEF TasksFit
<1>10. RecordsFit(tasks, workerRecords, attempts)
  BY <1>4, <1>5, <1>7, <1>8 DEF RecordsFit
<1> QED  BY <1>8, <1>9, <1>10 DEF ProcessorInv

\* A task that is submitted, or put back, waits in the queue.
LEMMA QueuedFits ==
    ASSUME NEW t, NEW q, NEW a, TasksFit(t, q, a),
           NEW f \in Bijection(DOMAIN q, DOMAIN q), NEW s, s = [i \in DOMAIN q |-> q[f[i]]]
    PROVE  TasksFit(t, s, a)
<1>1. q \in Seq(DOMAIN t) /\ DOMAIN q = 1..Len(q) /\ Len(q) \in Nat
  BY DEF TasksFit
<1>2. f \in [DOMAIN q -> DOMAIN q] /\ \A i, j \in DOMAIN q : f[i] = f[j] => i = j
  BY DEF Bijection, Injection, IsInjective
<1>3. \A j \in DOMAIN q : \E i \in DOMAIN q : f[i] = j
  BY DEF Bijection, Surjection
<1>4. DOMAIN s = DOMAIN q /\ \A i \in DOMAIN s : f[i] \in DOMAIN q /\ s[i] = q[f[i]] /\ s[i] \in DOMAIN t
  BY <1>1, <1>2
<1>5. s \in Seq(DOMAIN t)
  BY <1>1, <1>4
<1>6. \A i, j \in DOMAIN s : s[i] = s[j] => i = j
  BY <1>2, <1>4 DEF TasksFit
<1>7. \A i \in DOMAIN s : t[s[i]].status = "PENDING"
  BY <1>4 DEF TasksFit
<1>8. \A k : (\E i \in DOMAIN q : q[i] = k) => \E i \in DOMAIN s : s[i] = k
  BY <1>3, <1>4
<1> QED  BY <1>5, <1>6, <1>7, <1>8 DEF TasksFit

LEMMA ProcessTaskFits ==
    ASSUME ProcessorConstants, ProcessorInv, NEW p \in Priorities, TheProcessor!ProcessTask(p)
    PROVE  ProcessorInv' /\ StayFinished(tasks)
<1> DEFINE new == [status |-> "PENDING", priority |-> p, retries |-> 0]
           t == Append(tasks, new)
           q == Append(queue, Len(t))
<1>1. /\ tasks \in Seq(Task) /\ queue \in Seq(DOMAIN tasks)
      /\ DOMAIN tasks = 1..Len(tasks) /\ Len(tasks) \in Nat
      /\ DOMAIN queue = 1..Len(queue) /\ Len(queue) \in Nat
  BY DEF ProcessorInv, TasksFit
<1>2. new \in Task /\ new.status = "PENDING"
  BY DEF Task
<1>3. TheProcessor!ProcessNextTask(t, TheProcessor!Sorted(t, q), workerRecords, attempts) /\ UNCHANGED <<pool, retryTimers>>
  BY DEF TheProcessor!ProcessTask
<1> HIDE DEF new
<1>4. /\ t \in Seq(Task) /\ Len(t) = Len(tasks) + 1 /\ DOMAIN t = 1..Len(t)
      /\ t[Len(t)] = new /\ \A k \in DOMAIN tasks : k \in DOMAIN t /\ k # Len(t) /\ t[k] = tasks[k]
  BY <1>1, <1>2
<1>5. \A k \in DOMAIN t : k = Len(t) \/ k \in DOMAIN tasks
  BY <1>1, <1>4
<1> HIDE DEF t
<1>6. /\ q \in Seq(DOMAIN t) /\ DOMAIN q = 1..(Len(queue) + 1)
      /\ q[Len(queue) + 1] = Len(t)
      /\ \A i \in DOMAIN queue : i \in DOMAIN q /\ q[i] = queue[i]
      /\ \A i \in DOMAIN q : i = Len(queue) + 1 \/ i \in DOMAIN queue
  <2>1. queue \in Seq(DOMAIN t) /\ Len(t) \in DOMAIN t
    BY <1>1, <1>4
  <2> QED  BY <1>1, <2>1
<1> HIDE DEF q
<1>7. \A i \in DOMAIN queue : queue[i] \in DOMAIN tasks /\ queue[i] # Len(t)
  BY <1>1, <1>4
<1>8. TasksFit(t, q, attempts)
  <2>1. \A i, j \in DOMAIN q : q[i] = q[j] => i = j
    BY <1>6, <1>7 DEF ProcessorInv, TasksFit
  <2>2. \A i \in DOMAIN q : t[q[i]].status = "PENDING"
    BY <1>2, <1>4, <1>6, <1>7 DEF ProcessorInv, TasksFit
  <2>3. \A k \in DOMAIN t : (\E x \in attempts : x.task = k) <=> t[k].status = "PROCESSING"
    <3> TAKE k \in DOMAIN t
    <3>1. CASE k = Len(t)
      <4>1. \A x \in attempts : x.task # k
        BY <1>4, <3>1 DEF ProcessorInv, RecordsFit, Attempt
      <4> QED  BY <1>2, <1>4, <3>1, <4>1
    <3>2. CASE k \in DOMAIN tasks
      BY <1>4, <3>2 DEF ProcessorInv, TasksFit
    <3> QED  BY <1>5, <3>1, <3>2
  <2>4. pool # TheProcessor!Empty => \A k \in DOMAIN t : t[k].status = "PENDING" => \E i \in DOMAIN q : q[i] = k
    <3> SUFFICES ASSUME pool # TheProcessor!Empty, NEW k \in DOMAIN t, t[k].status = "PENDING"
                 PROVE  \E i \in DOMAIN q : q[i] = k
      OBVIOUS
    <3>1. CASE k = Len(t)
      BY <1>1, <1>6, <3>1
    <3>2. CASE k \in DOMAIN tasks
      <4>1. tasks[k].status = "PENDING"
        BY <1>4, <3>2
      <4>2. PICK i \in DOMAIN queue : queue[i] = k
        BY <3>2, <4>1 DEF ProcessorInv, TasksFit
      <4> QED  BY <1>6, <4>2
    <3> QED  BY <1>5, <3>1, <3>2
  <2> QED  BY <1>4, <1>6, <2>1, <2>2, <2>3, <2>4 DEF TasksFit
<1>9. RecordsFit(t, workerRecords, attempts)
  BY <1>4 DEF ProcessorInv, RecordsFit, Attempt
<1>10. Prioritised(t, q)
  <2>1. \A k \in DOMAIN t : t[k].priority \in Int
    <3>1. \A k \in DOMAIN t : t[k] \in Task
      BY <1>4
    <3> QED  BY <3>1 DEF Task, ProcessorConstants
  <2> QED  BY <1>6, <2>1 DEF Prioritised
<1>11. TasksFit(t, TheProcessor!Sorted(t, q), attempts)
  BY <1>8, <1>10, SortedPermutes, QueuedFits
<1>12. TasksFit(tasks, queue, attempts)' /\ RecordsFit(tasks, workerRecords, attempts)' /\ StayFinished(t)
  BY <1>3, <1>9, <1>11, TakingFits
<1>13. StayFinished(tasks)
  BY <1>4, <1>12 DEF StayFinished
<1> QED  BY <1>3, <1>12, <1>13 DEF ProcessorInv

\* A task whose attempt ends in one way or the other is put down as s.
LEMMA EndedFits ==
    ASSUME ProcessorInv, NEW x \in attempts, NEW t, NEW s \in TheProcessor!Finished,
           t \in Seq(Task), DOMAIN t = DOMAIN tasks, t[x.task].status = s,
           \A k \in DOMAIN t \ {x.task} : t[k] = tasks[k]
    PROVE  /\ TasksFit(t, queue, attempts \ {x})
           /\ RecordsFit(t, [workerRecords EXCEPT ![x.record] = TheProcessor!IdleRecord], attempts \ {x})
           /\ \A k \in DOMAIN tasks : tasks[k].status \in TheProcessor!Finished => t[k].status = tasks[k].status
<1> DEFINE r == [workerRecords EXCEPT ![x.record] = TheProcessor!IdleRecord]
<1>1. x \in Attempt(tasks, workerRecords) /\ x.task \in DOMAIN tasks /\ x.record \in DOMAIN workerRecords
  BY DEF ProcessorInv, RecordsFit, Attempt
<1>2. tasks[x.task].status = "PROCESSING"
  BY <1>1 DEF ProcessorInv, TasksFit
<1>3. \A y \in attempts \ {x} : y.task # x.task /\ y.record # x.record
  BY DEF ProcessorInv, RecordsFit
<1>4. TasksFit(t, queue, attempts \ {x})
  <2>1. \A i \in DOMAIN queue : queue[i] # x.task
    BY <1>2 DEF ProcessorInv, TasksFit
  <2>2. s # "PENDING" /\ s # "PROCESSING"
    BY DEF TheProcessor!Finished
  <2>3. \A i \in DOMAIN queue : t[queue[i]].status = "PENDING"
    <3>1. \A i \in DOMAIN queue : queue[i] \in DOMAIN tasks
      BY DEF ProcessorInv, TasksFit
    <3> QED  BY <2>1, <3>1 DEF ProcessorInv, TasksFit
  <2>4. \A k \in DOMAIN t : (\E y \in attempts \ {x} : y.task = k) <=> t[k].status = "PROCESSING"
    <3> TAKE k \in DOMAIN t
    <3>1. CASE k = x.task
      BY <1>3, <2>2, <3>1
    <3>2. CASE k # x.task
      <4>1. (\E y \in attempts \ {x} : y.task = k) <=> (\E y \in attempts : y.task = k)
        BY <3>2
      <4> QED  BY <3>2, <4>1 DEF ProcessorInv, TasksFit
    <3> QED  BY <3>1, <3>2
  <2>5. pool # TheProcessor!Empty => \A k \in DOMAIN t : t[k].status = "PENDING" => \E i \in DOMAIN queue : queue[i] = k
    BY <2>2 DEF ProcessorInv, TasksFit
  <2>6. queue \in Seq(DOMAIN t) /\ \A i, j \in DOMAIN queue : queue[i] = queue[j] => i = j
    BY DEF ProcessorInv, TasksFit
  <2> QED  BY <2>3, <2>4, <2>5, <2>6 DEF TasksFit
<1>5. r \in Seq(WorkerRecord) /\ DOMAIN r = DOMAIN workerRecords /\ \A k \in DOMAIN r \ {x.record} : r[k] = workerRecords[k]
  <2>1. TheProcessor!IdleRecord \in WorkerRecord /\ workerRecords \in Seq(WorkerRecord)
    BY DEF TheProcessor!IdleRecord, WorkerRecord, ProcessorInv, RecordsFit
  <2> QED  BY <1>1, <2>1
<1> HIDE DEF r
<1>6. RecordsFit(t, r, attempts \ {x})
  <2>1. attempts \ {x} \subseteq Attempt(t, r)
    BY <1>5 DEF ProcessorInv, RecordsFit, Attempt
  <2>2. \A y \in attempts \ {x} : r[y.record].status = "BUSY"
    <3>1. \A y \in attempts : y.record \in DOMAIN workerRecords /\ workerRecords[y.record].status = "BUSY"
      BY DEF ProcessorInv, RecordsFit, Attempt
    <3> QED  BY <1>3, <1>5, <3>1
  <2> QED  BY <1>5, <2>1, <2>2 DEF ProcessorInv, RecordsFit
<1>7. \A k \in DOMAIN tasks : tasks[k].status \in TheProcessor!Finished => t[k].status = tasks[k].status
  BY <1>2 DEF TheProcessor!Finished
<1> QED  BY <1>4, <1>6, <1>7 DEF r

LEMMA TaskUpdated ==
    ASSUME NEW t \in Seq(Task), NEW k \in DOMAIN t, NEW s \in {"PENDING", "PROCESSING"} \cup TheProcessor!Finished
    PROVE  /\ [t EXCEPT ![k].status = s] \in Seq(Task) /\ DOMAIN [t EXCEPT ![k].status = s] = DOMAIN t
           /\ [t EXCEPT ![k].status = s][k].status = s
           /\ \A j \in DOMAIN t \ {k} : [t EXCEPT ![k].status = s][j] = t[j]
<1> DEFINE x == [t[k] EXCEPT !.status = s]
<1>1. t[k] \in Task /\ [t EXCEPT ![k].status = s] = [t EXCEPT ![k] = x]
  OBVIOUS
<1>2. x \in Task /\ x.status = s
  BY <1>1, TaskBecomes
<1> HIDE DEF x
<1>3. [t EXCEPT ![k] = x] \in Seq(Task)
  BY <1>2
<1> QED  BY <1>1, <1>2, <1>3

LEMMA TaskSuccessFits ==
    ASSUME ProcessorInv, NEW x \in attempts, TheProcessor!TaskSuccess(x)
    PROVE  ProcessorInv' /\ StayFinished(tasks)
<1> DEFINE t == [tasks EXCEPT ![x.task].status = "COMPLETED"]
           r == [workerRecords EXCEPT ![x.record] = TheProcessor!IdleRecord]
<1>1. x.task \in DOMAIN tasks /\ tasks \in Seq(Task) /\ "COMPLETED" \in TheProcessor!Finished
  BY DEF ProcessorInv, TasksFit, RecordsFit, Attempt, TheProcessor!Finished
<1>2. t \in Seq(Task) /\ DOMAIN t = DOMAIN tasks /\ t[x.task].status = "COMPLETED" /\ \A k \in DOMAIN t \ {x.task} : t[k] = tasks[k]
  BY <1>1, TaskUpdated
<1>3. TheProcessor!ProcessNextTask(t, queue, r, attempts \ {x}) /\ UNCHANGED <<pool, retryTimers>>
  BY DEF TheProcessor!TaskSuccess
<1> HIDE DEF t
<1>4. /\ TasksFit(t, queue, attempts \ {x}) /\ RecordsFit(t, r, attempts \ {x})
      /\ \A k \in DOMAIN tasks : tasks[k].status \in TheProcessor!Finished => t[k].status = tasks[k].status
  BY <1>1, <1>2, EndedFits
<1> HIDE DEF r
<1>5. TasksFit(tasks, queue, attempts)' /\ RecordsFit(tasks, workerRecords, attempts)' /\ StayFinished(t)
  BY <1>3, <1>4, TakingFits
<1> QED  BY <1>2, <1>3, <1>4, <1>5 DEF ProcessorInv, StayFinished

LEMMA TaskErrorFits ==
    ASSUME ProcessorInv, NEW x \in attempts, TheProcessor!TaskError(x)
    PROVE  ProcessorInv' /\ StayFinished(tasks)
<1> DEFINE t == [tasks EXCEPT ![x.task].retries = @ + 1]
           back == [t EXCEPT ![x.task].status = "PENDING"]
           failed == [t EXCEPT ![x.task].status = "FAILED"]
           r == [workerRecords EXCEPT ![x.record] = TheProcessor!IdleRecord]
<1>1. x.task \in DOMAIN tasks /\ x.task \in Nat /\ tasks \in Seq(Task) /\ "FAILED" \in TheProcessor!Finished
  BY DEF ProcessorInv, TasksFit, RecordsFit, Attempt, TheProcessor!Finished
<1>2. t \in Seq(Task) /\ DOMAIN t = DOMAIN tasks /\ \A k \in DOMAIN t \ {x.task} : t[k] = tasks[k]
  <2> DEFINE y == [tasks[x.task] EXCEPT !.retries = tasks[x.task].retries + 1]
  <2>1. tasks[x.task] \in Task /\ t = [tasks EXCEPT ![x.task] = y]
    BY <1>1
  <2>2. \A z \in Task : [z EXCEPT !.retries = z.retries + 1] \in Task
    BY DEF Task
  <2>3. y \in Task
    BY <2>1, <2>2
  <2> HIDE DEF y, t
  <2>4. [tasks EXCEPT ![x.task] = y] \in Seq(Task)
    BY <1>1, <2>3
  <2> QED  BY <1>1, <2>1, <2>4
<1>3. \/ /\ TheProcessor!ProcessNextTask(back, <<x.task>> \o queue, workerRecords, attempts \ {x})
         /\ retryTimers' = retryTimers + 1 /\ UNCHANGED pool
      \/ /\ TheProcessor!ProcessNextTask(failed, queue, r, attempts \ {x})
         /\ UNCHANGED <<retryTimers, pool>>
  BY DEF TheProcessor!TaskError
<1> HIDE DEF t
<1>4. /\ back \in Seq(Task) /\ DOMAIN back = DOMAIN tasks /\ back[x.task].status = "PENDING"
      /\ \A k \in DOMAIN back \ {x.task} : back[k] = tasks[k]
  BY <1>1, <1>2, TaskUpdated
<1>5. /\ failed \in Seq(Task) /\ DOMAIN failed = DOMAIN tasks /\ failed[x.task].status = "FAILED"
      /\ \A k \in DOMAIN failed \ {x.task} : failed[k] = tasks[k]
  BY <1>1, <1>2, TaskUpdated
<1> HIDE DEF back, failed
<1>6. /\ TasksFit(failed, queue, attempts \ {x}) /\ RecordsFit(failed, r, attempts \ {x})
      /\ \A k \in DOMAIN tasks : tasks[k].status \in TheProcessor!Finished => failed[k].status = tasks[k].status
  BY <1>1, <1>5, EndedFits
<1> HIDE DEF r
<1>7. CASE TheProcessor!ProcessNextTask(failed, queue, r, attempts \ {x}) /\ UNCHANGED <<retryTimers, pool>>
  <2>1. TasksFit(tasks, queue, attempts)' /\ RecordsFit(tasks, workerRecords, attempts)' /\ StayFinished(failed)
    BY <1>6, <1>7, TakingFits
  <2> QED  BY <1>5, <1>6, <1>7, <2>1 DEF ProcessorInv, StayFinished
<1>8. CASE /\ TheProcessor!ProcessNextTask(back, <<x.task>> \o queue, workerRecords, attempts \ {x})
           /\ retryTimers' = retryTimers + 1 /\ UNCHANGED pool
  <2> DEFINE q == <<x.task>> \o queue
  <2>1. tasks[x.task].status = "PROCESSING"
    BY <1>1 DEF ProcessorInv, TasksFit
  <2>2. queue \in Seq(DOMAIN tasks) /\ DOMAIN queue = 1..Len(queue) /\ Len(queue) \in Nat
    BY DEF ProcessorInv, TasksFit
  <2>3. /\ q \in Seq(DOMAIN tasks) /\ DOMAIN q = 1..(Len(queue) + 1) /\ q[1] = x.task
        /\ \A i \in DOMAIN queue : i + 1 \in DOMAIN q /\ q[i + 1] = queue[i]
        /\ \A i \in DOMAIN q : i = 1 \/ (i - 1 \in DOMAIN queue /\ q[i] = queue[i - 1])
    BY <1>1, <2>2
  <2> HIDE DEF q
  <2>4. \A i \in DOMAIN queue : queue[i] # x.task /\ queue[i] \in DOMAIN tasks
    BY <2>1, <2>2 DEF ProcessorInv, TasksFit
  <2>5. TasksFit(back, q, attempts \ {x})
    <3>1. \A i, j \in DOMAIN q : q[i] = q[j] => i = j
      <4> SUFFICES ASSUME NEW i \in DOMAIN q, NEW j \in DOMAIN q, q[i] = q[j]
                   PROVE  i = j
        OBVIOUS
      <4>1. i \in Int /\ j \in Int
        BY <2>2, <2>3
      <4>2. CASE i = 1 /\ j = 1
        BY <4>2
      <4>3. CASE i - 1 \in DOMAIN queue /\ q[i] = queue[i - 1] /\ j = 1
        BY <2>3, <2>4, <4>3
      <4>4. CASE j - 1 \in DOMAIN queue /\ q[j] = queue[j - 1] /\ i = 1
        BY <2>3, <2>4, <4>4
      <4>5. CASE i - 1 \in DOMAIN queue /\ q[i] = queue[i - 1] /\ j - 1 \in DOMAIN queue /\ q[j] = queue[j - 1]
        <5>1. \A m, n \in DOMAIN queue : queue[m] = queue[n] => m = n
          BY DEF ProcessorInv, TasksFit
        <5>2. queue[i - 1] = queue[j - 1]
          BY <4>5
        <5>3. i - 1 = j - 1
          BY <4>5, <5>1, <5>2
        <5> QED  BY <4>1, <5>3
      <4> QED  BY <2>3, <4>2, <4>3, <4>4, <4>5
    <3>2. \A i \in DOMAIN q : back[q[i]].status = "PENDING"
      <4>1. \A i \in DOMAIN queue : back[queue[i]].status = "PENDING"
        BY <1>4, <2>4 DEF ProcessorInv, TasksFit
      <4> QED  BY <1>4, <2>3, <4>1
    <3>3. \A k \in DOMAIN back : (\E y \in attempts \ {x} : y.task = k) <=> back[k].status = "PROCESSING"
      <4> TAKE k \in DOMAIN back
      <4>1. CASE k = x.task
        <5>1. \A y \in attempts \ {x} : y.task # x.task
          BY DEF ProcessorInv, RecordsFit
        <5> QED  BY <1>4, <4>1, <5>1
      <4>2. CASE k # x.task
        <5>1. (\E y \in attempts \ {x} : y.task = k) <=> (\E y \in attempts : y.task = k)
          BY <4>2
        <5> QED  BY <1>4, <4>2, <5>1 DEF ProcessorInv, TasksFit
      <4> QED  BY <4>1, <4>2
    <3>4. pool # TheProcessor!Empty => \A k \in DOMAIN back : back[k].status = "PENDING" => \E i \in DOMAIN q : q[i] = k
      <4> SUFFICES ASSUME pool # TheProcessor!Empty, NEW k \in DOMAIN back, back[k].status = "PENDING"
                   PROVE  \E i \in DOMAIN q : q[i] = k
        OBVIOUS
      <4>1. CASE k = x.task
        BY <2>2, <2>3, <4>1
      <4>2. CASE k # x.task
        <5>1. tasks[k].status = "PENDING" /\ k \in DOMAIN tasks
          BY <1>4, <4>2
        <5>2. PICK i \in DOMAIN queue : queue[i] = k
          BY <5>1 DEF ProcessorInv, TasksFit
        <5> QED  BY <2>3, <5>2
      <4> QED  BY <4>1, <4>2
    <3> QED  BY <1>4, <2>3, <3>1, <3>2, <3>3, <3>4 DEF TasksFit
  <2>6. RecordsFit(back, workerRecords, attempts \ {x})
    BY <1>4 DEF ProcessorInv, RecordsFit, Attempt
  <2>7. TasksFit(tasks, queue, attempts)' /\ RecordsFit(tasks, workerRecords, attempts)' /\ StayFinished(back)
    BY <1>8, <2>5, <2>6, TakingFits DEF q
  <2>8. \A k \in DOMAIN tasks : tasks[k].status \in TheProcessor!Finished => k \in DOMAIN back /\ back[k].status = tasks[k].status
    BY <1>4, <2>1 DEF TheProcessor!Finished
  <2>9. StayFinished(tasks)
    BY <2>7, <2>8 DEF StayFinished
  <2>10. retryTimers' \in Nat
    BY <1>8 DEF ProcessorInv
  <2> QED  BY <2>7, <2>9, <2>10 DEF ProcessorInv
<1> QED  BY <1>3, <1>7, <1>8

LEMMA RestartFits ==
    ASSUME ProcessorConstants, ProcessorInv, NEW w \in Workers, TheProcessor!RestartWorker(w)
    PROVE  ProcessorInv' /\ StayFinished(tasks)
<1> DEFINE r == Append(workerRecords, TheProcessor!IdleRecord)
<1>1. /\ workerRecords \in Seq(WorkerRecord) /\ TheProcessor!IdleRecord \in WorkerRecord
      /\ w \in DOMAIN pool /\ workerRecords' = r /\ pool' = [pool EXCEPT ![w] = Len(workerRecords')]
      /\ UNCHANGED <<tasks, queue, attempts, retryTimers>>
  BY ProcessorCardinality DEF ProcessorInv, RecordsFit, TheProcessor!RestartWorker, TheProcessor!IdleRecord, WorkerRecord
<1>2. /\ r \in Seq(WorkerRecord) /\ Len(r) \in DOMAIN r
      /\ \A k \in DOMAIN workerRecords : k \in DOMAIN r /\ r[k] = workerRecords[k]
  BY <1>1
<1> HIDE DEF r
<1>3. pool # TheProcessor!Empty
  BY <1>1 DEF TheProcessor!Empty
<1>4. DOMAIN pool' = DOMAIN pool /\ \A v \in DOMAIN pool : pool'[v] = IF v = w THEN Len(r) ELSE pool[v]
  BY <1>1
<1>5. TasksFit(tasks, queue, attempts)'
  BY <1>1, <1>3 DEF ProcessorInv, TasksFit
<1>6. RecordsFit(tasks, workerRecords, attempts)'
  <2>1. \A v \in DOMAIN pool' : pool'[v] \in DOMAIN r
    BY <1>2, <1>4 DEF ProcessorInv, RecordsFit
  <2>2. attempts \subseteq Attempt(tasks, r)
    BY <1>2 DEF ProcessorInv, RecordsFit, Attempt
  <2>3. \A x \in attempts : r[x.record].status = "BUSY"
    BY <1>2 DEF ProcessorInv, RecordsFit, Attempt
  <2> QED  BY <1>1, <1>2, <1>4, <2>1, <2>2, <2>3 DEF ProcessorInv, RecordsFit
<1> QED  BY <1>1, <1>5, <1>6 DEF ProcessorInv, StayFinished

LEMMA ProcessorStep ==
    ASSUME ProcessorConstants, ProcessorInv, [TheProcessor!Next]_TheProcessor!processorVars
    PROVE  ProcessorInv' /\ StayFinished(tasks)
<1>1. CASE UNCHANGED TheProcessor!processorVars
  BY <1>1 DEF TheProcessor!processorVars, ProcessorInv, TasksFit, RecordsFit, StayFinished
<1>2. ASSUME NEW p \in Priorities, TheProcessor!ProcessTask(p)
      PROVE  ProcessorInv' /\ StayFinished(tasks)
  BY <1>2, ProcessTaskFits
<1>3. ASSUME NEW x \in attempts, TheProcessor!TaskSuccess(x) \/ TheProcessor!TaskError(x)
      PROVE  ProcessorInv' /\ StayFinished(tasks)
  BY <1>3, TaskSuccessFits, TaskErrorFits
<1>4. CASE TheProcessor!RetryDelayEnds
  <2>1. /\ TasksFit(tasks, queue, attempts) /\ RecordsFit(tasks, workerRecords, attempts) /\ pool' = pool
        /\ TheProcessor!ProcessNextTask(tasks, queue, workerRecords, attempts) /\ retryTimers' = retryTimers - 1 /\ retryTimers > 0
    BY <1>4 DEF TheProcessor!RetryDelayEnds, ProcessorInv
  <2>2. TasksFit(tasks, queue, attempts)' /\ RecordsFit(tasks, workerRecords, attempts)' /\ StayFinished(tasks)
    BY <2>1, TakingFits
  <2> QED  BY <2>1, <2>2 DEF ProcessorInv
<1>5. ASSUME NEW w \in Workers, TheProcessor!RestartWorker(w)
      PROVE  ProcessorInv' /\ StayFinished(tasks)
  BY <1>5, RestartFits
<1>6. CASE TheProcessor!Stop
  <2>1. TasksFit(tasks, queue, attempts)'
    BY <1>6 DEF TheProcessor!Stop, ProcessorInv, TasksFit
  <2>2. DOMAIN pool' = {}
    BY <1>6 DEF TheProcessor!Stop, TheProcessor!Empty
  <2>3. RecordsFit(tasks, workerRecords, attempts)'
    BY <1>6, <2>2 DEF TheProcessor!Stop, ProcessorInv, RecordsFit
  <2> QED  BY <1>6, <2>1, <2>3 DEF TheProcessor!Stop, ProcessorInv, StayFinished
<1> QED  BY <1>1, <1>2, <1>3, <1>4, <1>5, <1>6 DEF TheProcessor!Next

LEMMA ProcessorInvSays ==
    ASSUME ProcessorInv
    PROVE  TheProcessor!EachTaskOnce /\ TheProcessor!WaitingIsQueued
<1>1. \A k : k \in TheProcessor!ToSet(queue) <=> \E i \in DOMAIN queue : queue[i] = k
  BY DEF TheProcessor!ToSet
<1>2. \A i, j \in DOMAIN queue : queue[i] = queue[j] => i = j
  BY DEF ProcessorInv, TasksFit
<1>3. \A x, y \in attempts : x.task = y.task \/ x.record = y.record => x = y
  BY DEF ProcessorInv, RecordsFit
<1>4. \A k \in DOMAIN tasks : k \in TheProcessor!ToSet(queue) => tasks[k].status = "PENDING"
  BY <1>1 DEF ProcessorInv, TasksFit
<1>5. \A k \in DOMAIN tasks : (\E x \in attempts : x.task = k) <=> tasks[k].status = "PROCESSING"
  BY DEF ProcessorInv, TasksFit
<1>6. TheProcessor!WaitingIsQueued
  BY <1>1 DEF TheProcessor!WaitingIsQueued, ProcessorInv, TasksFit
<1> QED  BY <1>2, <1>3, <1>4, <1>5, <1>6 DEF TheProcessor!EachTaskOnce

-----------------------------------------------------------------------------
\* ParallelProcessor: a task that has not ended has retries left, and a retry delay
\* stands for a retry counted, of which there are MaxRetries of a task at most.
RetriesConstants == MaxRetries \in Nat /\ MaxRetries > 0 /\ MaxTasks \in Nat

Spare(x) == x.retries <= MaxRetries /\ (x.status \notin TheProcessor!Finished => x.retries < MaxRetries)

RetriesFit(t) == t \in Seq(Task) /\ Len(t) <= MaxTasks /\ \A k \in DOMAIN t : Spare(t[k])
RetriesBut(t, k) ==
    /\ t \in Seq(Task) /\ Len(t) <= MaxTasks /\ t[k].retries <= MaxRetries
    /\ \A j \in DOMAIN t : j # k => Spare(t[j])

TakenFit(t, r) == r \in Seq(WorkerRecord) /\ \A i \in DOMAIN r : r[i].task <= Len(t)

Retried(t) == {p \in (DOMAIN t) \X (1..MaxRetries) : p[2] <= t[p[1]].retries}

RetriesInv ==
    /\ RetriesFit(tasks) /\ TakenFit(tasks, workerRecords)
    /\ retryTimers <= Cardinality(Retried(tasks))

HeadWaits(t, q) == q # <<>> => q[1] \in DOMAIN t /\ t[q[1]].status = "PENDING"

LEMMA RetriedIsFinite ==
    ASSUME RetriesConstants, NEW t, RetriesFit(t)
    PROVE  IsFiniteSet(Retried(t)) /\ Cardinality(Retried(t)) \in Nat /\ Cardinality(Retried(t)) <= MaxTasks * MaxRetries
<1> DEFINE n == Len(t)
           m == MaxRetries
           S == 1..n
           T == 1..m
           R == Retried(t)
<1>1. n \in Nat /\ n <= MaxTasks /\ MaxTasks \in Nat /\ m \in Nat /\ DOMAIN t = S
  BY LenProperties DEF RetriesFit, RetriesConstants
<1>2. R \subseteq S \X T
  BY <1>1 DEF Retried
<1> HIDE DEF R, n, m
<1>3. IsFiniteSet(S) /\ Cardinality(S) = n /\ IsFiniteSet(T) /\ Cardinality(T) = m
  BY <1>1, FS_Interval
<1> HIDE DEF S, T
<1>4. IsFiniteSet(S \X T) /\ Cardinality(S \X T) = n * m
  BY <1>3, FS_Product
<1>5. IsFiniteSet(R) /\ Cardinality(R) <= n * m
  BY <1>2, <1>4, FS_Subset
<1>6. Cardinality(R) \in Nat
  BY <1>5, FS_CardinalityType
<1>7. n * m <= MaxTasks * m /\ n * m \in Nat /\ MaxTasks * m \in Nat
  BY <1>1
<1> DEFINE c == Cardinality(R)
           x == n * m
           y == MaxTasks * m
<1> HIDE DEF c, x, y
<1>8. c <= y
  BY <1>5, <1>6, <1>7 DEF c, x, y
<1> QED  BY <1>5, <1>6, <1>8 DEF c, y, m, R

\* A status that changes takes no retry back.
Marked(t, k, s) == [t EXCEPT ![k].status = s]

LEMMA StatusKeepsRetries ==
    ASSUME NEW t, NEW k \in DOMAIN t, RetriesBut(t, k), NEW s \in {"PENDING", "PROCESSING"} \cup TheProcessor!Finished,
           s \in TheProcessor!Finished \/ t[k].retries < MaxRetries
    PROVE  /\ RetriesFit(Marked(t, k, s)) /\ Retried(Marked(t, k, s)) = Retried(t)
           /\ DOMAIN Marked(t, k, s) = DOMAIN t /\ Len(Marked(t, k, s)) = Len(t)
<1> DEFINE x == [t[k] EXCEPT !.status = s]
           u == Marked(t, k, s)
<1>1. t \in Seq(Task) /\ Len(t) \in Nat /\ DOMAIN t = 1..Len(t) /\ t[k] \in Task
  BY LenProperties DEF RetriesBut
<1>2. x \in Task /\ x.status = s /\ x.retries = t[k].retries
  <2>1. x \in Task /\ x.status = s
    BY <1>1, TaskBecomes
  <2> QED  BY <2>1
<1>3. u = [t EXCEPT ![k] = x]
  BY DEF Marked
<1> HIDE DEF x, u
<1>4. u \in Seq(Task) /\ Len(u) = Len(t) /\ DOMAIN u = DOMAIN t /\ u[k] = x /\ \A j \in DOMAIN t : j # k => u[j] = t[j]
  BY <1>1, <1>2, <1>3
<1>5. \A j \in DOMAIN t : u[j].retries = t[j].retries
  BY <1>2, <1>4
<1>6. Retried(u) = Retried(t)
  BY <1>4, <1>5 DEF Retried
<1>7. ASSUME NEW j \in DOMAIN u PROVE Spare(u[j])
  <2>1. CASE j = k
    BY <1>2, <1>4, <2>1 DEF RetriesBut, Spare
  <2>2. CASE j # k
    BY <1>4, <2>2 DEF RetriesBut
  <2> QED  BY <2>1, <2>2
<1>8. Len(u) <= MaxTasks
  BY <1>4 DEF RetriesBut
<1>9. RetriesFit(u)
  BY <1>4, <1>7, <1>8 DEF RetriesFit
<1> QED  BY <1>4, <1>6, <1>9 DEF u

LEMMA TakingKeepsRetries ==
    ASSUME RetriesConstants, NEW t, NEW q, NEW r, NEW a, RetriesFit(t), TakenFit(t, r), HeadWaits(t, q),
           \A w \in DOMAIN pool : pool[w] \in DOMAIN r, TheProcessor!ProcessNextTask(t, q, r, a)
    PROVE  RetriesFit(tasks') /\ TakenFit(tasks', workerRecords') /\ Retried(tasks') = Retried(t)
<1>1. CASE tasks' = t /\ queue' = q /\ workerRecords' = r /\ attempts' = a
  BY <1>1
<1>2. ASSUME NEW w \in DOMAIN pool, q # <<>>, tasks' = [t EXCEPT ![q[1]].status = "PROCESSING"],
             workerRecords' = [r EXCEPT ![pool[w]] = [status |-> "BUSY", task |-> q[1]]]
      PROVE  RetriesFit(tasks') /\ TakenFit(tasks', workerRecords') /\ Retried(tasks') = Retried(t)
  <2> DEFINE head == q[1]
             busy == [status |-> "BUSY", task |-> head]
             at == pool[w]
  <2>1. head \in DOMAIN t /\ t[head].status = "PENDING" /\ at \in DOMAIN r
    BY <1>2 DEF HeadWaits
  <2>2. tasks' = [t EXCEPT ![head].status = "PROCESSING"] /\ workerRecords' = [r EXCEPT ![at] = busy]
    BY <1>2
  <2>3. t \in Seq(Task) /\ Len(t) \in Nat /\ DOMAIN t = 1..Len(t)
    BY LenProperties DEF RetriesFit
  <2> HIDE DEF head, at
  <2>4. head \in Nat /\ head <= Len(t)
    BY <2>1, <2>3
  <2>5. t[head].retries < MaxRetries /\ RetriesBut(t, head)
    BY <2>1 DEF RetriesFit, RetriesBut, Spare, TheProcessor!Finished
  <2>6. RetriesFit(tasks') /\ Retried(tasks') = Retried(t) /\ Len(tasks') = Len(t)
    BY <2>1, <2>2, <2>5, StatusKeepsRetries DEF Marked
  <2>7. busy \in WorkerRecord /\ busy.task = head
    BY <2>4 DEF WorkerRecord
  <2> HIDE DEF busy
  <2>8. TakenFit(tasks', workerRecords')
    <3>1. r \in Seq(WorkerRecord) /\ \A i \in DOMAIN r : r[i].task <= Len(t)
      BY DEF TakenFit
    <3>2. /\ workerRecords' \in Seq(WorkerRecord) /\ DOMAIN workerRecords' = DOMAIN r
          /\ \A i \in DOMAIN r : workerRecords'[i] = busy \/ workerRecords'[i] = r[i]
      BY <2>1, <2>2, <2>7, <3>1
    <3>3. \A i \in DOMAIN r : workerRecords'[i].task <= Len(t)
      BY <2>4, <2>7, <3>1, <3>2
    <3> QED  BY <2>6, <3>2, <3>3 DEF TakenFit
  <2> QED  BY <2>6, <2>8
<1> QED  BY <1>1, <1>2 DEF TheProcessor!ProcessNextTask

LEMMA WaitingHead ==
    ASSUME ProcessorInv
    PROVE  HeadWaits(tasks, queue) /\ \A w \in DOMAIN pool : pool[w] \in DOMAIN workerRecords
<1>1. queue \in Seq(DOMAIN tasks) /\ \A i \in DOMAIN queue : tasks[queue[i]].status = "PENDING"
  BY DEF ProcessorInv, TasksFit
<1>2. queue # <<>> => 1 \in DOMAIN queue /\ queue[1] \in DOMAIN tasks
  BY <1>1, LenProperties
<1> QED  BY <1>1, <1>2 DEF HeadWaits, ProcessorInv, RecordsFit

LEMMA ProcessTaskKeepsRetries ==
    ASSUME ProcessorConstants, RetriesConstants, ProcessorInv, RetriesInv, NEW p \in Priorities, TheProcessor!ProcessTask(p)
    PROVE  RetriesInv'
<1> DEFINE new == [status |-> "PENDING", priority |-> p, retries |-> 0]
           t == Append(tasks, new)
           q == Append(queue, Len(t))
           s == TheProcessor!Sorted(t, q)
<1>1. Len(tasks) < MaxTasks /\ TheProcessor!ProcessNextTask(t, s, workerRecords, attempts) /\ UNCHANGED <<pool, retryTimers>>
  BY DEF TheProcessor!ProcessTask
<1>2. /\ tasks \in Seq(Task) /\ Len(tasks) \in Nat /\ DOMAIN tasks = 1..Len(tasks)
      /\ queue \in Seq(DOMAIN tasks) /\ Len(queue) \in Nat /\ DOMAIN queue = 1..Len(queue)
      /\ \A i \in DOMAIN queue : tasks[queue[i]].status = "PENDING"
      /\ MaxRetries \in Nat /\ MaxRetries > 0 /\ MaxTasks \in Nat
  BY LenProperties DEF ProcessorInv, TasksFit, RetriesConstants
<1>3. new \in Task /\ new.status = "PENDING" /\ new.retries = 0
  BY DEF Task
<1> HIDE DEF new
<1>4. /\ t \in Seq(Task) /\ Len(t) = Len(tasks) + 1 /\ DOMAIN t = 1..Len(t)
      /\ t[Len(t)] = new /\ \A k \in DOMAIN tasks : k \in DOMAIN t /\ t[k] = tasks[k]
  BY <1>2, <1>3
<1>5. \A k \in DOMAIN t : k = Len(t) \/ k \in DOMAIN tasks
  BY <1>2, <1>4
<1> HIDE DEF t
<1>6. /\ q \in Seq(DOMAIN t) /\ DOMAIN q = 1..(Len(queue) + 1)
      /\ q[Len(queue) + 1] = Len(t) /\ \A i \in DOMAIN queue : q[i] = queue[i]
  <2>1. queue \in Seq(DOMAIN t) /\ Len(t) \in DOMAIN t
    BY <1>2, <1>4
  <2> QED  BY <1>2, <2>1
<1>7. \A i \in DOMAIN q : i = Len(queue) + 1 \/ i \in DOMAIN queue
  BY <1>2, <1>6
<1> HIDE DEF q
<1>8. \A i \in DOMAIN q : t[q[i]].status = "PENDING"
  <2> TAKE i \in DOMAIN q
  <2>1. CASE i = Len(queue) + 1
    BY <1>3, <1>4, <1>6, <2>1
  <2>2. CASE i \in DOMAIN queue
    <3>1. queue[i] \in DOMAIN tasks
      BY <1>2, <2>2
    <3> QED  BY <1>2, <1>4, <1>6, <2>2, <3>1
  <2> QED  BY <1>7, <2>1, <2>2
<1>9. Prioritised(t, q)
  <2>1. \A k \in DOMAIN t : t[k].priority \in Int
    <3>1. \A k \in DOMAIN t : t[k] \in Task
      BY <1>4
    <3> QED  BY <3>1 DEF Task, ProcessorConstants
  <2> QED  BY <1>6, <2>1 DEF Prioritised
<1>10. HeadWaits(t, s)
  <2>1. PICK f \in Bijection(DOMAIN q, DOMAIN q) : s = [i \in DOMAIN q |-> q[f[i]]]
    BY <1>9, SortedPermutes
  <2>2. f \in [DOMAIN q -> DOMAIN q]
    BY DEF Bijection, Injection
  <2>3. \A i \in DOMAIN q : s[i] = q[f[i]] /\ f[i] \in DOMAIN q /\ q[f[i]] \in DOMAIN t
    BY <1>6, <2>1, <2>2
  <2>4. 1 \in DOMAIN q
    BY <1>2, <1>6
  <2> HIDE DEF s
  <2> QED  BY <1>8, <2>3, <2>4 DEF HeadWaits
<1> HIDE DEF s
<1>11. RetriesFit(t)
  <2>1. ASSUME NEW k \in DOMAIN t PROVE Spare(t[k])
    <3>1. CASE k = Len(t)
      BY <1>2, <1>3, <1>4, <3>1 DEF Spare
    <3>2. CASE k \in DOMAIN tasks
      BY <1>4, <3>2 DEF RetriesInv, RetriesFit
    <3> QED  BY <1>5, <3>1, <3>2
  <2>2. Len(t) <= MaxTasks
    BY <1>1, <1>2, <1>4
  <2> QED  BY <1>4, <2>1, <2>2 DEF RetriesFit
<1>12. Retried(t) = Retried(tasks)
  <2>1. ASSUME NEW j \in 1..MaxRetries PROVE ~ (j <= t[Len(t)].retries)
    BY <1>3, <1>4
  <2>2. Retried(t) \subseteq Retried(tasks)
    BY <1>4, <1>5, <2>1 DEF Retried
  <2>3. Retried(tasks) \subseteq Retried(t)
    BY <1>4 DEF Retried
  <2> QED  BY <2>2, <2>3
<1>13. TakenFit(t, workerRecords)
  <2>1. \A i \in DOMAIN workerRecords : workerRecords[i].task \in Nat /\ workerRecords[i].task <= Len(tasks)
    <3>1. workerRecords \in Seq(WorkerRecord) /\ \A i \in DOMAIN workerRecords : workerRecords[i].task <= Len(tasks)
      BY DEF RetriesInv, TakenFit
    <3>2. \A i \in DOMAIN workerRecords : workerRecords[i] \in WorkerRecord
      BY <3>1
    <3> QED  BY <3>1, <3>2 DEF WorkerRecord
  <2>2. \A i \in DOMAIN workerRecords : workerRecords[i].task <= Len(t)
    BY <1>2, <1>4, <2>1
  <2> QED  BY <2>2 DEF RetriesInv, TakenFit
<1>14. RetriesFit(tasks') /\ TakenFit(tasks', workerRecords') /\ Retried(tasks') = Retried(t)
  BY <1>1, <1>10, <1>11, <1>13, WaitingHead, TakingKeepsRetries
<1> QED  BY <1>1, <1>12, <1>14 DEF RetriesInv

LEMMA IdleFits ==
    ASSUME NEW t, NEW r, TakenFit(t, r), RetriesFit(t), NEW i \in DOMAIN r
    PROVE  TakenFit(t, [r EXCEPT ![i] = TheProcessor!IdleRecord]) /\ DOMAIN [r EXCEPT ![i] = TheProcessor!IdleRecord] = DOMAIN r
<1>1. TheProcessor!IdleRecord \in WorkerRecord /\ TheProcessor!IdleRecord.task = 0
  BY DEF TheProcessor!IdleRecord, WorkerRecord
<1>2. r \in Seq(WorkerRecord) /\ (\A j \in DOMAIN r : r[j].task <= Len(t)) /\ Len(t) \in Nat
  BY LenProperties DEF TakenFit, RetriesFit
<1> DEFINE new == [r EXCEPT ![i] = TheProcessor!IdleRecord]
<1>3. new \in Seq(WorkerRecord) /\ DOMAIN new = DOMAIN r /\ \A j \in DOMAIN r : new[j] = TheProcessor!IdleRecord \/ new[j] = r[j]
  BY <1>1, <1>2
<1> HIDE DEF new
<1>4. \A j \in DOMAIN new : new[j].task <= Len(t)
  BY <1>1, <1>2, <1>3
<1>5. TakenFit(t, new) /\ DOMAIN new = DOMAIN r
  BY <1>3, <1>4 DEF TakenFit
<1> QED  BY <1>5 DEF new

LEMMA TaskSuccessKeepsRetries ==
    ASSUME ProcessorConstants, RetriesConstants, ProcessorInv, RetriesInv, NEW a \in attempts, TheProcessor!TaskSuccess(a)
    PROVE  RetriesInv'
<1> DEFINE k == a.task
           t == [tasks EXCEPT ![k].status = "COMPLETED"]
           r == [workerRecords EXCEPT ![a.record] = TheProcessor!IdleRecord]
<1>1. TheProcessor!ProcessNextTask(t, queue, r, attempts \ {a}) /\ UNCHANGED <<pool, retryTimers>>
  BY DEF TheProcessor!TaskSuccess
<1>2. k \in DOMAIN tasks /\ a.record \in DOMAIN workerRecords /\ tasks[k].status = "PROCESSING"
  BY DEF ProcessorInv, RecordsFit, TasksFit, Attempt
<1>3. RetriesFit(tasks) /\ TakenFit(tasks, workerRecords)
  BY DEF RetriesInv
<1>4. RetriesFit(t) /\ Retried(t) = Retried(tasks) /\ DOMAIN t = DOMAIN tasks /\ Len(t) = Len(tasks)
  <2> HIDE DEF k
  <2>1. "COMPLETED" \in TheProcessor!Finished /\ RetriesBut(tasks, k)
    BY <1>2, <1>3 DEF TheProcessor!Finished, RetriesFit, RetriesBut, Spare
  <2> QED  BY <1>2, <1>3, <2>1, StatusKeepsRetries DEF Marked
<1>5. TakenFit(t, r) /\ DOMAIN r = DOMAIN workerRecords
  BY <1>2, <1>3, <1>4, IdleFits DEF TakenFit
<1>6. tasks \in Seq(Task) /\ \A j \in DOMAIN tasks : j # k => t[j] = tasks[j]
  BY <1>3 DEF RetriesFit
<1>7. HeadWaits(tasks, queue) /\ \A w \in DOMAIN pool : pool[w] \in DOMAIN r
  BY <1>5, WaitingHead
<1> HIDE DEF t, r, k
<1>8. HeadWaits(t, queue)
  BY <1>2, <1>4, <1>6, <1>7 DEF HeadWaits
<1>9. RetriesFit(tasks') /\ TakenFit(tasks', workerRecords') /\ Retried(tasks') = Retried(t)
  BY <1>1, <1>4, <1>5, <1>7, <1>8, TakingKeepsRetries
<1> QED  BY <1>1, <1>4, <1>9 DEF RetriesInv

\* The retry counted is one more, of a task that had some left.
LEMMA RetryFits ==
    ASSUME RetriesConstants, ProcessorInv, RetriesInv, NEW k \in DOMAIN tasks, tasks[k].status = "PROCESSING"
    PROVE  LET t == [tasks EXCEPT ![k].retries = @ + 1]
           IN  /\ RetriesBut(t, k) /\ DOMAIN t = DOMAIN tasks /\ Len(t) = Len(tasks) /\ t[k].status = "PROCESSING"
               /\ \A j \in DOMAIN tasks : j # k => t[j] = tasks[j]
               /\ IsFiniteSet(Retried(t)) /\ Cardinality(Retried(t)) = Cardinality(Retried(tasks)) + 1
<1> DEFINE n == tasks[k].retries
           x == [tasks[k] EXCEPT !.retries = n + 1]
           t == [tasks EXCEPT ![k].retries = @ + 1]
           e == <<k, n + 1>>
           R == Retried(tasks)
<1>1. tasks \in Seq(Task) /\ DOMAIN tasks = 1..Len(tasks) /\ Len(tasks) \in Nat /\ tasks[k] \in Task
  BY LenProperties DEF RetriesInv, RetriesFit
<1>2. n \in Nat /\ n < MaxRetries /\ MaxRetries \in Nat
  BY <1>1 DEF RetriesInv, RetriesFit, Spare, TheProcessor!Finished, Task, RetriesConstants
<1>3. t = [tasks EXCEPT ![k] = x]
  OBVIOUS
<1>4. x \in Task /\ x.retries = n + 1 /\ x.status = "PROCESSING"
  <2> DEFINE y == tasks[k]
             m == n + 1
  <2>1. y \in Task /\ m \in Nat
    BY <1>1, <1>2
  <2>2. x = [y EXCEPT !.retries = m]
    OBVIOUS
  <2> HIDE DEF y, m, x
  <2>3. x \in Task /\ x.retries = m /\ x.status = y.status
    BY <2>1, <2>2 DEF Task
  <2> QED  BY <2>3 DEF m, y
<1> HIDE DEF x, t
<1>5. t \in Seq(Task) /\ DOMAIN t = DOMAIN tasks /\ Len(t) = Len(tasks) /\ t[k] = x /\ \A j \in DOMAIN tasks : j # k => t[j] = tasks[j]
  BY <1>1, <1>3, <1>4
<1>6. Retried(t) = R \cup {e}
  <2>1. ASSUME NEW j \in DOMAIN tasks, NEW i \in 1..MaxRetries PROVE (i <= t[j].retries) <=> (i <= tasks[j].retries \/ <<j, i>> = e)
    <3>1. CASE j = k
      <4>1. i <= n + 1 <=> (i <= n \/ i = n + 1)
        BY <1>2
      <4>2. t[j].retries = n + 1 /\ tasks[j].retries = n /\ (<<j, i>> = e <=> i = n + 1)
        BY <1>4, <1>5, <3>1
      <4> HIDE DEF n, e
      <4> QED  BY <4>1, <4>2
    <3>2. CASE j # k
      BY <1>5, <3>2
    <3> QED  BY <3>1, <3>2
  <2>2. e \in (DOMAIN tasks) \X (1..MaxRetries)
    BY <1>2
  <2> HIDE DEF e
  <2> QED  BY <1>5, <2>1, <2>2 DEF Retried
<1>7. e \notin R
  BY <1>2 DEF Retried
<1> HIDE DEF e
<1>8. IsFiniteSet(R) /\ Cardinality(R) \in Nat
  BY RetriedIsFinite DEF RetriesInv
<1>9. IsFiniteSet(Retried(t)) /\ Cardinality(Retried(t)) = Cardinality(R) + 1
  BY <1>6, <1>7, <1>8, FS_AddElement
<1>10. RetriesBut(t, k)
  <2>1. t[k].retries <= MaxRetries
    BY <1>2, <1>4, <1>5
  <2> QED  BY <1>5, <2>1 DEF RetriesBut, RetriesInv, RetriesFit
<1> QED  BY <1>4, <1>5, <1>9, <1>10 DEF t

LEMMA TaskErrorKeepsRetries ==
    ASSUME ProcessorConstants, RetriesConstants, ProcessorInv, RetriesInv, NEW a \in attempts, TheProcessor!TaskError(a)
    PROVE  RetriesInv'
<1> DEFINE k == a.task
           t == [tasks EXCEPT ![k].retries = @ + 1]
           back == [t EXCEPT ![k].status = "PENDING"]
           failed == [t EXCEPT ![k].status = "FAILED"]
           r == [workerRecords EXCEPT ![a.record] = TheProcessor!IdleRecord]
           put == <<k>> \o queue
           c == Cardinality(Retried(tasks))
<1>1. /\ IF t[k].retries < MaxRetries
         THEN TheProcessor!ProcessNextTask(back, put, workerRecords, attempts \ {a}) /\ retryTimers' = retryTimers + 1
         ELSE TheProcessor!ProcessNextTask(failed, queue, r, attempts \ {a}) /\ retryTimers' = retryTimers
      /\ pool' = pool
  BY DEF TheProcessor!TaskError
<1>2. k \in DOMAIN tasks /\ a.record \in DOMAIN workerRecords /\ tasks[k].status = "PROCESSING"
  BY DEF ProcessorInv, RecordsFit, TasksFit, Attempt
<1>3. /\ RetriesFit(tasks) /\ TakenFit(tasks, workerRecords) /\ retryTimers <= c /\ retryTimers \in Nat
      /\ queue \in Seq(DOMAIN tasks) /\ tasks \in Seq(Task)
  BY DEF RetriesInv, RetriesFit, ProcessorInv, TasksFit
<1>4. c \in Nat
  BY <1>3, RetriedIsFinite
<1> HIDE DEF k
<1>5. /\ RetriesBut(t, k) /\ DOMAIN t = DOMAIN tasks /\ Len(t) = Len(tasks) /\ t[k].status = "PROCESSING"
      /\ \A j \in DOMAIN tasks : j # k => t[j] = tasks[j]
      /\ IsFiniteSet(Retried(t)) /\ Cardinality(Retried(t)) = c + 1
  BY <1>2, RetryFits
<1> HIDE DEF t, c
<1>6. HeadWaits(tasks, queue) /\ \A w \in DOMAIN pool : pool[w] \in DOMAIN workerRecords
  BY WaitingHead
<1>7. CASE t[k].retries < MaxRetries
  <2>1. RetriesFit(back) /\ Retried(back) = Retried(t) /\ DOMAIN back = DOMAIN t /\ Len(back) = Len(t)
    BY <1>2, <1>5, <1>7, StatusKeepsRetries DEF Marked
  <2>2. back[k].status = "PENDING"
    <3>1. t \in Seq(Task) /\ k \in DOMAIN t
      BY <1>2, <1>5 DEF RetriesBut
    <3> QED  BY <3>1, TaskUpdated
  <2>3. put # <<>> => put[1] = k
    BY <1>2, <1>3
  <2> HIDE DEF back, put
  <2>4. HeadWaits(back, put)
    BY <1>2, <1>5, <2>1, <2>2, <2>3 DEF HeadWaits
  <2>5. TakenFit(back, workerRecords)
    BY <1>3, <1>5, <2>1 DEF TakenFit
  <2>6. TheProcessor!ProcessNextTask(back, put, workerRecords, attempts \ {a}) /\ retryTimers' = retryTimers + 1
    BY <1>1, <1>7
  <2>7. RetriesFit(tasks') /\ TakenFit(tasks', workerRecords') /\ Retried(tasks') = Retried(back)
    BY <1>6, <2>1, <2>4, <2>5, <2>6, TakingKeepsRetries
  <2>8. retryTimers' <= c + 1
    BY <1>3, <1>4, <2>6
  <2> QED  BY <1>5, <2>1, <2>7, <2>8 DEF RetriesInv
<1>8. CASE ~ (t[k].retries < MaxRetries)
  <2>1. RetriesFit(failed) /\ Retried(failed) = Retried(t) /\ DOMAIN failed = DOMAIN t /\ Len(failed) = Len(t)
    <3>1. "FAILED" \in TheProcessor!Finished
      BY DEF TheProcessor!Finished
    <3> QED  BY <1>2, <1>5, <3>1, StatusKeepsRetries DEF Marked
  <2>2. \A j \in DOMAIN tasks : j # k => failed[j] = tasks[j]
    BY <1>5
  <2> HIDE DEF failed
  <2>3. HeadWaits(failed, queue)
    BY <1>2, <1>5, <1>6, <2>1, <2>2 DEF HeadWaits
  <2>4. TakenFit(failed, r) /\ DOMAIN r = DOMAIN workerRecords
    <3>1. TakenFit(failed, workerRecords)
      BY <1>3, <1>5, <2>1 DEF TakenFit
    <3> QED  BY <1>2, <2>1, <3>1, IdleFits
  <2> HIDE DEF r
  <2>5. TheProcessor!ProcessNextTask(failed, queue, r, attempts \ {a}) /\ retryTimers' = retryTimers
    BY <1>1, <1>8
  <2>6. \A w \in DOMAIN pool : pool[w] \in DOMAIN r
    BY <1>6, <2>4
  <2>7. RetriesFit(tasks') /\ TakenFit(tasks', workerRecords') /\ Retried(tasks') = Retried(failed)
    BY <2>1, <2>3, <2>4, <2>5, <2>6, TakingKeepsRetries
  <2>8. retryTimers' <= c + 1
    BY <1>3, <1>4, <2>5
  <2> QED  BY <1>5, <2>1, <2>7, <2>8 DEF RetriesInv
<1> QED  BY <1>7, <1>8

LEMMA RestartKeepsRetries ==
    ASSUME ProcessorInv, RetriesInv, NEW w \in Workers, TheProcessor!RestartWorker(w)
    PROVE  RetriesInv'
<1> DEFINE n == Len(workerRecords)
<1>1. workerRecords' = Append(workerRecords, TheProcessor!IdleRecord) /\ UNCHANGED <<tasks, queue, attempts, retryTimers>>
  BY ProcessorCardinality DEF TheProcessor!RestartWorker
<1>2. TheProcessor!IdleRecord \in WorkerRecord /\ TheProcessor!IdleRecord.task = 0
  BY DEF TheProcessor!IdleRecord, WorkerRecord
<1>3. /\ workerRecords \in Seq(WorkerRecord) /\ n \in Nat /\ \A i \in DOMAIN workerRecords : workerRecords[i].task <= Len(tasks)
      /\ DOMAIN workerRecords = 1..n
  BY LenProperties DEF RetriesInv, TakenFit
<1>4. Len(tasks) \in Nat
  BY LenProperties DEF RetriesInv, RetriesFit
<1>5. /\ workerRecords' \in Seq(WorkerRecord) /\ DOMAIN workerRecords' = 1..(n + 1)
      /\ workerRecords'[n + 1] = TheProcessor!IdleRecord /\ \A i \in 1..n : workerRecords'[i] = workerRecords[i]
  BY <1>1, <1>2, <1>3, AppendProperties, LenProperties
<1> HIDE DEF n
<1>6. ASSUME NEW i \in 1..(n + 1) PROVE workerRecords'[i].task <= Len(tasks)
  <2>1. i \in 1..n \/ i = n + 1
    BY <1>3
  <2> QED  BY <1>2, <1>3, <1>4, <1>5, <2>1
<1>7. TakenFit(tasks', workerRecords')
  BY <1>1, <1>5, <1>6 DEF TakenFit
<1> QED  BY <1>1, <1>7 DEF RetriesInv

LEMMA DelayKeepsRetries ==
    ASSUME RetriesConstants, ProcessorInv, RetriesInv, TheProcessor!RetryDelayEnds
    PROVE  RetriesInv'
<1> DEFINE c == Cardinality(Retried(tasks))
<1>1. TheProcessor!ProcessNextTask(tasks, queue, workerRecords, attempts) /\ retryTimers' = retryTimers - 1
  BY DEF TheProcessor!RetryDelayEnds
<1>2. RetriesFit(tasks) /\ TakenFit(tasks, workerRecords) /\ retryTimers <= c /\ retryTimers \in Nat
  BY DEF RetriesInv, ProcessorInv
<1>3. c \in Nat
  BY <1>2, RetriedIsFinite
<1>4. RetriesFit(tasks') /\ TakenFit(tasks', workerRecords') /\ Retried(tasks') = Retried(tasks)
  BY <1>1, <1>2, WaitingHead, TakingKeepsRetries
<1>5. Cardinality(Retried(tasks')) = c
  BY <1>4
<1> HIDE DEF c
<1>6. retryTimers' <= c
  BY <1>1, <1>2, <1>3
<1> QED  BY <1>4, <1>5, <1>6 DEF RetriesInv

LEMMA RetriesInit ==
    ASSUME ProcessorConstants, RetriesConstants, TheProcessor!Init
    PROVE  RetriesInv
<1>1. tasks = <<>> /\ retryTimers = 0 /\ workerRecords = [i \in 1..Cardinality(Workers) |-> TheProcessor!IdleRecord]
  BY ProcessorCardinality DEF TheProcessor!Init
<1>2. ProcessorInv
  BY ProcessorInit
<1>3. MaxTasks \in Nat /\ Len(tasks) = 0 /\ DOMAIN tasks = {} /\ tasks \in Seq(Task)
  BY <1>1 DEF RetriesConstants
<1>4. RetriesFit(tasks)
  BY <1>3 DEF RetriesFit
<1>5. workerRecords \in Seq(WorkerRecord) /\ \A i \in DOMAIN workerRecords : workerRecords[i] = TheProcessor!IdleRecord
  BY <1>1, <1>2 DEF ProcessorInv, RecordsFit
<1>6. TheProcessor!IdleRecord.task = 0
  BY DEF TheProcessor!IdleRecord
<1>7. TakenFit(tasks, workerRecords)
  BY <1>3, <1>5, <1>6 DEF TakenFit
<1>8. Cardinality(Retried(tasks)) \in Nat
  BY <1>4, RetriedIsFinite
<1> QED  BY <1>1, <1>4, <1>7, <1>8 DEF RetriesInv

LEMMA RetriesStep ==
    ASSUME ProcessorConstants, RetriesConstants, ProcessorInv, RetriesInv, [TheProcessor!Next]_TheProcessor!processorVars
    PROVE  RetriesInv'
<1>1. ASSUME NEW p \in Priorities, TheProcessor!ProcessTask(p) PROVE RetriesInv'
  BY <1>1, ProcessTaskKeepsRetries
<1>2. ASSUME NEW a \in attempts, TheProcessor!TaskSuccess(a) PROVE RetriesInv'
  BY <1>2, TaskSuccessKeepsRetries
<1>3. ASSUME NEW a \in attempts, TheProcessor!TaskError(a) PROVE RetriesInv'
  BY <1>3, TaskErrorKeepsRetries
<1>4. ASSUME NEW w \in Workers, TheProcessor!RestartWorker(w) PROVE RetriesInv'
  BY <1>4, RestartKeepsRetries
<1>5. CASE TheProcessor!RetryDelayEnds
  BY <1>5, DelayKeepsRetries
<1>6. CASE TheProcessor!Stop
  BY <1>6 DEF TheProcessor!Stop, RetriesInv
<1>7. CASE UNCHANGED TheProcessor!processorVars
  BY <1>7 DEF TheProcessor!processorVars, RetriesInv
<1> QED  BY <1>1, <1>2, <1>3, <1>4, <1>5, <1>6, <1>7 DEF TheProcessor!Next

LEMMA RetriesInvSays ==
    ASSUME RetriesConstants, ProcessorInv, RetriesInv
    PROVE  TheProcessor!TypeOK
<1> DEFINE c == Cardinality(Retried(tasks))
           y == MaxTasks * MaxRetries
<1>1. RetriesFit(tasks) /\ TakenFit(tasks, workerRecords) /\ retryTimers <= c /\ retryTimers \in Nat
  BY DEF RetriesInv, ProcessorInv
<1>2. c \in Nat /\ c <= y /\ MaxTasks \in Nat /\ MaxRetries \in Nat
  BY <1>1, RetriedIsFinite DEF RetriesConstants
<1>3. y \in Nat
  BY <1>2
<1> HIDE DEF c, y
<1>4. retryTimers \in 0..y
  BY <1>1, <1>2, <1>3
<1> DEFINE L == [status : {"PENDING", "PROCESSING"} \cup TheProcessor!Finished, priority : Priorities, retries : 0..MaxRetries]
<1>5. tasks \in Seq(L)
  <2>1. tasks \in Seq(Task) /\ \A k \in DOMAIN tasks : tasks[k].retries <= MaxRetries
    BY <1>1 DEF RetriesFit, Spare
  <2>2. ASSUME NEW x \in Task, x.retries <= MaxRetries PROVE x \in L
    <3> DEFINE n == x.retries
    <3>1. n \in Nat /\ n <= MaxRetries
      BY <2>2 DEF Task
    <3> HIDE DEF n
    <3>2. n \in 0..MaxRetries
      BY <1>2, <3>1
    <3> QED  BY <2>2, <3>2 DEF Task, n
  <2> HIDE DEF L
  <2>3. \A k \in DOMAIN tasks : tasks[k] \in L
    BY <2>1, <2>2
  <2> QED  BY <2>1, <2>3
<1>6. ASSUME NEW i \in DOMAIN workerRecords
      PROVE  workerRecords[i].status \in {"IDLE", "BUSY"} /\ workerRecords[i].task \in 0..Len(tasks)
  <2> DEFINE x == workerRecords[i]
             m == x.task
             n == Len(tasks)
  <2>1. x \in WorkerRecord /\ m <= n
    BY <1>1 DEF TakenFit
  <2>2. x.status \in {"IDLE", "BUSY"} /\ m \in Nat
    BY <2>1 DEF WorkerRecord
  <2>3. n \in Nat
    BY <1>1, LenProperties DEF RetriesFit
  <2> HIDE DEF m, n
  <2>4. m \in 0..n
    BY <2>1, <2>2, <2>3
  <2> QED  BY <2>2, <2>4 DEF m, n
<1>7. queue \in Seq(DOMAIN tasks) /\ TheProcessor!IsMap(pool, Workers, DOMAIN workerRecords)
      /\ attempts \subseteq [task : DOMAIN tasks, record : DOMAIN workerRecords]
  BY DEF ProcessorInv, TasksFit, RecordsFit, TheProcessor!IsMap, Attempt
<1> QED  BY <1>4, <1>5, <1>6, <1>7 DEF TheProcessor!TypeOK, y

\* ComplianceReporting.  Reports are only added to, and the one that is given a
\* status keeps its score.
LEMMA ReportingSum == \A f : TheReporting!Sum(f) = Sum(f)
BY DEF Sum, TheReporting!Sum

ReportOf(type, score, violations, overall, status, approved) ==
    [type |-> type, score |-> score, violations |-> violations, overallStatus |-> overall,
     status |-> status, approved |-> approved]
IsReport(x) ==
    \E type, score, violations, overall, status : \E approved \in BOOLEAN :
        x = ReportOf(type, score, violations, overall, status, approved)

ReportsShaped == (\E S : reports \in Seq(S)) /\ \A i \in DOMAIN reports : IsReport(reports[i])

ReportTypes == {"COMPREHENSIVE", "KYC", "AML", "AUDIT"}
ReportKept(x, y) ==
    /\ x.approved => y.approved
    /\ y.score = x.score /\ y.violations = x.violations /\ y.type = x.type /\ y.overallStatus = x.overallStatus
Filed == \A i \in DOMAIN reports' : i \in DOMAIN reports \/ \E type \in ReportTypes : reports'[i] = TheReporting!Report(type)
KeptReports == \A i \in DOMAIN reports : ReportKept(reports[i], reports'[i])

LEMMA ReportIsReport == ASSUME NEW type PROVE IsReport(TheReporting!Report(type))
BY DEF IsReport, ReportOf, TheReporting!Report

LEMMA StatusGiven ==
    ASSUME NEW x, IsReport(x), NEW s, NEW by \in BOOLEAN,
           NEW y, y = [x EXCEPT !.status = s, !.approved = x.approved \/ by]
    PROVE  IsReport(y) /\ ReportKept(x, y)
<1>1. PICK type, score, violations, overall, status : \E approved \in BOOLEAN :
          x = ReportOf(type, score, violations, overall, status, approved)
  BY DEF IsReport
<1>2. PICK approved \in BOOLEAN : x = ReportOf(type, score, violations, overall, status, approved)
  BY <1>1
<1>3. y = ReportOf(type, score, violations, overall, s, approved \/ by)
  BY <1>2 DEF ReportOf
<1>4. (approved \/ by) \in BOOLEAN
  OBVIOUS
<1>5. IsReport(y)
  BY <1>3, <1>4 DEF IsReport
<1>6. /\ x.score = score /\ y.score = score /\ x.violations = violations /\ y.violations = violations
      /\ x.type = type /\ y.type = type /\ x.overallStatus = overall /\ y.overallStatus = overall
  BY <1>2, <1>3 DEF ReportOf
<1>7. x.approved = approved /\ y.approved = (approved \/ by)
  BY <1>2, <1>3 DEF ReportOf
<1>8. x.approved => y.approved
  BY <1>7
<1> QED  BY <1>5, <1>6, <1>8 DEF ReportKept

LEMMA FileKeeps ==
    ASSUME ReportsShaped, NEW n \in Nat, NEW f, DOMAIN f = 1..n, f = [i \in 1..n |-> f[i]],
           \A i \in 1..n : IsReport(f[i]) /\ \E type \in ReportTypes : f[i] = TheReporting!Report(type), reports' = reports \o f
    PROVE  ReportsShaped' /\ KeptReports /\ Filed
<1>1. PICK S : reports \in Seq(S)
  BY DEF ReportsShaped
<1> DEFINE all == S \cup {f[i] : i \in 1..n}
<1>2. reports \in Seq(all) /\ f \in Seq(all)
  <2>1. reports \in Seq(all)
    BY <1>1
  <2>2. \A i \in 1..n : f[i] \in all
    OBVIOUS
  <2> HIDE DEF all
  <2>3. f \in [1..n -> all]
    BY <2>2
  <2>4. f \in Seq(all)
    BY <2>3
  <2> QED  BY <2>1, <2>4
<1>3. Len(f) = n /\ Len(reports) \in Nat /\ DOMAIN reports = 1..Len(reports)
  BY <1>2
<1> HIDE DEF all
<1>4. /\ reports' \in Seq(all) /\ DOMAIN reports' = 1..(Len(reports) + n)
      /\ \A i \in DOMAIN reports : reports'[i] = reports[i]
      /\ \A i \in DOMAIN reports' \ DOMAIN reports : i - Len(reports) \in 1..n /\ reports'[i] = f[i - Len(reports)]
  BY <1>2, <1>3
<1>5. \A i \in DOMAIN reports' : IsReport(reports'[i])
  BY <1>4 DEF ReportsShaped
<1>6. ReportsShaped'
  BY <1>4, <1>5 DEF ReportsShaped
<1>7. KeptReports
  BY <1>4 DEF KeptReports, ReportKept
<1>8. Filed
  BY <1>4 DEF Filed
<1> QED  BY <1>6, <1>7, <1>8

LEMMA ShapedInit == ASSUME TheReporting!Init PROVE ReportsShaped
BY DEF TheReporting!Init, ReportsShaped

LEMMA ShapedStep ==
    ASSUME ReportsShaped, [TheReporting!Next]_TheReporting!complianceVars
    PROVE  ReportsShaped' /\ KeptReports /\ Filed
<1>1. CASE UNCHANGED reports
  BY <1>1 DEF ReportsShaped, KeptReports, ReportKept, Filed
<1>2. ASSUME NEW type \in ReportTypes, TheReporting!File(<<type>>)
      PROVE  ReportsShaped' /\ KeptReports /\ Filed
  <2> DEFINE f == [i \in 1..1 |-> TheReporting!Report(<<type>>[i])]
  <2>1. reports' = reports \o f
    BY <1>2 DEF TheReporting!File
  <2>2. /\ DOMAIN f = 1..1 /\ f = [i \in 1..1 |-> f[i]]
        /\ \A i \in 1..1 : IsReport(f[i]) /\ \E t \in ReportTypes : f[i] = TheReporting!Report(t)
    BY ReportIsReport
  <2> HIDE DEF f
  <2> QED  BY <2>1, <2>2, FileKeeps
<1>3. ASSUME TheReporting!File(<<"KYC", "AML", "AUDIT">>)
      PROVE  ReportsShaped' /\ KeptReports /\ Filed
  <2> DEFINE f == [i \in 1..3 |-> TheReporting!Report(<<"KYC", "AML", "AUDIT">>[i])]
  <2>1. reports' = reports \o f
    BY <1>3 DEF TheReporting!File
  <2>2. /\ DOMAIN f = 1..3 /\ f = [i \in 1..3 |-> f[i]]
        /\ \A i \in 1..3 : IsReport(f[i]) /\ \E t \in ReportTypes : f[i] = TheReporting!Report(t)
    <3>1. \A i \in 1..3 : <<"KYC", "AML", "AUDIT">>[i] \in ReportTypes
      BY DEF ReportTypes
    <3> QED  BY <3>1, ReportIsReport
  <2> HIDE DEF f
  <2> QED  BY <2>1, <2>2, FileKeeps
<1>4. ASSUME NEW i \in DOMAIN reports, NEW s, NEW by \in BOOLEAN, TheReporting!UpdateReportStatus(i, s, by)
      PROVE  ReportsShaped' /\ KeptReports /\ Filed
  <2> DEFINE y == [reports[i] EXCEPT !.status = s, !.approved = reports[i].approved \/ by]
  <2>1. reports' = [reports EXCEPT ![i] = y]
    BY <1>4 DEF TheReporting!UpdateReportStatus
  <2>2. IsReport(reports[i])
    BY DEF ReportsShaped
  <2>3. IsReport(y) /\ ReportKept(reports[i], y)
    BY <2>2, StatusGiven
  <2> HIDE DEF y
  <2>4. DOMAIN reports' = DOMAIN reports /\ \A j \in DOMAIN reports : reports'[j] = IF j = i THEN y ELSE reports[j]
    BY <2>1
  <2>5. \E S : reports' \in Seq(S)
    <3>1. PICK S : reports \in Seq(S)
      BY DEF ReportsShaped
    <3>2. reports \in Seq(S \cup {y})
      BY <3>1
    <3>3. reports' \in Seq(S \cup {y})
      BY <2>1, <3>2
    <3> QED  BY <3>3
  <2>6. ReportsShaped'
    BY <2>3, <2>4, <2>5 DEF ReportsShaped
  <2>7. KeptReports /\ Filed
    BY <2>3, <2>4 DEF KeptReports, ReportKept, Filed
  <2> QED  BY <2>6, <2>7
<1>5. CASE TheReporting!Next
  <2>1. CASE TheReporting!KYCSubmitted \/ TheReporting!AlertCreated \/ TheReporting!AlertResolved \/ TheReporting!RefreshDashboard \/ TheReporting!SwitchRefreshing \/ TheReporting!StopReporting
    BY <1>1, <2>1 DEF TheReporting!KYCSubmitted, TheReporting!AlertCreated, TheReporting!AlertResolved, TheReporting!RefreshDashboard, TheReporting!SwitchRefreshing, TheReporting!StopReporting
  <2>2. ASSUME NEW outcome, TheReporting!KYCFinished(outcome) \/ TheReporting!KYCUpdated(outcome)
        PROVE  ReportsShaped' /\ KeptReports /\ Filed
    BY <1>1, <2>2 DEF TheReporting!KYCFinished, TheReporting!KYCUpdated, TheReporting!Decide
  <2>3. ASSUME NEW s, TheReporting!ScheduleReport(s) \/ TheReporting!CancelScheduledReport(s)
        PROVE  ReportsShaped' /\ KeptReports /\ Filed
    BY <1>1, <2>3 DEF TheReporting!ScheduleReport, TheReporting!CancelScheduledReport
  <2>4. ASSUME NEW type \in ReportTypes, TheReporting!GenerateReport(type) \/ TheReporting!ScheduledReport(type)
        PROVE  ReportsShaped' /\ KeptReports /\ Filed
    BY <1>2, <2>4 DEF TheReporting!GenerateReport, TheReporting!ScheduledReport
  <2>5. CASE TheReporting!DailyReports
    BY <1>3, <2>5 DEF TheReporting!DailyReports
  <2> QED  BY <1>4, <1>5, <2>1, <2>2, <2>3, <2>4, <2>5 DEF TheReporting!Next, ReportTypes
<1> QED  BY <1>1, <1>5 DEF TheReporting!complianceVars

\* What is filed is counted, at once, where it is shown; what takes the
\* transactions in has no score.
ReportingConstants == MaxFiled \in Nat
KYCStats == [total : 0..MaxFiled, verified : Nat, rejected : Nat]
AMLStats == [total : 0..MaxFiled, resolved : Nat]
StatsKept ==
    /\ kycStats \in KYCStats /\ kycStats.verified + kycStats.rejected <= kycStats.total
    /\ amlStats \in AMLStats /\ amlStats.resolved <= amlStats.total
ShownKept ==
    /\ dashboard \in [kyc : KYCStats, aml : AMLStats, score : {TheReporting!NoNumber}]
    /\ dashboard.kyc.total = kycStats.total /\ dashboard.aml.total = amlStats.total
    /\ dashboard.kyc.verified <= kycStats.verified /\ dashboard.kyc.rejected <= kycStats.rejected
    /\ dashboard.aml.resolved <= amlStats.resolved
SwitchesKept == schedules \subseteq ScheduleIds /\ daily \in BOOLEAN /\ refreshing \in BOOLEAN
Says(x) ==
    /\ x.score \in TheReporting!NoNumber..100 /\ x.violations \in 0..(2 * MaxFiled)
    /\ x.type \in {"AML", "COMPREHENSIVE"} =>
          x.score = TheReporting!NoNumber /\ x.overallStatus = IF x.type = "AML" THEN "COMPLIANT" ELSE "NON_COMPLIANT"
ReportsSay == \A i \in DOMAIN reports : Says(reports[i])

ReportingInv == ReportsShaped /\ StatsKept /\ ShownKept /\ SwitchesKept /\ ReportsSay

LEMMA PercentIs == ASSUME NEW p \in Nat, NEW w \in Nat, p <= w PROVE TheReporting!Percent(p, w) \in TheReporting!NoNumber..100
<1>1. CASE w = 0
  BY <1>1 DEF TheReporting!Percent, TheReporting!NoNumber
<1>2. CASE w # 0
  <2> DEFINE q == (p * 100) \div w
  <2>1. p * 100 \in Nat /\ p * 100 <= w * 100 /\ w \in Nat \ {0}
    BY <1>2
  <2> DEFINE a == p * 100
  <2> HIDE DEF a
  <2>2. (a \div w) \in Nat /\ (a \div w) * w <= a
    BY <2>1 DEF a
  <2>3. q \in Nat /\ q * w <= w * 100
    BY <2>1, <2>2 DEF a
  <2> HIDE DEF q
  <2>4. q <= 100
    <3> SUFFICES ASSUME q >= 101 PROVE FALSE
      BY <2>3
    <3>1. q * w >= 101 * w
      BY <2>1, <2>3
    <3> QED  BY <2>1, <2>3, <3>1
  <2> QED  BY <1>2, <2>3, <2>4 DEF TheReporting!Percent, TheReporting!NoNumber, q
<1> QED  BY <1>1, <1>2

LEMMA MeanOfNone == ASSUME NEW scores, NEW i \in DOMAIN scores, scores[i] = TheReporting!NoNumber PROVE TheReporting!Mean(scores) = TheReporting!NoNumber
BY ReportingSum DEF TheReporting!Mean

LEMMA NoScoreShown == ASSUME NEW kyc PROVE TheReporting!DashboardScore(kyc) = TheReporting!NoNumber
<1> DEFINE s == <<IF kyc.total = 0 THEN 100 ELSE TheReporting!Percent(kyc.verified, kyc.total), TheReporting!NoNumber, 100, 100>>
<1>1. TheReporting!DashboardScore(kyc) = TheReporting!Mean(s)
  BY DEF TheReporting!DashboardScore, TheReporting!TransactionScore
<1>2. 2 \in DOMAIN s /\ s[2] = TheReporting!NoNumber
  OBVIOUS
<1> HIDE DEF s
<1> QED  BY <1>1, <1>2, MeanOfNone

LEMMA ReportSays ==
    ASSUME ReportingConstants, StatsKept, NEW type \in ReportTypes
    PROVE  Says(TheReporting!Report(type))
<1> DEFINE x == TheReporting!Report(type)
           m == TheReporting!Mean(<<TheReporting!Percent(kycStats.verified, kycStats.total), TheReporting!TransactionScore, 100>>)
<1>1. /\ kycStats.verified \in Nat /\ kycStats.total \in Nat /\ kycStats.verified <= kycStats.total
      /\ kycStats.rejected \in 0..MaxFiled /\ amlStats.total \in 0..MaxFiled
  BY DEF StatsKept, KYCStats, AMLStats, ReportingConstants
<1>2. TheReporting!Percent(kycStats.verified, kycStats.total) \in TheReporting!NoNumber..100
  BY <1>1, PercentIs
<1>3. m = TheReporting!NoNumber
  <2> DEFINE s == <<TheReporting!Percent(kycStats.verified, kycStats.total), TheReporting!TransactionScore, 100>>
  <2>1. 2 \in DOMAIN s /\ s[2] = TheReporting!NoNumber
    BY DEF TheReporting!TransactionScore
  <2> HIDE DEF s
  <2> QED  BY <2>1, MeanOfNone DEF s
<1>4. x.type = type /\ x.score = TheReporting!Score(type) /\ x.violations = TheReporting!ViolationsCount(type) /\ x.overallStatus = TheReporting!OverallStatus(type, TheReporting!Score(type))
  BY DEF TheReporting!Report
<1>5. TheReporting!Score(type) = IF type = "KYC" THEN TheReporting!Percent(kycStats.verified, kycStats.total) ELSE IF type = "AUDIT" THEN 100 ELSE TheReporting!NoNumber
  BY <1>3 DEF TheReporting!Score, TheReporting!TransactionScore, ReportTypes
<1>6. TheReporting!ViolationsCount(type) \in 0..(2 * MaxFiled)
  BY <1>1 DEF TheReporting!ViolationsCount, ReportingConstants
<1> HIDE DEF x, m
<1>7. x.score \in TheReporting!NoNumber..100
  BY <1>2, <1>4, <1>5 DEF TheReporting!NoNumber
<1>8. type \in {"AML", "COMPREHENSIVE"} => x.score = TheReporting!NoNumber /\ x.overallStatus = IF type = "AML" THEN "COMPLIANT" ELSE "NON_COMPLIANT"
  BY <1>4, <1>5 DEF TheReporting!OverallStatus, TheReporting!NoNumber
<1>9. Says(x)
  BY <1>4, <1>6, <1>7, <1>8 DEF Says
<1> QED  BY <1>9 DEF x

LEMMA ReportingInit == ASSUME ReportingConstants, TheReporting!Init PROVE ReportingInv
<1>1. kycStats \in KYCStats /\ amlStats \in AMLStats
  BY DEF TheReporting!Init, KYCStats, AMLStats, ReportingConstants
<1>2. StatsKept
  BY <1>1 DEF TheReporting!Init, StatsKept
<1>3. ShownKept
  <2>1. dashboard = [kyc |-> kycStats, aml |-> amlStats, score |-> TheReporting!NoNumber]
    BY NoScoreShown DEF TheReporting!Init, TheReporting!Collected
  <2> QED  BY <1>1, <1>2, <2>1 DEF ShownKept, KYCStats, AMLStats
<1>4. SwitchesKept /\ ReportsSay
  BY DEF TheReporting!Init, SwitchesKept, ReportsSay
<1> QED  BY <1>2, <1>3, <1>4, ShapedInit DEF ReportingInv

LEMMA ReportingStep ==
    ASSUME ReportingConstants, ReportingInv, [TheReporting!Next]_TheReporting!complianceVars
    PROVE  ReportingInv' /\ KeptReports
<1>0. ReportsShaped /\ StatsKept /\ ShownKept /\ SwitchesKept /\ ReportsSay
  BY DEF ReportingInv
<1>1. ReportsShaped' /\ KeptReports /\ Filed
  BY <1>0, ShapedStep
<1>2. ReportsSay'
  <2> SUFFICES ASSUME NEW i \in DOMAIN reports' PROVE Says(reports'[i])
    BY DEF ReportsSay, Says
  <2>1. CASE i \in DOMAIN reports
    <3> DEFINE x == reports[i]
               y == reports'[i]
    <3>1. ReportKept(x, y) /\ Says(x)
      BY <1>0, <1>1, <2>1 DEF KeptReports, ReportsSay
    <3> HIDE DEF x, y
    <3>2. Says(y)
      BY <3>1 DEF ReportKept, Says
    <3> QED  BY <3>2 DEF y
  <2>2. CASE \E type \in ReportTypes : reports'[i] = TheReporting!Report(type)
    BY <1>0, <2>2, ReportSays
  <2> QED  BY <1>1, <2>1, <2>2 DEF Filed
<1>3. ASSUME UNCHANGED <<kycStats, amlStats>> PROVE StatsKept'
  BY <1>0, <1>3 DEF StatsKept, KYCStats, AMLStats
<1>4. ASSUME UNCHANGED <<kycStats, amlStats, dashboard>> PROVE ShownKept'
  BY <1>0, <1>4 DEF ShownKept, KYCStats, AMLStats
<1>5. ASSUME UNCHANGED <<schedules, daily, refreshing>> PROVE SwitchesKept'
  BY <1>0, <1>5 DEF SwitchesKept
<1>6. /\ kycStats \in KYCStats /\ amlStats \in AMLStats /\ MaxFiled \in Nat
      /\ kycStats.total \in Nat /\ kycStats.verified \in Nat /\ kycStats.rejected \in Nat /\ amlStats.total \in Nat /\ amlStats.resolved \in Nat
  BY <1>0 DEF StatsKept, KYCStats, AMLStats, ReportingConstants
<1>7. /\ dashboard = [kyc |-> dashboard.kyc, aml |-> dashboard.aml, score |-> TheReporting!NoNumber]
      /\ dashboard.kyc \in KYCStats /\ dashboard.aml \in AMLStats
  BY <1>0 DEF ShownKept
<1>8. ASSUME NEW outcome \in {"verified", "rejected"}, TheReporting!Decide(outcome), dashboard' = [dashboard EXCEPT !.kyc = kycStats'] \/ UNCHANGED dashboard
      PROVE  StatsKept' /\ ShownKept' /\ SwitchesKept'
  <2>1. /\ kycStats' \in KYCStats /\ kycStats'.total = kycStats.total
        /\ kycStats.verified <= kycStats'.verified /\ kycStats.rejected <= kycStats'.rejected
        /\ kycStats'.verified + kycStats'.rejected <= kycStats'.total
    <3>1. kycStats.verified + kycStats.rejected < kycStats.total
      BY <1>8 DEF TheReporting!Decide
    <3>2. CASE outcome = "verified"
      <4>1. kycStats' = [kycStats EXCEPT !.verified = kycStats.verified + 1]
        BY <1>8, <3>2 DEF TheReporting!Decide
      <4> QED  BY <1>6, <3>1, <4>1 DEF KYCStats
    <3>3. CASE outcome = "rejected"
      <4>1. kycStats' = [kycStats EXCEPT !.rejected = kycStats.rejected + 1]
        BY <1>8, <3>3 DEF TheReporting!Decide
      <4> QED  BY <1>6, <3>1, <4>1 DEF KYCStats
    <3> QED  BY <3>2, <3>3
  <2>2. amlStats' = amlStats /\ UNCHANGED <<schedules, daily, refreshing>>
    BY <1>8 DEF TheReporting!Decide
  <2>3. StatsKept'
    BY <1>0, <2>1, <2>2 DEF StatsKept, KYCStats, AMLStats
  <2>4. CASE UNCHANGED dashboard
    <3>1. ShownKept'
      BY <1>0, <1>6, <2>1, <2>2, <2>4 DEF ShownKept, KYCStats, AMLStats
    <3> QED  BY <1>5, <2>2, <2>3, <3>1
  <2>5. CASE dashboard' = [dashboard EXCEPT !.kyc = kycStats']
    <3>1. dashboard' = [kyc |-> kycStats', aml |-> dashboard.aml, score |-> TheReporting!NoNumber]
      BY <1>7, <2>5
    <3>2. ShownKept'
      <4>1. kycStats'.verified \in Nat /\ kycStats'.rejected \in Nat
        BY <2>1 DEF KYCStats
      <4> QED  BY <1>0, <1>7, <2>1, <2>2, <3>1, <4>1 DEF ShownKept, KYCStats, AMLStats
    <3> QED  BY <1>5, <2>2, <2>3, <3>2
  <2> QED  BY <1>8, <2>4, <2>5
<1>9. CASE TheReporting!KYCSubmitted
  <2>1. /\ kycStats' = [kycStats EXCEPT !.total = kycStats.total + 1] /\ kycStats.total < MaxFiled
        /\ dashboard' = [dashboard EXCEPT !.kyc = kycStats'] /\ UNCHANGED <<amlStats, schedules, daily, refreshing>>
    BY <1>9 DEF TheReporting!KYCSubmitted
  <2>2. /\ kycStats' \in KYCStats /\ kycStats'.total = kycStats.total + 1
        /\ kycStats'.verified = kycStats.verified /\ kycStats'.rejected = kycStats.rejected
    BY <1>6, <2>1 DEF KYCStats
  <2>3. StatsKept'
    BY <1>0, <1>6, <2>1, <2>2 DEF StatsKept, KYCStats, AMLStats
  <2>4. dashboard' = [kyc |-> kycStats', aml |-> dashboard.aml, score |-> TheReporting!NoNumber]
    BY <1>7, <2>1
  <2>5. ShownKept'
    BY <1>0, <1>6, <1>7, <2>1, <2>2, <2>4 DEF ShownKept, KYCStats, AMLStats
  <2> QED  BY <1>1, <1>2, <1>5, <2>1, <2>3, <2>5 DEF ReportingInv
<1>10. CASE TheReporting!AlertCreated
  <2>1. /\ amlStats' = [amlStats EXCEPT !.total = amlStats.total + 1] /\ amlStats.total < MaxFiled
        /\ dashboard' = [dashboard EXCEPT !.aml = amlStats'] /\ UNCHANGED <<kycStats, schedules, daily, refreshing>>
    BY <1>10 DEF TheReporting!AlertCreated
  <2>2. amlStats' \in AMLStats /\ amlStats'.total = amlStats.total + 1 /\ amlStats'.resolved = amlStats.resolved
    BY <1>6, <2>1 DEF AMLStats
  <2>3. StatsKept'
    BY <1>0, <1>6, <2>1, <2>2 DEF StatsKept, KYCStats, AMLStats
  <2>4. dashboard' = [kyc |-> dashboard.kyc, aml |-> amlStats', score |-> TheReporting!NoNumber]
    BY <1>7, <2>1
  <2>5. ShownKept'
    BY <1>0, <1>6, <1>7, <2>1, <2>2, <2>4 DEF ShownKept, KYCStats, AMLStats
  <2> QED  BY <1>1, <1>2, <1>5, <2>1, <2>3, <2>5 DEF ReportingInv
<1>11. CASE TheReporting!AlertResolved
  <2>1. /\ amlStats' = [amlStats EXCEPT !.resolved = amlStats.resolved + 1] /\ amlStats.resolved < amlStats.total
        /\ UNCHANGED <<kycStats, dashboard, schedules, daily, refreshing>>
    BY <1>11 DEF TheReporting!AlertResolved
  <2>2. amlStats' \in AMLStats /\ amlStats'.total = amlStats.total /\ amlStats'.resolved = amlStats.resolved + 1
    BY <1>6, <2>1 DEF AMLStats
  <2>3. StatsKept'
    BY <1>0, <1>6, <2>1, <2>2 DEF StatsKept, KYCStats, AMLStats
  <2>4. ShownKept'
    BY <1>0, <1>6, <1>7, <2>1, <2>2 DEF ShownKept, KYCStats, AMLStats
  <2> QED  BY <1>1, <1>2, <1>5, <2>1, <2>3, <2>4 DEF ReportingInv
<1>12. CASE TheReporting!RefreshDashboard
  <2>1. dashboard' = [kyc |-> kycStats, aml |-> amlStats, score |-> TheReporting!NoNumber] /\ UNCHANGED <<kycStats, amlStats, schedules, daily, refreshing>>
    BY <1>12, NoScoreShown DEF TheReporting!RefreshDashboard, TheReporting!Collected
  <2>2. ShownKept'
    BY <1>6, <2>1 DEF ShownKept, KYCStats, AMLStats
  <2> QED  BY <1>1, <1>2, <1>3, <1>5, <2>1, <2>2 DEF ReportingInv
<1>13. ASSUME NEW types, TheReporting!File(types) PROVE ReportingInv'
  <2>1. dashboard' = [dashboard EXCEPT !.score = TheReporting!NoNumber] \/ dashboard' = dashboard
    BY <1>13, NoScoreShown DEF TheReporting!File
  <2>2. dashboard' = dashboard
    BY <1>7, <2>1
  <2>3. UNCHANGED <<kycStats, amlStats, dashboard, schedules, daily, refreshing>>
    BY <1>13, <2>2 DEF TheReporting!File
  <2> QED  BY <1>1, <1>2, <1>3, <1>4, <1>5, <2>3 DEF ReportingInv
<1>14. CASE UNCHANGED TheReporting!complianceVars
  BY <1>1, <1>2, <1>3, <1>4, <1>5, <1>14 DEF TheReporting!complianceVars, ReportingInv
<1>15. ASSUME UNCHANGED <<kycStats, amlStats, dashboard>>, SwitchesKept' PROVE ReportingInv'
  BY <1>1, <1>2, <1>3, <1>4, <1>15 DEF ReportingInv
<1>16. CASE TheReporting!Next
  <2>1. ASSUME NEW outcome \in {"verified", "rejected"}, TheReporting!KYCFinished(outcome) \/ TheReporting!KYCUpdated(outcome) PROVE ReportingInv'
    BY <1>1, <1>2, <1>8, <2>1 DEF TheReporting!KYCFinished, TheReporting!KYCUpdated, ReportingInv
  <2>2. CASE TheReporting!SwitchRefreshing \/ TheReporting!StopReporting
    <3>1. SwitchesKept'
      BY <1>0, <2>2 DEF TheReporting!SwitchRefreshing, TheReporting!StopReporting, SwitchesKept
    <3>2. UNCHANGED <<kycStats, amlStats, dashboard>>
      BY <2>2 DEF TheReporting!SwitchRefreshing, TheReporting!StopReporting
    <3> QED  BY <1>1, <1>15, <3>1, <3>2
  <2>3. ASSUME NEW type, TheReporting!GenerateReport(type) \/ TheReporting!ScheduledReport(type) PROVE ReportingInv'
    BY <1>13, <2>3 DEF TheReporting!GenerateReport, TheReporting!ScheduledReport
  <2>4. CASE TheReporting!DailyReports
    <3> DEFINE three == <<"KYC", "AML", "AUDIT">>
    <3>1. TheReporting!File(three)
      BY <2>4 DEF TheReporting!DailyReports
    <3> HIDE DEF three
    <3> QED  BY <1>1, <1>13, <3>1
  <2>5. ASSUME NEW i, NEW s, NEW by, TheReporting!UpdateReportStatus(i, s, by) PROVE ReportingInv'
    BY <1>5, <1>15, <2>5 DEF TheReporting!UpdateReportStatus
  <2>6. ASSUME NEW s \in ScheduleIds, TheReporting!ScheduleReport(s) \/ TheReporting!CancelScheduledReport(s) PROVE ReportingInv'
    <3>1. SwitchesKept'
      BY <1>0, <2>6 DEF TheReporting!ScheduleReport, TheReporting!CancelScheduledReport, SwitchesKept
    <3> QED  BY <1>15, <2>6, <3>1 DEF TheReporting!ScheduleReport, TheReporting!CancelScheduledReport
  <2> QED  BY <1>1, <1>9, <1>10, <1>11, <1>12, <1>16, <2>1, <2>2, <2>3, <2>4, <2>5, <2>6 DEF TheReporting!Next
<1> QED  BY <1>1, <1>14, <1>16

LEMMA ReportingInvSays ==
    ASSUME ReportingConstants, ReportingInv
    PROVE  TheReporting!TypeOK /\ TheReporting!DashboardCountsAll /\ TheReporting!TransactionsUnscored
<1>0. StatsKept /\ ShownKept /\ SwitchesKept /\ ReportsSay
  BY DEF ReportingInv
<1>1. TheReporting!TypeOK
  BY <1>0 DEF TheReporting!TypeOK, SwitchesKept, ShownKept, ReportsSay, Says, TheReporting!NoNumber
<1>2. TheReporting!DashboardCountsAll
  BY <1>0 DEF TheReporting!DashboardCountsAll, ShownKept
<1>3. TheReporting!TransactionsUnscored
  <2>1. TheReporting!DashboardStatus(dashboard.score) = "POOR"
    <3>1. dashboard.score = TheReporting!NoNumber
      BY <1>0 DEF ShownKept
    <3> QED  BY <3>1 DEF TheReporting!DashboardStatus, TheReporting!NoNumber
  <2>2. ASSUME NEW i \in DOMAIN reports, reports[i].type \in {"AML", "COMPREHENSIVE"}
        PROVE  /\ reports[i].score = TheReporting!NoNumber
               /\ reports[i].overallStatus = IF reports[i].type = "AML" THEN "COMPLIANT" ELSE "NON_COMPLIANT"
               /\ TheReporting!OverallComplianceScore = TheReporting!NoNumber
    <3>1. /\ reports[i].score = TheReporting!NoNumber
          /\ reports[i].overallStatus = IF reports[i].type = "AML" THEN "COMPLIANT" ELSE "NON_COMPLIANT"
      BY <1>0, <2>2 DEF ReportsSay, Says
    <3> DEFINE scores == [j \in DOMAIN reports |-> reports[j].score]
    <3>2. i \in DOMAIN scores /\ scores[i] = TheReporting!NoNumber /\ reports # <<>>
      BY <3>1
    <3> HIDE DEF scores
    <3>3. TheReporting!Mean(scores) = TheReporting!NoNumber
      BY <3>2, MeanOfNone
    <3> QED  BY <3>1, <3>2, <3>3 DEF TheReporting!OverallComplianceScore, scores
  <2>3. TheReporting!DetermineRiskLevel(TheReporting!NoNumber) = "CRITICAL"
    BY DEF TheReporting!DetermineRiskLevel, TheReporting!NoNumber
  <2> QED  BY <2>1, <2>2, <2>3 DEF TheReporting!TransactionsUnscored
<1> QED  BY <1>1, <1>2, <1>3

-----------------------------------------------------------------------------
\* ShardingManager: whoever marks a shard as rebalancing waits for it.
ShardsConstants == ShardCount \in Nat /\ ReplicationFactor \in Nat \ {0} /\ Loads \subseteq Int

ShardType == [nodes : SUBSET ShardNodes, status : {"ACTIVE", "OFFLINE", "REBALANCING"},
              load : Int, synced : 0..(ReplicationFactor - 1)]

ShardsInv ==
    /\ shards \in [TheShards!ShardIds -> ShardType]
    /\ TheShards!IsMap(routingTable, ShardNodes, TheShards!ShardIds)
    /\ TheShards!IsMap(sweeps, 1..MaxSweeps, TheShards!ShardIds)
    /\ TheShards!RoutedIsMember
    /\ TheShards!RebalancingEnds

LEMMA FirstShard ==
    ASSUME ShardsConstants, NEW S, S \subseteq TheShards!ShardIds, S # {}
    PROVE  TheShards!Min(S) \in S
<1>1. \E x \in S : \A y \in S : x <= y
  <2>1. S \subseteq Nat
    BY DEF ShardsConstants, TheShards!ShardIds
  <2>2. \E x \in S : \A y \in S : x <= y
    BY <2>1, LeastNatural
  <2> QED  BY <2>2
<1> QED  BY <1>1 DEF TheShards!Min

\* A call that goes on from shards sh: what it leaves marked it waits for.
LEMMA ProceedKeeps ==
    ASSUME ShardsConstants, ShardsInv, NEW call \in 1..MaxSweeps, NEW from, NEW sh \in [TheShards!ShardIds -> ShardType],
           \A s \in TheShards!ShardIds : sh[s].nodes = shards[s].nodes,
           \A s \in TheShards!ShardIds : sh[s].status = "REBALANCING" => \E c \in DOMAIN sweeps \ {call} : sweeps[c] = s,
           TheShards!Proceed(call, from, sh), UNCHANGED routingTable
    PROVE  ShardsInv'
<1> DEFINE next == {s \in TheShards!ShardIds : s >= from /\ sh[s].load > TheShards!Overloaded}
<1>1. CASE next = {}
  <2>1. shards' = sh /\ sweeps' = TheShards!Drop(sweeps, {call})
    BY <1>1 DEF TheShards!Proceed
  <2>2. DOMAIN sweeps' = DOMAIN sweeps \ {call} /\ \A c \in DOMAIN sweeps' : sweeps'[c] = sweeps[c]
    BY <2>1 DEF TheShards!Drop
  <2> QED  BY <2>1, <2>2 DEF ShardsInv, TheShards!IsMap, TheShards!RoutedIsMember, TheShards!RebalancingEnds
<1>2. CASE next # {}
  <2>1. PICK m \in TheShards!ShardIds : m = TheShards!Min(next)
    BY <1>2, FirstShard
  <2>2. shards' = [sh EXCEPT ![m].status = "REBALANCING"] /\ sweeps' = TheShards!Put(sweeps, call, m)
    BY <1>2, <2>1 DEF TheShards!Proceed
  <2>3. /\ DOMAIN sweeps' = DOMAIN sweeps \cup {call} /\ sweeps'[call] = m
        /\ \A c \in DOMAIN sweeps \ {call} : sweeps'[c] = sweeps[c]
    BY <2>2 DEF TheShards!Put
  <2>4. TheShards!IsMap(sweeps', 1..MaxSweeps, TheShards!ShardIds)
    BY <2>3 DEF ShardsInv, TheShards!IsMap
  <2>5. [sh[m] EXCEPT !.status = "REBALANCING"] \in ShardType
    BY DEF ShardType
  <2>6. shards' = [sh EXCEPT ![m] = [sh[m] EXCEPT !.status = "REBALANCING"]]
    BY <2>2
  <2>7. /\ shards' \in [TheShards!ShardIds -> ShardType]
        /\ \A s \in TheShards!ShardIds : shards'[s].nodes = shards[s].nodes
        /\ \A s \in TheShards!ShardIds \ {m} : shards'[s].status = sh[s].status
    <3> HIDE DEF next
    <3> QED  BY <2>5, <2>6 DEF ShardType
  <2>8. TheShards!RebalancingEnds'
    <3> SUFFICES ASSUME NEW s \in TheShards!ShardIds, shards'[s].status = "REBALANCING" PROVE \E c \in DOMAIN sweeps' : sweeps'[c] = s
      BY DEF TheShards!RebalancingEnds
    <3>1. CASE s = m
      BY <2>3, <3>1
    <3>2. CASE s # m
      BY <2>3, <2>7, <3>2
    <3> QED  BY <3>1, <3>2
  <2>9. TheShards!RoutedIsMember'
    BY <2>7 DEF ShardsInv, TheShards!IsMap, TheShards!RoutedIsMember
  <2> QED  BY <2>4, <2>7, <2>8, <2>9 DEF ShardsInv
<1> QED  BY <1>1, <1>2

LEMMA ShardsInit == ASSUME ShardsConstants PROVE TheShards!Init => ShardsInv
<1> SUFFICES ASSUME TheShards!Init PROVE ShardsInv
  OBVIOUS
<1>1. [nodes |-> {}, status |-> "ACTIVE", load |-> 0, synced |-> 0] \in ShardType
  BY DEF ShardsConstants, ShardType
<1>2. /\ shards = [s \in TheShards!ShardIds |-> [nodes |-> {}, status |-> "ACTIVE", load |-> 0, synced |-> 0]]
      /\ DOMAIN routingTable = {} /\ DOMAIN sweeps = {}
  BY DEF TheShards!Init, TheShards!Empty
<1>3. \A s \in TheShards!ShardIds : shards[s].status = "ACTIVE"
  BY <1>2
<1>4. shards \in [TheShards!ShardIds -> ShardType]
  BY <1>1, <1>2
<1> QED  BY <1>2, <1>3, <1>4 DEF ShardsInv, TheShards!IsMap, TheShards!RoutedIsMember, TheShards!RebalancingEnds

\* A shard takes a node, gives one up, or is reported on.
LEMMA ShardSetKeeps ==
    ASSUME ShardsInv, NEW s \in TheShards!ShardIds, NEW shard \in ShardType, shard.status = shards[s].status,
           shards' = [shards EXCEPT ![s] = shard], UNCHANGED sweeps
    PROVE  shards' \in [TheShards!ShardIds -> ShardType] /\ TheShards!IsMap(sweeps', 1..MaxSweeps, TheShards!ShardIds) /\ TheShards!RebalancingEnds'
<1>1. \A k \in TheShards!ShardIds : shards'[k].status = shards[k].status
  BY DEF ShardsInv
<1> QED  BY <1>1 DEF ShardsInv, TheShards!IsMap, TheShards!RebalancingEnds

LEMMA ShardsStep == ASSUME ShardsConstants, ShardsInv, [TheShards!Next]_TheShards!shardVars PROVE ShardsInv'
<1>0. \A s \in TheShards!ShardIds : shards[s] \in ShardType
  BY DEF ShardsInv
<1>1. CASE UNCHANGED TheShards!shardVars
  BY <1>1 DEF TheShards!shardVars, ShardsInv, TheShards!IsMap, TheShards!RoutedIsMember, TheShards!RebalancingEnds
<1>2. ASSUME NEW n \in ShardNodes, NEW s \in TheShards!ShardIds, TheShards!AddNodeToShard(n, s) PROVE ShardsInv'
  <2> DEFINE shard == [shards[s] EXCEPT !.nodes = @ \cup {n}]
  <2>1. shard \in ShardType /\ shard.status = shards[s].status /\ shard.nodes = shards[s].nodes \cup {n}
    BY <1>0 DEF ShardType
  <2>2. shards' = [shards EXCEPT ![s] = shard] /\ routingTable' = TheShards!Put(routingTable, n, s) /\ UNCHANGED sweeps
    BY <1>2 DEF TheShards!AddNodeToShard
  <2> HIDE DEF shard
  <2>3. shards' \in [TheShards!ShardIds -> ShardType] /\ TheShards!IsMap(sweeps', 1..MaxSweeps, TheShards!ShardIds) /\ TheShards!RebalancingEnds'
    BY <2>1, <2>2, ShardSetKeeps
  <2>4. TheShards!IsMap(routingTable', ShardNodes, TheShards!ShardIds) /\ TheShards!RoutedIsMember'
    BY <2>1, <2>2 DEF ShardsInv, TheShards!IsMap, TheShards!Put, TheShards!RoutedIsMember
  <2> QED  BY <2>3, <2>4 DEF ShardsInv
<1>3. ASSUME NEW n \in ShardNodes, NEW s \in TheShards!ShardIds, TheShards!RemoveNodeFromShard(n, s) PROVE ShardsInv'
  <2> DEFINE shard == [shards[s] EXCEPT !.nodes = @ \ {n}]
  <2>1. shard \in ShardType /\ shard.status = shards[s].status /\ shard.nodes = shards[s].nodes \ {n}
    BY <1>0 DEF ShardType
  <2>2. shards' = [shards EXCEPT ![s] = shard] /\ routingTable' = TheShards!Drop(routingTable, {n}) /\ UNCHANGED sweeps
    BY <1>3 DEF TheShards!RemoveNodeFromShard
  <2> HIDE DEF shard
  <2>3. shards' \in [TheShards!ShardIds -> ShardType] /\ TheShards!IsMap(sweeps', 1..MaxSweeps, TheShards!ShardIds) /\ TheShards!RebalancingEnds'
    BY <2>1, <2>2, ShardSetKeeps
  <2>4. TheShards!IsMap(routingTable', ShardNodes, TheShards!ShardIds) /\ TheShards!RoutedIsMember'
    BY <2>1, <2>2 DEF ShardsInv, TheShards!IsMap, TheShards!Drop, TheShards!RoutedIsMember
  <2> QED  BY <2>3, <2>4 DEF ShardsInv
<1>4. ASSUME NEW s \in TheShards!ShardIds, TheShards!Report(s) PROVE ShardsInv'
  <2>1. PICK shard \in ShardType : /\ shard.status = shards[s].status /\ shard.nodes = shards[s].nodes
                                   /\ shards' = [shards EXCEPT ![s] = shard]
    <3>1. ASSUME NEW l \in Loads, shards' = [shards EXCEPT ![s].load = l]
          PROVE  \E shard \in ShardType : /\ shard.status = shards[s].status /\ shard.nodes = shards[s].nodes
                                          /\ shards' = [shards EXCEPT ![s] = shard]
      <4>1. l \in Int /\ shards[s] \in ShardType
        BY <1>0 DEF ShardsConstants
      <4>2. [shards[s] EXCEPT !.load = l] \in ShardType
        BY <4>1 DEF ShardType
      <4>3. /\ [shards[s] EXCEPT !.load = l].status = shards[s].status
            /\ [shards[s] EXCEPT !.load = l].nodes = shards[s].nodes
        BY <4>1 DEF ShardType
      <4>4. shards' = [shards EXCEPT ![s] = [shards[s] EXCEPT !.load = l]]
        BY <3>1
      <4> QED  BY <4>2, <4>3, <4>4
    <3>2. ASSUME NEW k \in {0, ReplicationFactor - 1}, shards' = [shards EXCEPT ![s].synced = k]
          PROVE  \E shard \in ShardType : /\ shard.status = shards[s].status /\ shard.nodes = shards[s].nodes
                                          /\ shards' = [shards EXCEPT ![s] = shard]
      <4>1. k \in 0..(ReplicationFactor - 1) /\ shards[s] \in ShardType
        BY <1>0 DEF ShardsConstants
      <4>2. [shards[s] EXCEPT !.synced = k] \in ShardType
        BY <4>1 DEF ShardType
      <4>3. /\ [shards[s] EXCEPT !.synced = k].status = shards[s].status
            /\ [shards[s] EXCEPT !.synced = k].nodes = shards[s].nodes
        BY <4>1 DEF ShardType
      <4>4. shards' = [shards EXCEPT ![s] = [shards[s] EXCEPT !.synced = k]]
        BY <3>2
      <4> QED  BY <4>2, <4>3, <4>4
    <3> QED  BY <1>4, <3>1, <3>2 DEF TheShards!Report
  <2>2. UNCHANGED <<routingTable, sweeps>>
    BY <1>4 DEF TheShards!Report
  <2>3. shards' \in [TheShards!ShardIds -> ShardType] /\ TheShards!IsMap(sweeps', 1..MaxSweeps, TheShards!ShardIds) /\ TheShards!RebalancingEnds'
    BY <2>1, <2>2, ShardSetKeeps
  <2>4. TheShards!IsMap(routingTable', ShardNodes, TheShards!ShardIds) /\ TheShards!RoutedIsMember'
    BY <2>1, <2>2 DEF ShardsInv, TheShards!IsMap, TheShards!RoutedIsMember
  <2> QED  BY <2>3, <2>4 DEF ShardsInv
<1>5. CASE TheShards!HealthCheck \/ TheShards!StopSharding
  <2>1. PICK status \in [TheShards!ShardIds -> {"ACTIVE", "OFFLINE", "REBALANCING"}] :
           /\ shards' = [s \in TheShards!ShardIds |-> [shards[s] EXCEPT !.status = status[s]]]
           /\ \A s \in TheShards!ShardIds : status[s] = "REBALANCING" => shards[s].status = "REBALANCING"
    <3>1. CASE TheShards!HealthCheck
      <4> WITNESS [s \in TheShards!ShardIds |-> IF shards[s].status = "REBALANCING" THEN shards[s].status
                                      ELSE IF TheShards!Healthy(s) THEN "ACTIVE" ELSE "OFFLINE"]
                  \in [TheShards!ShardIds -> {"ACTIVE", "OFFLINE", "REBALANCING"}]
      <4> QED  BY <3>1 DEF TheShards!HealthCheck
    <3>2. CASE TheShards!StopSharding
      <4> WITNESS [s \in TheShards!ShardIds |-> "OFFLINE"] \in [TheShards!ShardIds -> {"ACTIVE", "OFFLINE", "REBALANCING"}]
      <4> QED  BY <3>2 DEF TheShards!StopSharding
    <3> QED  BY <1>5, <3>1, <3>2
  <2>2. \A s \in TheShards!ShardIds : /\ [shards[s] EXCEPT !.status = status[s]] \in ShardType
                            /\ [shards[s] EXCEPT !.status = status[s]].nodes = shards[s].nodes
                            /\ [shards[s] EXCEPT !.status = status[s]].status = status[s]
    BY <1>0 DEF ShardType
  <2>3. /\ shards' \in [TheShards!ShardIds -> ShardType]
        /\ \A s \in TheShards!ShardIds : shards'[s].nodes = shards[s].nodes
        /\ \A s \in TheShards!ShardIds : shards'[s].status = "REBALANCING" => shards[s].status = "REBALANCING"
    BY <2>1, <2>2
  <2>4. UNCHANGED <<routingTable, sweeps>>
    BY <1>5 DEF TheShards!HealthCheck, TheShards!StopSharding
  <2> QED  BY <2>3, <2>4 DEF ShardsInv, TheShards!IsMap, TheShards!RoutedIsMember, TheShards!RebalancingEnds
<1>6. ASSUME NEW call \in 1..MaxSweeps, TheShards!RebalanceShards(call) PROVE ShardsInv'
  <2>1. call \notin DOMAIN sweeps /\ TheShards!Proceed(call, 1, shards) /\ UNCHANGED routingTable
    BY <1>6 DEF TheShards!RebalanceShards
  <2>2. \A s \in TheShards!ShardIds : shards[s].status = "REBALANCING" => \E c \in DOMAIN sweeps \ {call} : sweeps[c] = s
    BY <2>1 DEF ShardsInv, TheShards!RebalancingEnds
  <2>3. shards \in [TheShards!ShardIds -> ShardType]
    BY DEF ShardsInv
  <2> QED  BY <2>1, <2>2, <2>3, ProceedKeeps
<1>7. ASSUME NEW call \in 1..MaxSweeps, TheShards!ShardRebalanced(call) PROVE ShardsInv'
  <2>1. PICK moved \in {0, 1} :
            TheShards!Proceed(call, sweeps[call] + 1, [shards EXCEPT ![sweeps[call]].status = "ACTIVE", ![sweeps[call]].load = @ - moved])
    BY <1>7 DEF TheShards!ShardRebalanced
  <2>2. call \in DOMAIN sweeps /\ UNCHANGED routingTable
    BY <1>7 DEF TheShards!ShardRebalanced
  <2> DEFINE m == sweeps[call]
             shard == [shards[m] EXCEPT !.status = "ACTIVE", !.load = @ - moved]
             sh == [shards EXCEPT ![m] = shard]
  <2>3. m \in TheShards!ShardIds
    BY <2>2 DEF ShardsInv, TheShards!IsMap
  <2>4. shard \in ShardType /\ shard.status = "ACTIVE" /\ shard.nodes = shards[m].nodes
    <3>1. shards[m] \in ShardType
      BY <1>0, <2>3
    <3> HIDE DEF m
    <3>2. shards[m].load - moved \in Int
      BY <3>1 DEF ShardType
    <3> QED  BY <3>1, <3>2 DEF ShardType
  <2>5. sh = [shards EXCEPT ![m].status = "ACTIVE", ![m].load = @ - moved]
    BY <2>3 DEF ShardsInv, ShardType
  <2>6. TheShards!Proceed(call, m + 1, sh)
    BY <2>1, <2>5
  <2> HIDE DEF shard
  <2>7. /\ sh \in [TheShards!ShardIds -> ShardType] /\ \A s \in TheShards!ShardIds : sh[s].nodes = shards[s].nodes
        /\ \A s \in TheShards!ShardIds : sh[s].status = "REBALANCING" => s # m /\ shards[s].status = "REBALANCING"
    BY <2>3, <2>4 DEF ShardsInv
  <2>8. \A s \in TheShards!ShardIds : sh[s].status = "REBALANCING" => \E c \in DOMAIN sweeps \ {call} : sweeps[c] = s
    BY <2>7 DEF ShardsInv, TheShards!RebalancingEnds
  <2> HIDE DEF sh, m
  <2> QED  BY <2>2, <2>6, <2>7, <2>8, ProceedKeeps
<1> QED  BY <1>1, <1>2, <1>3, <1>4, <1>5, <1>6, <1>7 DEF TheShards!Next

\* The switch that ends the health checks.
LEMMA StoppedKept == ASSUME stopped \in BOOLEAN, [TheShards!Next]_TheShards!shardVars PROVE stopped' \in BOOLEAN
<1>1. CASE UNCHANGED TheShards!shardVars
  BY <1>1 DEF TheShards!shardVars
<1>2. CASE TheShards!Next
  BY <1>2 DEF TheShards!Next, TheShards!AddNodeToShard, TheShards!RemoveNodeFromShard, TheShards!Report, TheShards!HealthCheck, TheShards!StopSharding, TheShards!RebalanceShards, TheShards!ShardRebalanced
<1> QED  BY <1>1, <1>2

LEMMA LesserIs == \A a, b \in Int : TheShards!Min({a, b}) \in {a, b}
<1> TAKE a, b \in Int
<1>1. \E x \in {a, b} : \A y \in {a, b} : x <= y
  <2>1. CASE a <= b
    BY <2>1
  <2>2. CASE b <= a
    BY <2>2
  <2> QED  BY <2>1, <2>2
<1> QED  BY <1>1 DEF TheShards!Min

\* The ranges of so many shards are the bytes sent to each.
LEMMA RangesOf ==
    ASSUME NEW count \in Nat, NEW size \in Nat, count * size = 256, count \in {1, 2, 4, 8}, NEW byte \in 0..255
    PROVE  byte \in TheShards!ShardRange(TheShards!ShardByRange(byte, count), count)
<1> DEFINE i == TheShards!ShardByRange(byte, count)
           last == TheShards!Min({(i + 1) * size - 1, 255})
<1>1. \/ count = 1 /\ size = 256
      \/ count = 2 /\ size = 128
      \/ count = 4 /\ size = 64
      \/ count = 8 /\ size = 32
  OBVIOUS
<1>2. 256 \div count = size
  BY <1>1
<1>3. i \in Int /\ i * size <= byte /\ byte <= (i + 1) * size - 1
  <2>1. i = (byte * count) \div 256
    BY DEF TheShards!ShardByRange
  <2> HIDE DEF i
  <2>2. CASE count = 1 /\ size = 256
    BY <2>1, <2>2
  <2>3. CASE count = 2 /\ size = 128
    BY <2>1, <2>3
  <2>4. CASE count = 4 /\ size = 64
    BY <2>1, <2>4
  <2>5. CASE count = 8 /\ size = 32
    BY <2>1, <2>5
  <2> QED  BY <1>1, <2>2, <2>3, <2>4, <2>5
<1>4. last \in Int /\ byte <= last
  <2> DEFINE e == (i + 1) * size - 1
  <2>1. e \in Int /\ byte <= e
    BY <1>3
  <2> HIDE DEF e, i
  <2>2. TheShards!Min({e, 255}) \in {e, 255}
    BY <2>1, LesserIs
  <2> QED  BY <2>1, <2>2 DEF e
<1>5. TheShards!ShardRange(i, count) = (i * size)..last
  BY <1>2 DEF TheShards!ShardRange
<1>6. i * size \in Int
  BY <1>3
<1> HIDE DEF i, last
<1>7. byte \in (i * size)..last
  BY <1>3, <1>4, <1>6
<1> QED  BY <1>5, <1>7 DEF i

LEMMA RangesFollow == TheShards!RangesAreRoutes
<1> SUFFICES ASSUME NEW count \in {1, 2, 4, 8}, NEW byte \in 0..255
             PROVE  byte \in TheShards!ShardRange(TheShards!ShardByRange(byte, count), count)
  BY DEF TheShards!RangesAreRoutes
<1>1. count \in Nat /\ \E size \in Nat : count * size = 256
  <2>1. 1 * 256 = 256 /\ 2 * 128 = 256 /\ 4 * 64 = 256 /\ 8 * 32 = 256
    OBVIOUS
  <2> QED  BY <2>1
<1> QED  BY <1>1, RangesOf

LEMMA ShardsInvSays == ASSUME ShardsInv, stopped \in BOOLEAN PROVE TheShards!TypeOK /\ TheShards!RoutedIsMember /\ TheShards!RebalancingEnds /\ TheShards!RangesAreRoutes
BY RangesFollow DEF ShardsInv, TheShards!TypeOK, ShardType

-----------------------------------------------------------------------------
\* DatabaseOptimizer: a connection is numbered when it is made, and one that a
\* query runs on is not free.
DatabaseConstants == PoolSize \in Nat /\ MaxConnections \in Nat /\ PoolSize <= MaxConnections

LEMMA DatabaseCardinality == \A S : TheDatabase!Cardinality(S) = Cardinality(S)
BY DEF Cardinality, TheDatabase!Cardinality

DatabaseInv ==
    /\ pooling \in BOOLEAN /\ made \in Nat
    /\ TheDatabase!IsMap(connectionPool, 1..made, BOOLEAN)
    /\ \A a \in DOMAIN inFlight : inFlight[a].connection \in 1..made
    /\ TheDatabase!ConnectionsExclusive

LEMMA PoolIsFinite ==
    ASSUME DatabaseInv, NEW S, S \subseteq DOMAIN connectionPool
    PROVE  IsFiniteSet(S) /\ Cardinality(S) \in Nat
<1>1. made \in Nat /\ S \subseteq 1..made
  BY DEF DatabaseInv, TheDatabase!IsMap
<1>2. IsFiniteSet(1..made)
  BY <1>1, FS_Interval
<1> QED  BY <1>1, <1>2, FS_Subset, FS_CardinalityType

LEMMA FreeIsLeast ==
    ASSUME DatabaseInv, TheDatabase!Free # {}
    PROVE  TheDatabase!Min(TheDatabase!Free) \in TheDatabase!Free
<1>1. TheDatabase!Free \subseteq Nat
  BY DEF DatabaseInv, TheDatabase!IsMap, TheDatabase!Free
<1>2. \E x \in TheDatabase!Free : \A y \in TheDatabase!Free : x <= y
  BY <1>1, LeastNatural
<1> QED  BY <1>2 DEF TheDatabase!Min

\* What getConnection returns is nobody's, and busy if the pool has it.
LEMMA ConnectionGot ==
    ASSUME DatabaseConstants, DatabaseInv, NEW c, TheDatabase!GetConnection(c), ~TheDatabase!NoConnection
    PROVE  /\ made' \in Nat /\ made <= made' /\ c \in 1..made'
           /\ TheDatabase!IsMap(connectionPool', 1..made', BOOLEAN)
           /\ Cardinality(DOMAIN connectionPool') <= MaxConnections
           /\ c \in DOMAIN connectionPool' => connectionPool'[c]
           /\ \A k \in DOMAIN connectionPool' \ {c} : k \in DOMAIN connectionPool /\ connectionPool'[k] = connectionPool[k]
           /\ \A a \in DOMAIN inFlight : inFlight[a].connection # c
<1>0. /\ pooling \in BOOLEAN /\ made \in Nat /\ TheDatabase!IsMap(connectionPool, 1..made, BOOLEAN)
      /\ Cardinality(DOMAIN connectionPool) <= MaxConnections
      /\ \A a \in DOMAIN inFlight :
            /\ inFlight[a].connection \in 1..made
            /\ inFlight[a].connection \in DOMAIN connectionPool => connectionPool[inFlight[a].connection]
  BY DatabaseCardinality DEF DatabaseInv, TheDatabase!ConnectionsExclusive
<1>1. CASE pooling /\ TheDatabase!Free # {}
  <2>1. c \in TheDatabase!Free /\ connectionPool' = [connectionPool EXCEPT ![c] = TRUE] /\ made' = made
    BY <1>1, FreeIsLeast DEF TheDatabase!GetConnection
  <2>2. c \in DOMAIN connectionPool /\ ~connectionPool[c]
    BY <2>1 DEF TheDatabase!Free
  <2>3. DOMAIN connectionPool' = DOMAIN connectionPool
    BY <2>1
  <2>4. /\ connectionPool'[c] = TRUE
        /\ \A k \in DOMAIN connectionPool' \ {c} : k \in DOMAIN connectionPool /\ connectionPool'[k] = connectionPool[k]
    BY <2>1, <2>2, <2>3
  <2>5. TheDatabase!IsMap(connectionPool', 1..made', BOOLEAN) /\ c \in 1..made'
    BY <1>0, <2>1, <2>2, <2>3, <2>4 DEF TheDatabase!IsMap
  <2>6. \A a \in DOMAIN inFlight : inFlight[a].connection # c
    BY <1>0, <2>2
  <2> QED  BY <1>0, <2>1, <2>3, <2>4, <2>5, <2>6
<1>2. CASE ~(pooling /\ TheDatabase!Free # {})
  <2>1. c = made + 1 /\ made' = c
    BY <1>2 DEF TheDatabase!GetConnection
  <2>2. \A a \in DOMAIN inFlight : inFlight[a].connection # c
    BY <1>0, <2>1
  <2>3. CASE ~pooling
    <3>1. connectionPool' = connectionPool
      BY <1>2, <2>3 DEF TheDatabase!GetConnection
    <3> QED  BY <1>0, <2>1, <2>2, <3>1 DEF TheDatabase!IsMap
  <2>4. CASE pooling
    <3>1. connectionPool' = TheDatabase!Put(connectionPool, c, TRUE)
      BY <1>2, <2>4 DEF TheDatabase!GetConnection
    <3>2. TheDatabase!Free = {}
      BY <1>2, <2>4
    <3>3. ~(Cardinality(DOMAIN connectionPool) >= MaxConnections)
      BY <2>4, <3>2, DatabaseCardinality DEF TheDatabase!NoConnection
    <3>4. /\ DOMAIN connectionPool' = DOMAIN connectionPool \cup {c} /\ connectionPool'[c] = TRUE
          /\ \A k \in DOMAIN connectionPool \ {c} : connectionPool'[k] = connectionPool[k]
      BY <3>1 DEF TheDatabase!Put
    <3>5. IsFiniteSet(DOMAIN connectionPool) /\ Cardinality(DOMAIN connectionPool) \in Nat
      BY PoolIsFinite
    <3>6. Cardinality(DOMAIN connectionPool') <= Cardinality(DOMAIN connectionPool) + 1
      BY <3>4, <3>5, FS_AddElement
    <3>7. Cardinality(DOMAIN connectionPool') \in Nat
      BY <3>4, <3>5, FS_AddElement
    <3>8. Cardinality(DOMAIN connectionPool') <= MaxConnections
      BY <3>3, <3>5, <3>6, <3>7 DEF DatabaseConstants
    <3>9. \A k \in DOMAIN connectionPool : k \in 1..made' /\ k # c
      BY <1>0, <2>1 DEF TheDatabase!IsMap
    <3>10. made' \in Nat /\ made <= made' /\ c \in 1..made'
      BY <1>0, <2>1
    <3>11. \A k \in DOMAIN connectionPool' : k \in 1..made' /\ connectionPool'[k] \in BOOLEAN
      BY <1>0, <3>4, <3>9, <3>10 DEF TheDatabase!IsMap
    <3>12. TheDatabase!IsMap(connectionPool', 1..made', BOOLEAN)
      BY <3>11 DEF TheDatabase!IsMap
    <3>13. \A k \in DOMAIN connectionPool' \ {c} : k \in DOMAIN connectionPool /\ connectionPool'[k] = connectionPool[k]
      BY <3>4
    <3> QED  BY <2>2, <3>4, <3>8, <3>10, <3>12, <3>13
  <2> QED  BY <1>0, <2>3, <2>4
<1> QED  BY <1>1, <1>2

\* The pool gives some up or frees some, and the queries on the others stay.
LEMMA PoolSetKeeps ==
    ASSUME DatabaseConstants, DatabaseInv, pooling' \in BOOLEAN, made' = made,
           DOMAIN connectionPool' \subseteq DOMAIN connectionPool,
           \A k \in DOMAIN connectionPool' : connectionPool'[k] \in BOOLEAN,
           DOMAIN inFlight' \subseteq DOMAIN inFlight, \A a \in DOMAIN inFlight' : inFlight'[a] = inFlight[a],
           \A a \in DOMAIN inFlight' : inFlight[a].connection \in DOMAIN connectionPool'
              => connectionPool'[inFlight[a].connection] = connectionPool[inFlight[a].connection]
    PROVE  DatabaseInv'
<1>1. /\ IsFiniteSet(DOMAIN connectionPool) /\ Cardinality(DOMAIN connectionPool) \in Nat
      /\ Cardinality(DOMAIN connectionPool) <= MaxConnections
  BY PoolIsFinite, DatabaseCardinality DEF DatabaseInv, TheDatabase!ConnectionsExclusive
<1>2. Cardinality(DOMAIN connectionPool') <= Cardinality(DOMAIN connectionPool) /\ Cardinality(DOMAIN connectionPool') \in Nat
  BY <1>1, FS_Subset, FS_CardinalityType
<1>3. Cardinality(DOMAIN connectionPool') <= MaxConnections
  BY <1>1, <1>2 DEF DatabaseConstants
<1>4. TheDatabase!IsMap(connectionPool', 1..made', BOOLEAN)
  BY DEF DatabaseInv, TheDatabase!IsMap
<1>5. \A a \in DOMAIN inFlight' : /\ inFlight'[a].connection \in 1..made'
                                  /\ inFlight'[a].connection \in DOMAIN connectionPool' => connectionPool'[inFlight'[a].connection]
                                  /\ \A b \in DOMAIN inFlight' \ {a} : inFlight'[a].connection # inFlight'[b].connection
  BY DatabaseCardinality DEF DatabaseInv, TheDatabase!ConnectionsExclusive
<1>6. TheDatabase!ConnectionsExclusive'
  BY <1>3, <1>5, DatabaseCardinality DEF TheDatabase!ConnectionsExclusive
<1> QED  BY <1>4, <1>5, <1>6 DEF DatabaseInv

LEMMA DatabaseInit == ASSUME DatabaseConstants PROVE TheDatabase!Init => DatabaseInv
<1> SUFFICES ASSUME TheDatabase!Init PROVE DatabaseInv
  OBVIOUS
<1>1. /\ pooling = TRUE /\ made = PoolSize /\ DOMAIN inFlight = {}
      /\ connectionPool = [c \in 1..PoolSize |-> FALSE]
  BY DEF TheDatabase!Init, TheDatabase!Empty
<1>2. Cardinality(1..PoolSize) = PoolSize
  <2>1. Cardinality(1..PoolSize) = IF 1 > PoolSize THEN 0 ELSE PoolSize - 1 + 1
    BY FS_Interval DEF DatabaseConstants
  <2> QED  BY <2>1 DEF DatabaseConstants
<1>3. Cardinality(DOMAIN connectionPool) <= MaxConnections
  BY <1>1, <1>2 DEF DatabaseConstants
<1>4. TheDatabase!ConnectionsExclusive
  BY <1>1, <1>3, DatabaseCardinality DEF TheDatabase!ConnectionsExclusive
<1> QED  BY <1>1, <1>4 DEF DatabaseInv, TheDatabase!IsMap, DatabaseConstants

LEMMA DatabaseStep == ASSUME DatabaseConstants, DatabaseInv, [TheDatabase!Next]_TheDatabase!dbVars PROVE DatabaseInv'
<1>0. pooling \in BOOLEAN /\ TheDatabase!IsMap(connectionPool, 1..made, BOOLEAN)
  BY DEF DatabaseInv
<1>1. ASSUME UNCHANGED <<pooling, connectionPool, made, inFlight>> PROVE DatabaseInv'
  BY <1>0, <1>1, PoolSetKeeps DEF TheDatabase!IsMap
<1>2. ASSUME NEW call, NEW q, NEW p, TheDatabase!ExecuteQuery(call, q, p) PROVE DatabaseInv'
  <2>1. CASE q \in DOMAIN queryCache \/ TheDatabase!NoConnection
    BY <1>1, <1>2, <2>1, DatabaseCardinality DEF TheDatabase!ExecuteQuery
  <2>2. CASE ~(q \in DOMAIN queryCache \/ TheDatabase!NoConnection)
    <3>1. PICK c \in 1..MaxMade :
             /\ TheDatabase!GetConnection(c)
             /\ inFlight' = TheDatabase!Put(inFlight, call, [query |-> q, parameters |-> p, connection |-> c, indexes |-> TheDatabase!ApplicableIndexes(q)])
      BY <1>2, <2>2, DatabaseCardinality DEF TheDatabase!ExecuteQuery
    <3>2. call \notin DOMAIN inFlight /\ pooling' = pooling
      BY <1>2, DatabaseCardinality DEF TheDatabase!ExecuteQuery
    <3>3. /\ made' \in Nat /\ made <= made' /\ c \in 1..made'
          /\ TheDatabase!IsMap(connectionPool', 1..made', BOOLEAN)
          /\ Cardinality(DOMAIN connectionPool') <= MaxConnections
          /\ c \in DOMAIN connectionPool' => connectionPool'[c]
          /\ \A k \in DOMAIN connectionPool' \ {c} : k \in DOMAIN connectionPool /\ connectionPool'[k] = connectionPool[k]
          /\ \A a \in DOMAIN inFlight : inFlight[a].connection # c
      BY <2>2, <3>1, ConnectionGot
    <3>4. /\ DOMAIN inFlight' = DOMAIN inFlight \cup {call} /\ inFlight'[call].connection = c
          /\ \A a \in DOMAIN inFlight : inFlight'[a] = inFlight[a]
      BY <3>1, <3>2 DEF TheDatabase!Put
    <3>5. \A a \in DOMAIN inFlight : /\ inFlight[a].connection \in 1..made
                                     /\ inFlight[a].connection \in DOMAIN connectionPool => connectionPool[inFlight[a].connection]
                                     /\ \A b \in DOMAIN inFlight \ {a} : inFlight[a].connection # inFlight[b].connection
      BY DatabaseCardinality DEF DatabaseInv, TheDatabase!ConnectionsExclusive
    <3>6. \A a \in DOMAIN inFlight' :
             /\ inFlight'[a].connection \in DOMAIN connectionPool' => connectionPool'[inFlight'[a].connection]
             /\ \A b \in DOMAIN inFlight' \ {a} : inFlight'[a].connection # inFlight'[b].connection
      BY <3>3, <3>4, <3>5
    <3>7. TheDatabase!ConnectionsExclusive'
      BY <3>3, <3>6, DatabaseCardinality DEF TheDatabase!ConnectionsExclusive
    <3>8. \A a \in DOMAIN inFlight' : inFlight'[a].connection \in 1..made'
      <4>1. made \in Nat
        BY DEF DatabaseInv
      <4> QED  BY <3>3, <3>4, <3>5, <4>1
    <3> QED  BY <1>0, <3>2, <3>3, <3>7, <3>8 DEF DatabaseInv
  <2> QED  BY <2>1, <2>2
<1>3. ASSUME NEW call, TheDatabase!QueryDone(call) PROVE DatabaseInv'
  <2>1. /\ call \in DOMAIN inFlight /\ TheDatabase!Release(inFlight[call].connection)
        /\ inFlight' = TheDatabase!Drop(inFlight, {call}) /\ UNCHANGED <<pooling, made>>
    BY <1>3 DEF TheDatabase!QueryDone
  <2>2. DOMAIN inFlight' = DOMAIN inFlight \ {call} /\ \A a \in DOMAIN inFlight' : inFlight'[a] = inFlight[a]
    BY <2>1 DEF TheDatabase!Drop
  <2> DEFINE c == inFlight[call].connection
  <2>3. \A a \in DOMAIN inFlight' : inFlight[a].connection # c
    BY <2>1, <2>2, DatabaseCardinality DEF DatabaseInv, TheDatabase!ConnectionsExclusive
  <2>4. /\ DOMAIN connectionPool' = DOMAIN connectionPool
        /\ \A k \in DOMAIN connectionPool' : connectionPool'[k] \in BOOLEAN
        /\ \A k \in DOMAIN connectionPool \ {c} : connectionPool'[k] = connectionPool[k]
    <3>1. connectionPool' = [connectionPool EXCEPT ![c] = FALSE] \/ connectionPool' = connectionPool
      BY <2>1 DEF TheDatabase!Release
    <3> HIDE DEF c
    <3> QED  BY <1>0, <3>1 DEF TheDatabase!IsMap
  <2> HIDE DEF c
  <2> QED  BY <1>0, <2>1, <2>2, <2>3, <2>4, PoolSetKeeps
<1>4. ASSUME NEW op, NEW i, TheDatabase!CallIndex(op, i) PROVE DatabaseInv'
  BY <1>1, <1>4, DatabaseCardinality DEF TheDatabase!CallIndex
<1>5. ASSUME NEW n, TheDatabase!IndexCallDone(n) PROVE DatabaseInv'
  BY <1>1, <1>5 DEF TheDatabase!IndexCallDone
<1>6. CASE TheDatabase!Optimize \/ TheDatabase!ClearQueryCache
  BY <1>1, <1>6 DEF TheDatabase!Optimize, TheDatabase!ClearQueryCache
<1>7. CASE TheDatabase!SwitchPooling
  <2>1. pooling' \in BOOLEAN /\ UNCHANGED <<connectionPool, made, inFlight>>
    BY <1>0, <1>7 DEF TheDatabase!SwitchPooling
  <2> QED  BY <1>0, <2>1, PoolSetKeeps DEF TheDatabase!IsMap
<1>8. CASE TheDatabase!StopDatabase
  <2>1. DOMAIN connectionPool' = {} /\ UNCHANGED <<pooling, made, inFlight>>
    BY <1>8 DEF TheDatabase!StopDatabase, TheDatabase!Empty
  <2> QED  BY <1>0, <2>1, PoolSetKeeps
<1>9. CASE UNCHANGED TheDatabase!dbVars
  BY <1>1, <1>9 DEF TheDatabase!dbVars
<1> QED  BY <1>2, <1>3, <1>4, <1>5, <1>6, <1>7, <1>8, <1>9 DEF TheDatabase!Next

\* The plans that results are kept with, of the indexes there were.
PlansConstants == DefaultIndexes \subseteq DBIndexes /\ MaxMade \in Nat /\ PoolSize <= MaxMade

IsPlan(q, p, plan) ==
    /\ q \in DBQueries /\ p \in Parameters
    /\ plan \subseteq DBIndexes /\ \A i \in plan : i.table \in q.tables

IndexesKept ==
    /\ indexes \subseteq DBIndexes
    /\ \A n \in DOMAIN indexCalls : indexCalls[n].index \in DBIndexes
    /\ optimized \in [running : BOOLEAN, done : SUBSET indexes]

FlightsKept ==
    \A a \in DOMAIN inFlight : a \in CallIds /\ IsPlan(inFlight[a].query, inFlight[a].parameters, inFlight[a].indexes)

ResultsKept ==
    /\ TheDatabase!IsMap(queryCache, DBQueries, [parameters : Parameters, indexes : SUBSET DBIndexes])
    /\ TheDatabase!CacheReads

CountsKept == made \in PoolSize..MaxMade /\ metrics \in [kept : Nat, total : Nat] /\ metrics.kept <= metrics.total

PlansInv == IndexesKept /\ FlightsKept /\ ResultsKept /\ CountsKept

LEMMA PlansInit == ASSUME DatabaseConstants, PlansConstants PROVE TheDatabase!Init => PlansInv
<1> SUFFICES ASSUME TheDatabase!Init PROVE PlansInv
  OBVIOUS
<1>1. /\ indexes = DefaultIndexes /\ DOMAIN indexCalls = {} /\ DOMAIN inFlight = {} /\ DOMAIN queryCache = {}
      /\ made = PoolSize /\ metrics = [kept |-> 0, total |-> 0] /\ optimized = [running |-> FALSE, done |-> {}]
  BY DEF TheDatabase!Init, TheDatabase!Empty
<1>2. IndexesKept /\ FlightsKept
  BY <1>1 DEF PlansConstants, IndexesKept, FlightsKept
<1>3. ResultsKept
  BY <1>1 DEF ResultsKept, TheDatabase!IsMap, TheDatabase!CacheReads
<1>4. CountsKept
  BY <1>1 DEF DatabaseConstants, PlansConstants, CountsKept
<1> QED  BY <1>2, <1>3, <1>4 DEF PlansInv

LEMMA QueryCounted == ASSUME CountsKept, TheDatabase!Record, made' \in PoolSize..MaxMade PROVE CountsKept'
<1> DEFINE kept == metrics.kept
           total == metrics.total
<1>1. kept \in Nat /\ total \in Nat /\ kept <= total
  BY DEF CountsKept
<1>2. metrics' = [kept |-> kept + 1, total |-> total + 1]
  BY DEF TheDatabase!Record
<1> HIDE DEF kept, total
<1> QED  BY <1>1, <1>2 DEF CountsKept

LEMMA QueryKeepsPlans ==
    ASSUME DatabaseConstants, PlansConstants, DatabaseInv, PlansInv,
           NEW call \in CallIds, NEW q \in DBQueries, NEW p \in Parameters, TheDatabase!ExecuteQuery(call, q, p)
    PROVE  PlansInv'
<1>1. UNCHANGED <<pooling, indexes, indexCalls, queryCache, optimized>> /\ call \notin DOMAIN inFlight
  BY DatabaseCardinality DEF TheDatabase!ExecuteQuery
<1>2. IndexesKept' /\ ResultsKept'
  BY <1>1 DEF PlansInv, IndexesKept, ResultsKept, TheDatabase!CacheReads
<1>3. CASE q \in DOMAIN queryCache \/ TheDatabase!NoConnection
  <2>1. TheDatabase!Record /\ UNCHANGED <<made, inFlight>>
    BY <1>3, DatabaseCardinality DEF TheDatabase!ExecuteQuery
  <2>2. FlightsKept'
    BY <2>1 DEF PlansInv, FlightsKept, IsPlan
  <2>3. CountsKept'
    BY <2>1, QueryCounted DEF PlansInv, CountsKept
  <2> QED  BY <1>2, <2>2, <2>3 DEF PlansInv
<1>4. CASE ~(q \in DOMAIN queryCache \/ TheDatabase!NoConnection)
  <2> DEFINE plan == TheDatabase!ApplicableIndexes(q)
  <2>1. PICK c \in 1..MaxMade :
           /\ TheDatabase!GetConnection(c)
           /\ inFlight' = TheDatabase!Put(inFlight, call, [query |-> q, parameters |-> p, connection |-> c, indexes |-> plan])
           /\ UNCHANGED metrics
    BY <1>4, DatabaseCardinality DEF TheDatabase!ExecuteQuery
  <2>2. IsPlan(q, p, plan)
    BY DEF IsPlan, TheDatabase!ApplicableIndexes, PlansInv, IndexesKept
  <2> HIDE DEF plan
  <2>3. FlightsKept'
    <3>1. /\ DOMAIN inFlight' = DOMAIN inFlight \cup {call}
          /\ inFlight'[call] = [query |-> q, parameters |-> p, connection |-> c, indexes |-> plan]
          /\ \A a \in DOMAIN inFlight : inFlight'[a] = inFlight[a]
      BY <1>1, <2>1 DEF TheDatabase!Put
    <3>2. /\ inFlight'[call].query = q /\ inFlight'[call].parameters = p /\ inFlight'[call].indexes = plan
      BY <3>1
    <3>3. \A a \in DOMAIN inFlight : a \in CallIds /\ IsPlan(inFlight[a].query, inFlight[a].parameters, inFlight[a].indexes)
      BY DEF PlansInv, FlightsKept
    <3>4. \A a \in DOMAIN inFlight' : a \in CallIds /\ IsPlan(inFlight'[a].query, inFlight'[a].parameters, inFlight'[a].indexes)
      BY <2>2, <3>1, <3>2, <3>3
    <3> QED  BY <3>4 DEF FlightsKept, IsPlan
  <2>4. made' \in PoolSize..MaxMade
    <3>1. made' = made \/ (made' = c /\ c = made + 1)
      BY <2>1 DEF TheDatabase!GetConnection
    <3> QED  BY <3>1 DEF PlansInv, CountsKept, DatabaseConstants, PlansConstants
  <2>5. CountsKept'
    BY <2>1, <2>4 DEF PlansInv, CountsKept
  <2> QED  BY <1>2, <2>3, <2>5 DEF PlansInv
<1> QED  BY <1>3, <1>4

LEMMA QueryDoneKeeps ==
    ASSUME PlansInv, NEW call \in CallIds, TheDatabase!QueryDone(call)
    PROVE  PlansInv'
<1> DEFINE f == inFlight[call]
<1>1. /\ call \in DOMAIN inFlight /\ TheDatabase!Record /\ inFlight' = TheDatabase!Drop(inFlight, {call})
      /\ UNCHANGED <<made, indexes, indexCalls, optimized>>
      /\ queryCache' = IF "SELECT" \in f.query.operations
                       THEN TheDatabase!Put(queryCache, f.query, [parameters |-> f.parameters, indexes |-> f.indexes])
                       ELSE queryCache
  BY DEF TheDatabase!QueryDone
<1>2. IndexesKept' /\ CountsKept'
  <2>1. made' \in PoolSize..MaxMade
    BY <1>1 DEF PlansInv, CountsKept
  <2> QED  BY <1>1, <2>1, QueryCounted DEF PlansInv, IndexesKept
<1>3. FlightsKept'
  BY <1>1 DEF PlansInv, FlightsKept, TheDatabase!Drop, IsPlan
<1>4. ResultsKept'
  <2>1. IsPlan(f.query, f.parameters, f.indexes)
    BY <1>1 DEF PlansInv, FlightsKept
  <2> DEFINE q == f.query
             p == f.parameters
             plan == f.indexes
             result == [parameters |-> p, indexes |-> plan]
  <2>2. /\ IsPlan(q, p, plan)
        /\ queryCache' = IF "SELECT" \in q.operations THEN TheDatabase!Put(queryCache, q, result) ELSE queryCache
    BY <1>1, <2>1
  <2> HIDE DEF q, p, plan, f
  <2>3. CASE "SELECT" \in q.operations
    <3>1. /\ DOMAIN queryCache' = DOMAIN queryCache \cup {q} /\ queryCache'[q] = result
          /\ \A k \in DOMAIN queryCache \ {q} : queryCache'[k] = queryCache[k]
      BY <2>2, <2>3 DEF TheDatabase!Put
    <3>2. result \in [parameters : Parameters, indexes : SUBSET DBIndexes] /\ result.indexes = plan
      BY <2>2 DEF IsPlan
    <3>3. TheDatabase!IsMap(queryCache, DBQueries, [parameters : Parameters, indexes : SUBSET DBIndexes]) /\ TheDatabase!CacheReads
      BY DEF PlansInv, ResultsKept
    <3> HIDE DEF result
    <3>4. TheDatabase!IsMap(queryCache', DBQueries, [parameters : Parameters, indexes : SUBSET DBIndexes])
      BY <2>2, <3>1, <3>2, <3>3 DEF TheDatabase!IsMap, IsPlan
    <3>5. TheDatabase!CacheReads'
      BY <2>2, <2>3, <3>1, <3>2, <3>3 DEF TheDatabase!CacheReads, IsPlan
    <3> QED  BY <3>4, <3>5 DEF ResultsKept
  <2>4. CASE "SELECT" \notin q.operations
    BY <2>2, <2>4 DEF PlansInv, ResultsKept, TheDatabase!CacheReads
  <2> QED  BY <2>3, <2>4
<1> QED  BY <1>2, <1>3, <1>4 DEF PlansInv

LEMMA PlansStep ==
    ASSUME DatabaseConstants, PlansConstants, DatabaseInv, PlansInv, [TheDatabase!Next]_TheDatabase!dbVars
    PROVE  PlansInv'
<1>1. ASSUME UNCHANGED <<inFlight, queryCache>> PROVE FlightsKept' /\ ResultsKept'
  BY <1>1 DEF PlansInv, FlightsKept, IsPlan, ResultsKept, TheDatabase!CacheReads
<1>2. ASSUME UNCHANGED <<made, metrics>> PROVE CountsKept'
  BY <1>2 DEF PlansInv, CountsKept
<1>3. ASSUME UNCHANGED <<indexes, indexCalls, optimized>> PROVE IndexesKept'
  BY <1>3 DEF PlansInv, IndexesKept
<1>4. ASSUME NEW call \in CallIds, NEW q \in DBQueries, NEW p \in Parameters, TheDatabase!ExecuteQuery(call, q, p) PROVE PlansInv'
  BY <1>4, QueryKeepsPlans
<1>5. ASSUME NEW call \in CallIds, TheDatabase!QueryDone(call) PROVE PlansInv'
  BY <1>5, QueryDoneKeeps
<1>6. ASSUME NEW i \in DBIndexes, NEW op, TheDatabase!CallIndex(op, i) PROVE PlansInv'
  <2>1. /\ UNCHANGED <<made, indexes, queryCache, inFlight, metrics, optimized>>
        /\ \E n : indexCalls' = TheDatabase!Put(indexCalls, n, [op |-> op, index |-> i])
    BY <1>6, DatabaseCardinality DEF TheDatabase!CallIndex
  <2>2. \A n \in DOMAIN indexCalls' : indexCalls'[n].index \in DBIndexes
    BY <2>1 DEF TheDatabase!Put, PlansInv, IndexesKept
  <2>3. IndexesKept'
    BY <2>1, <2>2 DEF PlansInv, IndexesKept
  <2> QED  BY <1>1, <1>2, <2>1, <2>3 DEF PlansInv
<1>7. ASSUME NEW n, TheDatabase!IndexCallDone(n) PROVE PlansInv'
  <2>1. /\ n \in DOMAIN indexCalls /\ indexCalls' = TheDatabase!Drop(indexCalls, {n})
        /\ UNCHANGED <<made, queryCache, inFlight, metrics>>
    BY <1>7 DEF TheDatabase!IndexCallDone
  <2> DEFINE i == indexCalls[n].index
  <2>2. \/ indexes' = indexes \cup {i} /\ UNCHANGED optimized
        \/ indexes' = indexes \ {i} /\ optimized' = [optimized EXCEPT !.done = @ \ {i}]
    BY <1>7 DEF TheDatabase!IndexCallDone
  <2>3. i \in DBIndexes /\ indexes \subseteq DBIndexes /\ optimized \in [running : BOOLEAN, done : SUBSET indexes]
    BY <2>1 DEF PlansInv, IndexesKept
  <2>4. \A k \in DOMAIN indexCalls' : indexCalls'[k].index \in DBIndexes
    BY <2>1 DEF TheDatabase!Drop, PlansInv, IndexesKept
  <2> HIDE DEF i
  <2>5. indexes' \subseteq DBIndexes /\ optimized' \in [running : BOOLEAN, done : SUBSET indexes']
    BY <2>2, <2>3
  <2>6. IndexesKept'
    BY <2>4, <2>5 DEF IndexesKept
  <2> QED  BY <1>1, <1>2, <2>1, <2>6 DEF PlansInv
<1>8. CASE TheDatabase!Optimize
  <2>1. UNCHANGED <<made, indexes, indexCalls, queryCache, inFlight, metrics>>
    BY <1>8 DEF TheDatabase!Optimize
  <2>2. optimized \in [running : BOOLEAN, done : SUBSET indexes]
    BY DEF PlansInv, IndexesKept
  <2>3. optimized' \in [running : BOOLEAN, done : SUBSET indexes]
    <3>1. CASE optimized' = [optimized EXCEPT !.running = TRUE]
      BY <2>2, <3>1
    <3>2. ASSUME NEW i \in indexes, optimized' = [optimized EXCEPT !.done = @ \cup {i}]
          PROVE  optimized' \in [running : BOOLEAN, done : SUBSET indexes]
      <4>1. optimized.done \cup {i} \in SUBSET indexes
        BY <2>2
      <4> QED  BY <2>2, <3>2, <4>1
    <3>3. CASE optimized' = [running |-> FALSE, done |-> {}]
      BY <3>3
    <3>4. \/ optimized' = [optimized EXCEPT !.running = TRUE]
          \/ \E i \in indexes : optimized' = [optimized EXCEPT !.done = @ \cup {i}]
          \/ optimized' = [running |-> FALSE, done |-> {}]
      BY <1>8 DEF TheDatabase!Optimize
    <3> QED  BY <3>1, <3>2, <3>3, <3>4
  <2>4. IndexesKept'
    BY <2>1, <2>3 DEF PlansInv, IndexesKept
  <2> QED  BY <1>1, <1>2, <2>1, <2>4 DEF PlansInv
<1>9. CASE TheDatabase!ClearQueryCache
  <2>1. DOMAIN queryCache' = {} /\ UNCHANGED <<made, indexes, indexCalls, inFlight, metrics, optimized>>
    BY <1>9 DEF TheDatabase!ClearQueryCache, TheDatabase!Empty
  <2>2. ResultsKept' /\ FlightsKept'
    BY <2>1 DEF ResultsKept, TheDatabase!IsMap, TheDatabase!CacheReads, PlansInv, FlightsKept, IsPlan
  <2> QED  BY <1>2, <1>3, <2>1, <2>2 DEF PlansInv
<1>10. CASE TheDatabase!SwitchPooling
  BY <1>1, <1>2, <1>3, <1>10 DEF TheDatabase!SwitchPooling, PlansInv
<1>11. CASE TheDatabase!StopDatabase
  <2>1. /\ DOMAIN queryCache' = {} /\ metrics' = [metrics EXCEPT !.kept = 0]
        /\ UNCHANGED <<made, indexes, indexCalls, inFlight, optimized>>
    BY <1>11 DEF TheDatabase!StopDatabase, TheDatabase!Empty
  <2>2. ResultsKept' /\ FlightsKept'
    BY <2>1 DEF ResultsKept, TheDatabase!IsMap, TheDatabase!CacheReads, PlansInv, FlightsKept, IsPlan
  <2>3. CountsKept'
    BY <2>1 DEF PlansInv, CountsKept
  <2> QED  BY <1>3, <2>1, <2>2, <2>3 DEF PlansInv
<1>12. CASE UNCHANGED TheDatabase!dbVars
  BY <1>1, <1>2, <1>3, <1>12 DEF TheDatabase!dbVars, PlansInv
<1> QED  BY <1>4, <1>5, <1>6, <1>7, <1>8, <1>9, <1>10, <1>11, <1>12 DEF TheDatabase!Next

LEMMA PlansInvSays == ASSUME DatabaseConstants, PlansConstants, DatabaseInv, PlansInv PROVE TheDatabase!TypeOK /\ TheDatabase!CacheReads
<1>1. pooling \in BOOLEAN /\ TheDatabase!IsMap(connectionPool, 1..made, BOOLEAN) /\ made \in Nat
  BY DEF DatabaseInv
<1>2. made \in PoolSize..MaxMade /\ metrics.kept \in 0..metrics.total
  BY DEF PlansInv, CountsKept
<1>3. TheDatabase!IsMap(connectionPool, 1..MaxMade, BOOLEAN)
  <2>1. 1..made \subseteq 1..MaxMade
    BY <1>1, <1>2 DEF DatabaseConstants, PlansConstants
  <2> QED  BY <1>1, <2>1 DEF TheDatabase!IsMap
<1> QED  BY <1>1, <1>2, <1>3 DEF PlansInv, IndexesKept, FlightsKept, ResultsKept, TheDatabase!TypeOK

-----------------------------------------------------------------------------
\* AMLSystem.  A user's history is the tail of his analyses, and a transaction of one
\* from whom the threshold of transactions of this hour is remembered is critical,
\* so it is not remembered.
LEMMA AMLCardinality == \A S : TheAML!Cardinality(S) = Cardinality(S)
BY DEF Cardinality, TheAML!Cardinality

LEMMA AMLKept == \A s, S : TheAML!Kept(s, S) = Kept(s, S)
BY DEF Kept, TheAML!Kept, Nth, TheAML!Nth, Below, TheAML!Below, Cardinality, TheAML!Cardinality

AMLConstants ==
    /\ FrequencyThreshold \in Nat /\ MaxFrequency \in Nat /\ AnalysesKept \in Nat /\ MaxHours \in Nat
    /\ \A t \in AMLTransactions : {t.high, t.split, t.round, t.odd} \subseteq BOOLEAN

AnalysisType == {a \in [tx : AMLTransactions, level : {"MEDIUM", "HIGH"}, blocked : {FALSE}, autoApproved : BOOLEAN,
                        requiresManualReview : BOOLEAN] : a.autoApproved => a.level = "MEDIUM"}
AMLAlertType == [tx : AMLTransactions, status : TheAML!AlertStatuses]
HistoryEntryType == [tx : AMLTransactions, at : 0..hour]

AMLTyped ==
    /\ hour \in 0..MaxHours
    /\ analyses \in Seq(AnalysisType) /\ alerts \in Seq(AMLAlertType)
    /\ \A r \in amlReports : r.blocked = 0
HistoriesTyped == TheAML!IsMap(amlHistory, TheAML!Users, Seq(HistoryEntryType))

AMLInv == AMLTyped /\ HistoriesTyped /\ TheAML!HistoryIsAnalysed /\ TheAML!FrequencyCloses

PlacesOf(u) == {i \in DOMAIN analyses : analyses[i].tx.from = u}
IsTailOf(r, q) == Len(r) <= Len(q) /\ \A i \in 1..Len(r) : r[i].tx = q[Len(q) - Len(r) + i].tx

LEMMA AMLHistoryIs ==
    ASSUME HistoriesTyped
    PROVE  \A u \in TheAML!Users : TheAML!History(u) \in Seq(HistoryEntryType)
BY DEF HistoriesTyped, TheAML!IsMap, TheAML!History, TheAML!Get

LEMMA AMLInit == ASSUME AMLConstants PROVE TheAML!Init => AMLInv
<1> SUFFICES ASSUME TheAML!Init PROVE AMLInv
  OBVIOUS
<1>1. AMLTyped
  BY DEF TheAML!Init, AMLTyped, AMLConstants
<1>2. HistoriesTyped /\ \A u \in TheAML!Users : TheAML!History(u) = <<>>
  BY DEF TheAML!Init, HistoriesTyped, TheAML!IsMap, TheAML!Empty, TheAML!History, TheAML!Get
<1>3. \A u \in TheAML!Users : TheAML!LastHour(u) = {}
  BY <1>2 DEF TheAML!LastHour
<1>4. TheAML!FrequencyCloses
  BY <1>3, FS_EmptySet, AMLCardinality DEF TheAML!FrequencyCloses, AMLConstants
<1>5. ASSUME NEW u \in TheAML!Users PROVE IsTailOf(TheAML!History(u), Kept(analyses, PlacesOf(u)))
  <2>1. analyses \in Seq(AnalysisType) /\ PlacesOf(u) \subseteq DOMAIN analyses
    BY <1>1 DEF AMLTyped, PlacesOf
  <2>2. Len(Kept(analyses, PlacesOf(u))) \in Nat
    BY <2>1, KeptIsSeq, LenProperties
  <2> QED  BY <1>2, <2>2 DEF IsTailOf
<1>6. TheAML!HistoryIsAnalysed
  BY <1>5, AMLKept DEF TheAML!HistoryIsAnalysed, IsTailOf, PlacesOf
<1> QED  BY <1>1, <1>2, <1>4, <1>6 DEF AMLInv

\* What is not critical has no high frequency, and is at least of medium risk.
LEMMA AnalysisIs ==
    ASSUME AMLConstants, NEW t \in AMLTransactions
    PROVE  /\ TheAML!Analysis(t).level # "CRITICAL" => TheAML!Analysis(t) \in AnalysisType /\ "HIGH_FREQUENCY" \notin TheAML!SuspiciousPatterns(t)
           /\ TheAML!Analysis(t).tx = t
<1> DEFINE found == TheAML!SuspiciousPatterns(t)
           patterns == TheAML!Weighs("STRUCTURING" \in found, 20) + TheAML!Weighs("ROUND_AMOUNT" \in found, 15)
                         + TheAML!Weighs("HIGH_FREQUENCY" \in found, 30) + TheAML!Weighs("UNUSUAL_HOURS" \in found, 15)
           factors == TheAML!RiskFactors(t)
           sum == 100 + factors + 2 * patterns
           twice == TheAML!TwiceRiskScore(t)
           level == TheAML!RiskLevel(twice)
<1>1. factors \in 0..80
  BY DEF TheAML!RiskFactors, TheAML!Weighs
<1>2. patterns \in 0..80 /\ ("HIGH_FREQUENCY" \in found => patterns >= 30)
  <2> HIDE DEF found
  <2> QED  BY DEF TheAML!Weighs
<1>3. twice = TheAML!Min({200, sum})
  BY DEF TheAML!TwiceRiskScore
<1> HIDE DEF factors, patterns, twice
<1>4. sum \in Int /\ sum >= 100 /\ ("HIGH_FREQUENCY" \in found => sum >= 160)
  BY <1>1, <1>2
<1> HIDE DEF sum, found
<1>5. TheAML!Min({200, sum}) = IF sum < 200 THEN sum ELSE 200
  BY <1>4 DEF TheAML!Min
<1>6. twice \in Int /\ twice >= 100 /\ ("HIGH_FREQUENCY" \in found => twice >= 160)
  BY <1>3, <1>4, <1>5
<1>7. level = IF twice < 120 THEN "MEDIUM" ELSE IF twice < 160 THEN "HIGH" ELSE "CRITICAL"
  BY <1>6 DEF TheAML!RiskLevel
<1>8. level \in {"MEDIUM", "HIGH", "CRITICAL"} /\ ("HIGH_FREQUENCY" \in found => level = "CRITICAL")
  BY <1>6, <1>7
<1> HIDE DEF level
<1> DEFINE auto == level = "LOW" \/ (level = "MEDIUM" /\ found = {})
<1>9. TheAML!Analysis(t) = [tx |-> t, level |-> level, blocked |-> level = "CRITICAL", autoApproved |-> auto,
                     requiresManualReview |-> ~auto]
  BY DEF TheAML!Analysis, level, twice, found
<1>10. auto \in BOOLEAN /\ (auto /\ level # "LOW" => level = "MEDIUM")
  BY Zenon
<1> HIDE DEF auto
<1>11. TheAML!Analysis(t).level = level /\ TheAML!Analysis(t).tx = t
  BY <1>9
<1>12. ASSUME level # "CRITICAL" PROVE TheAML!Analysis(t) \in AnalysisType
  <2> DEFINE blocked == level = "CRITICAL"
             review == ~auto
  <2>1. blocked = FALSE /\ review \in BOOLEAN
    BY <1>12, Zenon
  <2>2. TheAML!Analysis(t) = [tx |-> t, level |-> level, blocked |-> blocked, autoApproved |-> auto,
                       requiresManualReview |-> review]
    BY <1>9
  <2>3. level \in {"MEDIUM", "HIGH"} /\ (auto => level = "MEDIUM")
    BY <1>8, <1>10, <1>12
  <2> HIDE DEF blocked, review
  <2>4. TheAML!Analysis(t) \in [tx : AMLTransactions, level : {"MEDIUM", "HIGH"}, blocked : {FALSE}, autoApproved : BOOLEAN,
                          requiresManualReview : BOOLEAN]
    <3>1. t \in AMLTransactions /\ level \in {"MEDIUM", "HIGH"} /\ blocked \in {FALSE} /\ auto \in BOOLEAN /\ review \in BOOLEAN
      BY <1>10, <2>1, <2>3, Zenon
    <3>2. [tx |-> t, level |-> level, blocked |-> blocked, autoApproved |-> auto, requiresManualReview |-> review]
             \in [tx : AMLTransactions, level : {"MEDIUM", "HIGH"}, blocked : {FALSE}, autoApproved : BOOLEAN,
                  requiresManualReview : BOOLEAN]
      BY <3>1, Zenon
    <3> QED  BY <2>2, <3>2
  <2>5. TheAML!Analysis(t).autoApproved => TheAML!Analysis(t).level = "MEDIUM"
    BY <2>2, <2>3
  <2> QED  BY <2>4, <2>5 DEF AnalysisType
<1> QED  BY <1>8, <1>11, <1>12 DEF found

\* The tail a history is cut to.
LEMMA TailBegins == ASSUME AMLConstants, NEW L \in Nat PROVE TheAML!Max({1, L - AnalysesKept + 1}) \in 1..(L + 1)
<1> DEFINE k == L - AnalysesKept + 1
<1>1. k \in Int /\ k <= L + 1
  BY DEF AMLConstants
<1> HIDE DEF k
<1>2. TheAML!Max({1, k}) = IF k > 1 THEN k ELSE 1
  BY <1>1 DEF TheAML!Max
<1> QED  BY <1>1, <1>2 DEF k

LEMMA TailIs ==
    ASSUME NEW T, NEW s \in Seq(T), NEW m \in 1..(Len(s) + 1)
    PROVE  /\ SubSeq(s, m, Len(s)) \in Seq(T) /\ Len(SubSeq(s, m, Len(s))) \in 0..Len(s)
           /\ \A i \in 1..Len(SubSeq(s, m, Len(s))) : SubSeq(s, m, Len(s))[i] = s[Len(s) - Len(SubSeq(s, m, Len(s))) + i]
<1> DEFINE L == Len(s)
           r == SubSeq(s, m, L)
<1>1. L \in Nat /\ m \in 1..(L + 1) /\ \A i \in 1..L : s[i] \in T
  BY LenProperties, ElementOfSeq
<1> HIDE DEF L
<1>2. m \in Int /\ L \in Int /\ \A i \in m..L : s[i] \in T
  BY <1>1
<1>3. r \in Seq(T) /\ Len(r) = (IF m <= L THEN L - m + 1 ELSE 0) /\ \A i \in 1..(L - m + 1) : r[i] = s[m + i - 1]
  BY <1>2, SubSeqProperties
<1> HIDE DEF r
<1>4. Len(r) = L - m + 1 /\ Len(r) \in 0..L
  BY <1>1, <1>3
<1>5. ASSUME NEW i \in 1..Len(r) PROVE r[i] = s[L - Len(r) + i]
  <2>1. m + i - 1 = L - Len(r) + i
    BY <1>1, <1>4
  <2>2. i \in 1..(L - m + 1)
    BY <1>4
  <2> QED  BY <1>3, <2>1, <2>2
<1> QED  BY <1>3, <1>4, <1>5 DEF r, L

\* The entries of a place's kind in the tail are no more than there were and one.
LEMMA TailHasNoMore ==
    ASSUME NEW N \in Nat, NEW l \in 0..(N + 1), NEW S, S \subseteq 1..N, NEW R, R \subseteq 1..l,
           \A i \in R : N + 1 - l + i \in S \cup {N + 1}
    PROVE  Cardinality(R) \in Nat /\ Cardinality(R) <= Cardinality(S) + 1 /\ Cardinality(S) \in Nat
<1> DEFINE more == S \cup {N + 1}
           f == [i \in R |-> N + 1 - l + i]
<1>1. IsFiniteSet(S) /\ Cardinality(S) \in Nat
  <2>1. IsFiniteSet(1..N)
    BY FS_Interval
  <2> QED  BY <2>1, FS_Subset, FS_CardinalityType
<1>2. N + 1 \notin S
  OBVIOUS
<1>3. IsFiniteSet(more) /\ Cardinality(more) = Cardinality(S) + 1
  BY <1>1, <1>2, FS_AddElement
<1>4. f \in Injection(R, more)
  <2>1. f \in [R -> more]
    OBVIOUS
  <2>2. \A i, j \in R : f[i] = f[j] => i = j
    OBVIOUS
  <2> QED  BY <2>1, <2>2 DEF Injection, IsInjective
<1> HIDE DEF f, more
<1>5. IsFiniteSet(R) /\ Cardinality(R) <= Cardinality(more)
  BY <1>3, <1>4, FS_Injection
<1> QED  BY <1>1, <1>3, <1>5, FS_CardinalityType

LEMMA AMLStep == ASSUME AMLConstants, AMLInv, [TheAML!Next]_TheAML!amlVars PROVE AMLInv'
<1>0. AMLTyped /\ HistoriesTyped /\ TheAML!HistoryIsAnalysed /\ TheAML!FrequencyCloses
  BY DEF AMLInv
<1>1. ASSUME UNCHANGED <<hour, amlHistory>> PROVE HistoriesTyped' /\ TheAML!FrequencyCloses'
  BY <1>0, <1>1, AMLCardinality DEF HistoriesTyped, TheAML!IsMap, HistoryEntryType, TheAML!FrequencyCloses, TheAML!LastHour, TheAML!History
<1>2. ASSUME UNCHANGED <<analyses, amlHistory>> PROVE TheAML!HistoryIsAnalysed'
  BY <1>0, <1>2, AMLKept DEF TheAML!HistoryIsAnalysed, TheAML!History
<1>3. ASSUME NEW t \in AMLTransactions, TheAML!AnalyzeTransaction(t) PROVE AMLInv'
  <2>1. alerts' = alerts \o TheAML!PatternAlerts(t) /\ UNCHANGED <<hour, amlReports>>
    BY <1>3 DEF TheAML!AnalyzeTransaction
  <2>2. alerts' \in Seq(AMLAlertType)
    <3>1. TheAML!PatternAlerts(t) \in Seq(AMLAlertType)
      <4> DEFINE a == [tx |-> t, status |-> "OPEN"]
      <4>1. a \in AMLAlertType
        BY DEF AMLAlertType, TheAML!AlertStatuses
      <4> HIDE DEF a
      <4>2. <<a>> \in Seq(AMLAlertType) /\ <<>> \in Seq(AMLAlertType)
        BY <4>1
      <4> QED  BY <4>2 DEF TheAML!PatternAlerts, a
    <3>2. alerts \in Seq(AMLAlertType)
      BY <1>0 DEF AMLTyped
    <3> QED  BY <2>1, <3>1, <3>2, ConcatProperties
  <2>3. CASE TheAML!Analysis(t).level = "CRITICAL"
    <3>1. UNCHANGED <<analyses, amlHistory>>
      BY <1>3, <2>3 DEF TheAML!AnalyzeTransaction
    <3>2. AMLTyped'
      BY <1>0, <2>1, <2>2, <3>1 DEF AMLTyped
    <3> QED  BY <1>1, <1>2, <2>1, <3>1, <3>2 DEF AMLInv
  <2>4. CASE TheAML!Analysis(t).level # "CRITICAL"
    <3> DEFINE a == TheAML!Analysis(t)
               u == t.from
               h == TheAML!History(u)
               e == [tx |-> t, at |-> hour]
               longer == Append(h, e)
               r == SubSeq(longer, TheAML!Max({1, Len(longer) - AnalysesKept + 1}), Len(longer))
    <3>1. analyses' = Append(analyses, a) /\ amlHistory' = TheAML!Put(amlHistory, u, r)
      BY <1>3, <2>4 DEF TheAML!AnalyzeTransaction, TheAML!Remember
    <3>2. a \in AnalysisType /\ a.tx = t /\ "HIGH_FREQUENCY" \notin TheAML!SuspiciousPatterns(t)
      BY <2>4, AnalysisIs
    <3>3. analyses \in Seq(AnalysisType) /\ hour \in 0..MaxHours /\ MaxHours \in Nat /\ FrequencyThreshold \in Nat
      BY <1>0 DEF AMLTyped, AMLConstants
    <3>4. e \in HistoryEntryType
      BY <3>3 DEF HistoryEntryType
    <3>5. u \in TheAML!Users /\ h \in Seq(HistoryEntryType)
      BY <1>0, AMLHistoryIs DEF TheAML!Users
    <3>6. r \in Seq(HistoryEntryType) /\ Len(r) \in 0..(Len(h) + 1) /\ \A i \in 1..Len(r) : r[i] = longer[Len(h) + 1 - Len(r) + i]
      <4>1. longer \in Seq(HistoryEntryType) /\ Len(longer) = Len(h) + 1 /\ Len(longer) \in Nat
        BY <3>4, <3>5, AppendProperties, LenProperties
      <4> HIDE DEF longer
      <4> DEFINE m == TheAML!Max({1, Len(longer) - AnalysesKept + 1})
      <4>2. m \in 1..(Len(longer) + 1)
        BY <4>1, TailBegins
      <4>3. r = SubSeq(longer, m, Len(longer))
        OBVIOUS
      <4> HIDE DEF m, r
      <4>4. /\ r \in Seq(HistoryEntryType) /\ Len(r) \in 0..Len(longer)
            /\ \A i \in 1..Len(r) : r[i] = longer[Len(longer) - Len(r) + i]
        BY <4>1, <4>2, <4>3, TailIs
      <4> QED  BY <4>1, <4>4
    <3>7. Cardinality(TheAML!LastHour(u)) < FrequencyThreshold
      <4>1. ~(Cardinality(TheAML!LastHour(u)) >= FrequencyThreshold)
        BY <3>2, AMLCardinality DEF TheAML!SuspiciousPatterns
      <4>2. Cardinality(TheAML!LastHour(u)) \in Nat
        <5>1. TheAML!LastHour(u) \subseteq 1..Len(h) /\ Len(h) \in Nat
          BY <3>5, LenProperties DEF TheAML!LastHour
        <5>2. IsFiniteSet(1..Len(h))
          BY <5>1, FS_Interval
        <5> QED  BY <5>1, <5>2, FS_Subset, FS_CardinalityType
      <4> QED  BY <3>3, <4>1, <4>2
    <3>8. /\ longer[Len(h) + 1] = e /\ Len(h) \in Nat /\ DOMAIN h = 1..Len(h)
          /\ \A i \in 1..Len(h) : longer[i] = h[i]
      BY <3>4, <3>5, AppendProperties, LenProperties
    <3> HIDE DEF a, longer, r, e
    <3>9. \A w \in TheAML!Users : TheAML!History(w)' = IF w = u THEN r ELSE TheAML!History(w)
      BY <3>1 DEF TheAML!History, TheAML!Get, TheAML!Put
    <3>10. AMLTyped'
      <4>1. analyses' \in Seq(AnalysisType)
        BY <3>1, <3>2, <3>3, AppendProperties
      <4> QED  BY <1>0, <2>1, <2>2, <4>1 DEF AMLTyped
    <3>11. HistoriesTyped'
      BY <1>0, <2>1, <3>1, <3>5, <3>6 DEF HistoriesTyped, TheAML!IsMap, TheAML!Put, HistoryEntryType
    <3>12. TheAML!FrequencyCloses'
      <4>1. ASSUME NEW w \in TheAML!Users PROVE Cardinality(TheAML!LastHour(w)') <= FrequencyThreshold
        <5>1. CASE w # u
          <6>1. TheAML!LastHour(w)' = TheAML!LastHour(w)
            BY <2>1, <3>9, <5>1 DEF TheAML!LastHour
          <6> QED  BY <1>0, <6>1, AMLCardinality DEF TheAML!FrequencyCloses
        <5>2. CASE w = u
          <6> DEFINE N == Len(h)
                     l == Len(r)
                     S == TheAML!LastHour(u)
                     R == TheAML!LastHour(u)'
          <6>1. DOMAIN r = 1..l /\ S = {i \in 1..N : h[i].at = hour} /\ R = {i \in 1..l : r[i].at = hour}
            BY <2>1, <3>5, <3>6, <3>8, <3>9, LenProperties DEF TheAML!LastHour
          <6>2. ASSUME NEW i \in R PROVE N + 1 - l + i \in S \cup {N + 1}
            <7> DEFINE k == N + 1 - l + i
            <7>1. i \in 1..l /\ (k \in 1..N \/ k = N + 1)
              BY <3>6, <3>8, <6>1
            <7>2. longer[k].at = hour
              BY <3>6, <6>1
            <7>3. k \in 1..N => h[k].at = hour
              BY <3>8, <7>2
            <7> HIDE DEF k
            <7> QED  BY <6>1, <7>1, <7>3 DEF k
          <6>3. N \in Nat /\ l \in 0..(N + 1) /\ S \subseteq 1..N /\ R \subseteq 1..l
            BY <3>6, <3>8, <6>1
          <6> HIDE DEF N, l, S, R
          <6>4. Cardinality(R) \in Nat /\ Cardinality(R) <= Cardinality(S) + 1 /\ Cardinality(S) \in Nat
            BY <6>2, <6>3, TailHasNoMore
          <6>5. Cardinality(R) <= FrequencyThreshold
            BY <3>3, <3>7, <6>4 DEF S
          <6> QED  BY <5>2, <6>5 DEF R
        <5> QED  BY <5>1, <5>2
      <4> QED  BY <4>1, AMLCardinality DEF TheAML!FrequencyCloses
    <3>13. TheAML!HistoryIsAnalysed'
      <4>1. ASSUME NEW w \in TheAML!Users PROVE IsTailOf(TheAML!History(w)', Kept(analyses, PlacesOf(w))')
        <5> DEFINE k == Kept(analyses, PlacesOf(w))
        <5>1. IsTailOf(TheAML!History(w), k)
          BY <1>0, AMLKept DEF TheAML!HistoryIsAnalysed, IsTailOf, PlacesOf
        <5>2. DOMAIN analyses = 1..Len(analyses) /\ Len(analyses) \in Nat /\ PlacesOf(w) \subseteq 1..Len(analyses)
          BY <3>3, LenProperties DEF PlacesOf
        <5>3. k \in Seq(AnalysisType)
          BY <3>3, <5>2, KeptIsSeq
        <5>4. /\ DOMAIN analyses' = 1..(Len(analyses) + 1) /\ analyses'[Len(analyses) + 1] = a
              /\ \A i \in 1..Len(analyses) : analyses'[i] = analyses[i]
          BY <3>1, <3>2, <3>3, AppendProperties, LenProperties
        <5>5. PlacesOf(w)' = IF w = u THEN PlacesOf(w) \cup {Len(analyses) + 1} ELSE PlacesOf(w)
          <6> DEFINE N == Len(analyses)
          <6>1. N \in Nat /\ DOMAIN analyses = 1..N /\ DOMAIN analyses' = 1..(N + 1)
                /\ analyses'[N + 1] = a /\ \A i \in 1..N : analyses'[i] = analyses[i]
            BY <5>2, <5>4
          <6> HIDE DEF N
          <6>2. \A i : i \in 1..(N + 1) <=> i \in 1..N \/ i = N + 1
            BY <6>1
          <6> QED  BY <3>2, <6>1, <6>2 DEF PlacesOf, N
        <5>6. Kept(analyses, PlacesOf(w))' = IF w = u THEN Append(k, a) ELSE k
          <6>1. /\ Kept(Append(analyses, a), PlacesOf(w)) = k
                /\ Kept(Append(analyses, a), PlacesOf(w) \cup {Len(analyses) + 1}) = Append(k, a)
            <7> DEFINE S == PlacesOf(w)
            <7>1. S \subseteq 1..Len(analyses) /\ a \in AnalysisType /\ analyses \in Seq(AnalysisType)
              BY <3>2, <3>3, <5>2
            <7> HIDE DEF S
            <7>2. /\ Kept(Append(analyses, a), S) = Kept(analyses, S)
                  /\ Kept(Append(analyses, a), S \cup {Len(analyses) + 1}) = Append(Kept(analyses, S), a)
              BY <7>1, KeptAppend
            <7> QED  BY <7>2 DEF S
          <6>2. Kept(analyses, PlacesOf(w))' = Kept(analyses', PlacesOf(w)')
            BY DEF Kept, Nth, Below
          <6> QED  BY <3>1, <5>5, <6>1, <6>2
        <5>7. CASE w # u
          BY <3>9, <5>1, <5>6, <5>7
        <5>8. CASE w = u
          <6> DEFINE N == Len(h)
                     K == Len(k)
                     l == Len(r)
                     q == Append(k, a)
          <6>1. /\ K \in Nat /\ Len(q) = K + 1 /\ q[K + 1] = a /\ \A i \in 1..K : q[i] = k[i]
            BY <3>2, <5>3, AppendProperties, LenProperties
          <6>2. N \in Nat /\ N <= K /\ \A i \in 1..N : h[i].tx = k[K - N + i].tx
            BY <3>8, <5>1, <5>8 DEF IsTailOf
          <6>3. /\ l \in 0..(N + 1) /\ \A i \in 1..l : r[i] = longer[N + 1 - l + i]
                /\ longer[N + 1] = e /\ \A i \in 1..N : longer[i] = h[i]
            BY <3>6, <3>8
          <6>4. e.tx = t /\ a.tx = t
            BY <3>2 DEF e
          <6> HIDE DEF N, K, l, q, k, h, u
          <6>5. ASSUME NEW i \in 1..l PROVE r[i].tx = q[K + 1 - l + i].tx
            <7> DEFINE j == N + 1 - l + i
            <7>1. r[i] = longer[j] /\ (j \in 1..N \/ j = N + 1) /\ K + 1 - l + i = K - N + j
              BY <6>1, <6>2, <6>3
            <7> HIDE DEF j
            <7>2. CASE j = N + 1
              <8>1. K - N + j = K + 1
                BY <6>1, <6>2, <7>2
              <8> QED  BY <6>1, <6>3, <6>4, <7>1, <7>2, <8>1
            <7>3. CASE j \in 1..N
              <8>1. K - N + j \in 1..K
                BY <6>1, <6>2, <7>3
              <8>2. longer[j].tx = k[K - N + j].tx /\ q[K - N + j] = k[K - N + j]
                BY <6>1, <6>2, <6>3, <7>3, <8>1
              <8> QED  BY <7>1, <8>2
            <7> QED  BY <7>1, <7>2, <7>3
          <6>6. l <= Len(q)
            BY <6>1, <6>2, <6>3
          <6>7. IsTailOf(r, q)
            <7>1. l = Len(r)
              BY DEF l
            <7>2. \A i \in 1..l : r[i].tx = q[Len(q) - l + i].tx
              BY <6>1, <6>3, <6>5
            <7> QED  BY <6>6, <7>1, <7>2 DEF IsTailOf
          <6> QED  BY <3>9, <5>6, <5>8, <6>7 DEF q, k
        <5> QED  BY <5>7, <5>8
      <4> QED  BY <4>1, AMLKept DEF TheAML!HistoryIsAnalysed, IsTailOf, PlacesOf
    <3> QED  BY <3>10, <3>11, <3>12, <3>13 DEF AMLInv
  <2> QED  BY <2>3, <2>4
<1>4. ASSUME NEW i \in DOMAIN alerts, NEW s \in TheAML!AlertStatuses, TheAML!UpdateAlertStatus(i, s) PROVE AMLInv'
  <2>1. UNCHANGED <<hour, analyses, amlHistory, amlReports>> /\ alerts' = [alerts EXCEPT ![i].status = s]
    BY <1>4 DEF TheAML!UpdateAlertStatus
  <2>2. alerts \in Seq(AMLAlertType) /\ i \in 1..Len(alerts)
    BY <1>0, LenProperties DEF AMLTyped
  <2> DEFINE e == [alerts[i] EXCEPT !.status = s]
  <2>3. e \in AMLAlertType
    <3>1. alerts[i] \in AMLAlertType
      BY <2>2, ElementOfSeq
    <3> QED  BY <3>1 DEF AMLAlertType
  <2>4. alerts' = [alerts EXCEPT ![i] = e]
    BY <2>1
  <2> HIDE DEF e
  <2>5. alerts' \in Seq(AMLAlertType)
    BY <2>2, <2>3, <2>4, ExceptSeq
  <2>6. AMLTyped'
    BY <1>0, <2>1, <2>5 DEF AMLTyped
  <2> QED  BY <1>1, <1>2, <2>1, <2>6 DEF AMLInv
<1>5. CASE TheAML!GenerateReport
  <2>1. UNCHANGED <<hour, analyses, amlHistory, alerts>>
    BY <1>5, AMLCardinality DEF TheAML!GenerateReport
  <2>2. {i \in DOMAIN analyses : analyses[i].blocked} = {}
    <3>1. \A i \in DOMAIN analyses : analyses[i] \in AnalysisType
      BY <1>0, LenProperties, ElementOfSeq DEF AMLTyped
    <3> QED  BY <3>1 DEF AnalysisType
  <2>3. \A r \in amlReports' : r.blocked = 0
    <3>1. \A r \in amlReports : r.blocked = 0
      BY <1>0 DEF AMLTyped
    <3>2. Cardinality({i \in DOMAIN analyses : analyses[i].blocked}) = 0
      BY <2>2, FS_EmptySet
    <3> QED  BY <1>5, <3>1, <3>2, AMLCardinality DEF TheAML!GenerateReport
  <2>4. AMLTyped'
    BY <1>0, <2>1, <2>3 DEF AMLTyped
  <2> QED  BY <1>1, <1>2, <2>1, <2>4 DEF AMLInv
<1>6. CASE TheAML!HourPasses
  <2>1. UNCHANGED <<analyses, amlHistory, alerts, amlReports>> /\ hour < MaxHours /\ hour' = hour + 1
    BY <1>6 DEF TheAML!HourPasses
  <2>2. hour \in 0..MaxHours /\ MaxHours \in Nat /\ FrequencyThreshold \in Nat
    BY <1>0 DEF AMLTyped, AMLConstants
  <2>3. AMLTyped'
    BY <1>0, <2>1, <2>2 DEF AMLTyped
  <2>4. HistoryEntryType \subseteq HistoryEntryType'
    BY <2>1, <2>2 DEF HistoryEntryType
  <2>5. \A u \in DOMAIN amlHistory : amlHistory[u] \in Seq(HistoryEntryType')
    BY <1>0, <2>4, SeqMonotonic DEF HistoriesTyped, TheAML!IsMap
  <2>6. HistoriesTyped'
    BY <1>0, <2>1, <2>5 DEF HistoriesTyped, TheAML!IsMap
  <2>7. ASSUME NEW u \in TheAML!Users PROVE TheAML!LastHour(u)' = {}
    <3>1. TheAML!History(u)' = TheAML!History(u) /\ TheAML!History(u) \in Seq(HistoryEntryType)
      BY <1>0, <2>1, AMLHistoryIs DEF TheAML!History
    <3>2. \A i \in DOMAIN TheAML!History(u) : TheAML!History(u)[i] \in HistoryEntryType
      BY <3>1, LenProperties, ElementOfSeq
    <3>3. \A i \in DOMAIN TheAML!History(u) : TheAML!History(u)[i].at # hour'
      BY <2>1, <2>2, <3>2 DEF HistoryEntryType
    <3> QED  BY <3>1, <3>3 DEF TheAML!LastHour
  <2>8. TheAML!FrequencyCloses'
    BY <2>2, <2>7, FS_EmptySet, AMLCardinality DEF TheAML!FrequencyCloses
  <2> QED  BY <1>2, <2>1, <2>3, <2>6, <2>8 DEF AMLInv
<1>7. CASE UNCHANGED TheAML!amlVars
  <2>1. AMLTyped'
    BY <1>0, <1>7 DEF TheAML!amlVars, AMLTyped
  <2> QED  BY <1>1, <1>2, <1>7, <2>1 DEF TheAML!amlVars, AMLInv
<1> QED  BY <1>3, <1>4, <1>5, <1>6, <1>7 DEF TheAML!Next

LEMMA AMLInvSays ==
    ASSUME AMLConstants
    PROVE  AMLInv => TheAML!TypeOK /\ TheAML!HistoryIsAnalysed /\ TheAML!FrequencyCloses /\ TheAML!NothingBlockedKept
<1> SUFFICES ASSUME AMLInv PROVE TheAML!TypeOK /\ TheAML!NothingBlockedKept
  BY DEF AMLInv
<1>0. AMLTyped /\ HistoriesTyped
  BY DEF AMLInv
<1>1. \A i \in DOMAIN analyses : analyses[i] \in AnalysisType
  BY <1>0, LenProperties, ElementOfSeq DEF AMLTyped
<1>2. TheAML!NothingBlockedKept
  BY <1>0, <1>1 DEF TheAML!NothingBlockedKept, AnalysisType, AMLTyped
<1>3. HistoryEntryType \subseteq [tx : AMLTransactions, at : 0..MaxHours]
  <2>1. hour \in 0..MaxHours /\ MaxHours \in Nat
    BY <1>0 DEF AMLTyped, AMLConstants
  <2>2. 0..hour \subseteq 0..MaxHours
    BY <2>1
  <2> QED  BY <2>2 DEF HistoryEntryType
<1>4. TheAML!IsMap(amlHistory, TheAML!Users, Seq([tx : AMLTransactions, at : 0..MaxHours]))
  BY <1>0, <1>3, SeqMonotonic DEF HistoriesTyped, TheAML!IsMap
<1> QED  BY <1>0, <1>1, <1>2, <1>4 DEF AMLTyped, AnalysisType, AMLAlertType, TheAML!TypeOK

-----------------------------------------------------------------------------
\* KYCSystem.  A request is decided once, at the end of its pipeline: before that it
\* has no verification and, unless somebody wrote to it, is in progress.
KYCConstants ==
    /\ MaxKYCUpdates \in Nat
    /\ Profiles \subseteq [type : {"INDIVIDUAL", "BUSINESS", "HIGH_VALUE"}, weight : Nat, docs : Seq(STRING)]

RequestType ==
    [user : Applicants, type : {"INDIVIDUAL", "BUSINESS", "HIGH_VALUE"}, weight : Nat,
     status : TheKYC!Outcomes \cup {"IN_PROGRESS"}, submittedAt : Nat, documents : Seq(STRING), complete : BOOLEAN,
     biometricData : BOOLEAN, backgroundCheck : BOOLEAN, riskScore : Nat,
     stage : {"documents", "biometrics", "done"}, byHand : BOOLEAN]
VerificationType == [status : TheKYC!Outcomes, risk : {"LOW", "MEDIUM", "HIGH", "CRITICAL"}]

Modest(q) == q.type # "HIGH_VALUE" /\ TheKYC!RiskLevel(q.riskScore) \in {"LOW", "MEDIUM"}
InPipeline(q) == q.stage # "done" /\ (~q.byHand => q.status = "IN_PROGRESS")
Decided(i, q, ver) ==
    q.stage = "done" /\ (~q.byHand => q.status = (IF i \in DOMAIN ver THEN ver[i].status ELSE "REJECTED"))
IsRequest(i, q, ver) ==
    /\ q \in RequestType /\ q.submittedAt <= i
    /\ (InPipeline(q) /\ i \notin DOMAIN ver) \/ Decided(i, q, ver)
    /\ q.status = "VERIFIED" /\ ~q.byHand => Modest(q)

RequestsGood ==
    /\ requests \in Seq(RequestType)
    /\ \A i \in DOMAIN requests : IsRequest(i, requests[i], verifications)
    /\ TheKYC!IsMap(verifications, DOMAIN requests, VerificationType)
KYCCallsTyped == watchlist \subseteq Applicants /\ kycUpdates \in 0..MaxKYCUpdates

KYCInv == RequestsGood /\ KYCCallsTyped

LEMMA KYCInit == ASSUME KYCConstants PROVE TheKYC!Init => KYCInv
BY DEF KYCConstants, TheKYC!Init, KYCInv, RequestsGood, KYCCallsTyped, TheKYC!IsMap, TheKYC!Empty

\* The decision is REVIEW_REQUIRED at least for what is of high value.
LEMMA DecisionIs ==
    ASSUME NEW q \in RequestType
    PROVE  /\ TheKYC!Decision(q) \in VerificationType /\ TheKYC!TwiceRiskScore(q) \in Nat
           /\ TheKYC!Decision(q).status = "VERIFIED" =>
                q.type # "HIGH_VALUE" /\ TheKYC!RiskLevel(TheKYC!TwiceRiskScore(q)) \in {"LOW", "MEDIUM"}
<1> DEFINE sum == 100 + q.weight + 10 + (IF q.type = "HIGH_VALUE" THEN 25 ELSE 0)
           twice == TheKYC!TwiceRiskScore(q)
           risk == TheKYC!RiskLevel(twice)
<1>1. sum \in Nat /\ (q.type = "HIGH_VALUE" => sum >= 135)
  BY DEF RequestType
<1>2. twice = TheKYC!Min({200, sum})
  BY DEF TheKYC!TwiceRiskScore
<1> HIDE DEF sum, twice
<1>3. TheKYC!Min({200, sum}) = IF sum < 200 THEN sum ELSE 200
  BY <1>1 DEF TheKYC!Min
<1>4. twice \in Nat /\ (q.type = "HIGH_VALUE" => twice >= 135)
  BY <1>1, <1>2, <1>3
<1>5. risk = (IF twice < 60 THEN "LOW" ELSE IF twice < 120 THEN "MEDIUM" ELSE IF twice < 160 THEN "HIGH" ELSE "CRITICAL")
  BY <1>4 DEF TheKYC!RiskLevel
<1>6. risk \in {"LOW", "MEDIUM", "HIGH", "CRITICAL"} /\ (q.type = "HIGH_VALUE" => risk \in {"HIGH", "CRITICAL"})
  BY <1>4, <1>5
<1> HIDE DEF risk
<1> DEFINE status == IF ~q.complete \/ risk = "CRITICAL" THEN "REJECTED"
                     ELSE IF risk = "HIGH" THEN "REVIEW_REQUIRED" ELSE "VERIFIED"
<1>7. TheKYC!Decision(q) = [risk |-> risk, status |-> status]
  BY DEF TheKYC!Decision, risk, twice
<1>8. status \in TheKYC!Outcomes /\ (status = "VERIFIED" => risk \notin {"HIGH", "CRITICAL"})
  BY DEF TheKYC!Outcomes
<1> HIDE DEF status
<1> QED  BY <1>4, <1>6, <1>7, <1>8 DEF VerificationType, risk, twice

\* One request replaced, and decided or not.
LEMMA RequestSet ==
    ASSUME RequestsGood, NEW i \in DOMAIN requests, NEW q, IsRequest(i, q, verifications'),
           requests' = [requests EXCEPT ![i] = q],
           \/ verifications' = verifications
           \/ \E d \in VerificationType : verifications' = TheKYC!Put(verifications, i, d)
    PROVE  RequestsGood'
<1>1. requests \in Seq(RequestType) /\ DOMAIN requests = 1..Len(requests) /\ q \in RequestType
  BY LenProperties DEF RequestsGood, IsRequest
<1>2. /\ requests' \in Seq(RequestType) /\ DOMAIN requests' = DOMAIN requests
      /\ \A j \in DOMAIN requests : requests'[j] = IF j = i THEN q ELSE requests[j]
  BY <1>1, ExceptSeq
<1>3. TheKYC!IsMap(verifications', DOMAIN requests, VerificationType)
  BY DEF RequestsGood, TheKYC!IsMap, TheKYC!Put
<1>4. \A j \in DOMAIN requests \ {i} : /\ j \in DOMAIN verifications' <=> j \in DOMAIN verifications
                                       /\ j \in DOMAIN verifications => verifications'[j] = verifications[j]
  BY DEF TheKYC!Put
<1>5. ASSUME NEW j \in DOMAIN requests PROVE IsRequest(j, requests'[j], verifications')
  <2>1. CASE j = i
    BY <1>2, <2>1
  <2>2. CASE j # i
    <3>1. IsRequest(j, requests[j], verifications)
      BY DEF RequestsGood
    <3> QED  BY <1>2, <1>4, <2>2, <3>1 DEF IsRequest, Decided
  <2> QED  BY <2>1, <2>2
<1> QED  BY <1>2, <1>3, <1>5 DEF RequestsGood

LEMMA Rejected ==
    ASSUME RequestsGood, NEW i \in DOMAIN requests, NEW q \in RequestType, i \notin DOMAIN verifications, q.submittedAt <= i,
           requests' = [requests EXCEPT ![i] = [q EXCEPT !.status = "REJECTED", !.stage = "done", !.byHand = FALSE]],
           UNCHANGED verifications
    PROVE  RequestsGood'
<1> DEFINE r == [q EXCEPT !.status = "REJECTED", !.stage = "done", !.byHand = FALSE]
<1>1. r \in RequestType /\ r.submittedAt = q.submittedAt /\ r.status = "REJECTED" /\ r.stage = "done" /\ r.byHand = FALSE
  BY DEF RequestType, TheKYC!Outcomes
<1> HIDE DEF r
<1>2. IsRequest(i, r, verifications')
  BY <1>1 DEF IsRequest, Decided
<1> QED  BY <1>2, RequestSet DEF r

LEMMA ConcludeStep ==
    ASSUME RequestsGood, NEW i \in DOMAIN requests, NEW q \in RequestType, i \notin DOMAIN verifications, q.submittedAt <= i,
           TheKYC!Conclude(i, q)
    PROVE  RequestsGood'
<1>1. CASE q.backgroundCheck /\ q.user \in watchlist
  BY <1>1, Rejected DEF TheKYC!Conclude
<1>2. CASE ~(q.backgroundCheck /\ q.user \in watchlist)
  <2> DEFINE d == TheKYC!Decision(q)
             r == [q EXCEPT !.status = d.status, !.riskScore = TheKYC!TwiceRiskScore(q), !.stage = "done", !.byHand = FALSE]
  <2>1. verifications' = TheKYC!Put(verifications, i, d) /\ requests' = [requests EXCEPT ![i] = r]
    BY <1>2 DEF TheKYC!Conclude
  <2>2. /\ d \in VerificationType /\ TheKYC!TwiceRiskScore(q) \in Nat
        /\ d.status = "VERIFIED" => q.type # "HIGH_VALUE" /\ TheKYC!RiskLevel(TheKYC!TwiceRiskScore(q)) \in {"LOW", "MEDIUM"}
    BY DecisionIs
  <2> HIDE DEF d
  <2>3. r \in RequestType /\ r.submittedAt = q.submittedAt /\ r.status = d.status /\ r.stage = "done" /\ r.byHand = FALSE
        /\ r.type = q.type /\ r.riskScore = TheKYC!TwiceRiskScore(q)
    BY <2>2 DEF RequestType, VerificationType
  <2> HIDE DEF r
  <2>4. i \in DOMAIN verifications' /\ verifications'[i] = d
    BY <2>1 DEF TheKYC!Put
  <2>5. IsRequest(i, r, verifications')
    BY <2>2, <2>3, <2>4 DEF IsRequest, Decided, Modest
  <2> QED  BY <2>1, <2>2, <2>5, RequestSet
<1> QED  BY <1>1, <1>2

LEMMA AfterDocumentsStep ==
    ASSUME RequestsGood, NEW i \in DOMAIN requests, NEW q \in RequestType, i \notin DOMAIN verifications, q.submittedAt <= i,
           ~q.byHand => q.status = "IN_PROGRESS", TheKYC!AfterDocuments(i, q)
    PROVE  RequestsGood'
<1>1. CASE q.biometricData
  <2> DEFINE r == [q EXCEPT !.stage = "biometrics"]
  <2>1. requests' = [requests EXCEPT ![i] = r] /\ UNCHANGED verifications
    BY <1>1 DEF TheKYC!AfterDocuments
  <2>2. r \in RequestType /\ r.submittedAt = q.submittedAt /\ r.stage = "biometrics" /\ r.status = q.status /\ r.byHand = q.byHand
    BY DEF RequestType
  <2> HIDE DEF r
  <2>3. IsRequest(i, r, verifications')
    BY <2>1, <2>2 DEF IsRequest, InPipeline
  <2> QED  BY <2>1, <2>3, RequestSet
<1>2. CASE ~q.biometricData
  BY <1>2, ConcludeStep DEF TheKYC!AfterDocuments
<1> QED  BY <1>1, <1>2

LEMMA KYCStep == ASSUME KYCConstants, KYCInv, [TheKYC!Next]_TheKYC!kycVars PROVE KYCInv'
<1>0. RequestsGood /\ KYCCallsTyped /\ MaxKYCUpdates \in Nat
  BY DEF KYCInv, KYCConstants
<1>1. requests \in Seq(RequestType) /\ DOMAIN requests = 1..Len(requests) /\ Len(requests) \in Nat
  BY <1>0, LenProperties DEF RequestsGood
<1>2. ASSUME NEW i \in DOMAIN requests
      PROVE  /\ requests[i] \in RequestType /\ requests[i].submittedAt <= i /\ IsRequest(i, requests[i], verifications)
             /\ requests[i].stage # "done" => i \notin DOMAIN verifications /\ (~requests[i].byHand => requests[i].status = "IN_PROGRESS")
  BY <1>0 DEF RequestsGood, IsRequest, InPipeline, Decided
<1>3. ASSUME UNCHANGED <<watchlist, kycUpdates>> PROVE KYCCallsTyped'
  BY <1>0, <1>3 DEF KYCCallsTyped
<1>4. ASSUME UNCHANGED <<requests, verifications>> PROVE RequestsGood'
  BY <1>0, <1>4 DEF RequestsGood
<1>5. ASSUME NEW u \in Applicants, NEW p \in Profiles, TheKYC!SubmitKYCRequest(u, p) PROVE KYCInv'
  <2>1. PICK pause \in {0, 1} : requests' = Append(requests,
            [user |-> u, type |-> p.type, weight |-> p.weight, status |-> "IN_PROGRESS",
             submittedAt |-> pause + (IF requests = <<>> THEN 0 ELSE requests[Len(requests)].submittedAt),
             documents |-> p.docs, complete |-> TheKYC!RequiredDocuments(p.type) \subseteq TheKYC!ToSet(p.docs), biometricData |-> FALSE,
             backgroundCheck |-> FALSE, riskScore |-> 0, stage |-> "documents", byHand |-> FALSE])
    BY <1>5, Zenon DEF TheKYC!SubmitKYCRequest
  <2> DEFINE before == IF requests = <<>> THEN 0 ELSE requests[Len(requests)].submittedAt
             complete == TheKYC!RequiredDocuments(p.type) \subseteq TheKYC!ToSet(p.docs)
             n == Len(requests) + 1
             at == pause + before
             q == [user |-> u, type |-> p.type, weight |-> p.weight, status |-> "IN_PROGRESS",
                   submittedAt |-> at, documents |-> p.docs, complete |-> complete, biometricData |-> FALSE,
                   backgroundCheck |-> FALSE, riskScore |-> 0, stage |-> "documents", byHand |-> FALSE]
  <2>2. before \in Nat /\ before <= Len(requests)
    <3>1. CASE requests = <<>>
      BY <1>1, <3>1
    <3>2. CASE requests # <<>>
      <4>1. Len(requests) \in DOMAIN requests
        BY <1>1, <3>2, EmptySeq
      <4>2. requests[Len(requests)] \in RequestType /\ requests[Len(requests)].submittedAt <= Len(requests)
        BY <1>2, <4>1
      <4> QED  BY <3>2, <4>2 DEF RequestType
    <3> QED  BY <3>1, <3>2
  <2> HIDE DEF before
  <2>3. at \in Nat /\ at <= n /\ n \in Nat
    BY <1>1, <2>2
  <2>4. complete \in BOOLEAN
    BY Zenon
  <2>5. p.type \in {"INDIVIDUAL", "BUSINESS", "HIGH_VALUE"} /\ p.weight \in Nat /\ p.docs \in Seq(STRING)
    BY DEF KYCConstants
  <2>6. requests' = Append(requests, q)
    BY <2>1 DEF before
  <2> HIDE DEF complete, at
  <2>7. q \in RequestType
    BY <2>3, <2>4, <2>5 DEF RequestType, TheKYC!Outcomes
  <2>8. q.submittedAt = at /\ q.stage = "documents" /\ q.status = "IN_PROGRESS"
    OBVIOUS
  <2> HIDE DEF q
  <2>9. /\ requests' \in Seq(RequestType) /\ DOMAIN requests' = 1..n /\ requests'[n] = q
        /\ \A j \in 1..Len(requests) : requests'[j] = requests[j]
    BY <1>1, <2>6, <2>7, AppendProperties, LenProperties
  <2>10. UNCHANGED <<verifications, watchlist, kycUpdates>>
    BY <1>5 DEF TheKYC!SubmitKYCRequest
  <2>11. TheKYC!IsMap(verifications, DOMAIN requests, VerificationType)
    BY <1>0 DEF RequestsGood
  <2>12. DOMAIN requests \subseteq DOMAIN requests' /\ n \notin DOMAIN requests
    BY <1>1, <2>9
  <2>13. IsRequest(n, q, verifications)
    BY <2>3, <2>7, <2>8, <2>11, <2>12 DEF IsRequest, InPipeline, TheKYC!IsMap
  <2>14. ASSUME NEW j \in DOMAIN requests' PROVE IsRequest(j, requests'[j], verifications)
    <3>1. j = n \/ j \in DOMAIN requests
      BY <1>1, <2>9
    <3> QED  BY <1>1, <1>2, <2>9, <2>13, <3>1
  <2>15. RequestsGood'
    BY <2>9, <2>10, <2>11, <2>12, <2>14 DEF RequestsGood, TheKYC!IsMap
  <2> QED  BY <1>3, <2>10, <2>15 DEF KYCInv
<1>6. ASSUME NEW i \in DOMAIN requests, TheKYC!VerifyDocument(i) PROVE KYCInv'
  <2> DEFINE q == requests[i]
  <2>1. q.stage = "documents" /\ UNCHANGED <<watchlist, kycUpdates>>
    BY <1>6 DEF TheKYC!VerifyDocument
  <2>2. /\ q \in RequestType /\ q.submittedAt <= i /\ i \notin DOMAIN verifications
        /\ ~q.byHand => q.status = "IN_PROGRESS"
    BY <1>2, <2>1
  <2>3. CASE q.documents = <<>>
    <3>1. TheKYC!AfterDocuments(i, q)
      BY <1>6, <2>3 DEF TheKYC!VerifyDocument
    <3>2. RequestsGood'
      BY <1>0, <2>2, <3>1, AfterDocumentsStep
    <3> QED  BY <1>3, <2>1, <3>2 DEF KYCInv
  <2>4. CASE q.documents # <<>>
    <3> DEFINE Checked(valid) == [q EXCEPT !.documents = Tail(@),
                                           !.complete = @ /\ (valid \/ Head(q.documents) \notin TheKYC!RequiredDocuments(q.type))]
    <3>1. PICK valid \in BOOLEAN :
             IF Checked(valid).documents = <<>> THEN TheKYC!AfterDocuments(i, Checked(valid))
             ELSE requests' = [requests EXCEPT ![i] = Checked(valid)] /\ UNCHANGED verifications
      BY <1>6, <2>4, Zenon DEF TheKYC!VerifyDocument
    <3> DEFINE docs == Tail(q.documents)
               complete == q.complete /\ (valid \/ Head(q.documents) \notin TheKYC!RequiredDocuments(q.type))
               r == Checked(valid)
    <3>2. docs \in Seq(STRING)
      <4>1. q.documents \in Seq(STRING)
        BY <2>2 DEF RequestType
      <4> QED  BY <2>4, <4>1, HeadTailProperties
    <3>3. complete \in BOOLEAN
      BY Zenon
    <3>4. r = [q EXCEPT !.documents = docs, !.complete = complete]
      OBVIOUS
    <3> HIDE DEF docs, complete, r, q, Checked
    <3>5. r \in RequestType /\ r.submittedAt = q.submittedAt /\ r.stage = q.stage /\ r.status = q.status /\ r.byHand = q.byHand
      BY <2>2, <3>2, <3>3, <3>4 DEF RequestType
    <3>6. CASE r.documents = <<>>
      <4>1. TheKYC!AfterDocuments(i, r)
        BY <3>1, <3>6 DEF r
      <4>2. RequestsGood'
        BY <1>0, <2>2, <3>5, <4>1, AfterDocumentsStep
      <4> QED  BY <1>3, <2>1, <4>2 DEF KYCInv
    <3>7. CASE r.documents # <<>>
      <4>1. requests' = [requests EXCEPT ![i] = r] /\ UNCHANGED verifications
        BY <3>1, <3>7 DEF r
      <4>2. IsRequest(i, r, verifications')
        BY <2>1, <2>2, <3>5, <4>1 DEF IsRequest, InPipeline
      <4>3. RequestsGood'
        BY <1>0, <4>1, <4>2, RequestSet
      <4> QED  BY <1>3, <2>1, <4>3 DEF KYCInv
    <3> QED  BY <3>6, <3>7
  <2> QED  BY <2>3, <2>4
<1>7. ASSUME NEW i \in DOMAIN requests, TheKYC!VerifyBiometrics(i) PROVE KYCInv'
  <2> DEFINE q == requests[i]
  <2>1. q.stage = "biometrics" /\ UNCHANGED <<watchlist, kycUpdates>>
    BY <1>7 DEF TheKYC!VerifyBiometrics
  <2>2. q \in RequestType /\ q.submittedAt <= i /\ i \notin DOMAIN verifications
    BY <1>2, <2>1
  <2>3. CASE TheKYC!Conclude(i, q)
    <3>1. RequestsGood'
      BY <1>0, <2>2, <2>3, ConcludeStep
    <3> QED  BY <1>3, <2>1, <3>1 DEF KYCInv
  <2>4. CASE requests' = [requests EXCEPT ![i] = [q EXCEPT !.status = "REJECTED", !.stage = "done", !.byHand = FALSE]]
             /\ UNCHANGED verifications
    <3>1. RequestsGood'
      BY <1>0, <2>2, <2>4, Rejected
    <3> QED  BY <1>3, <2>1, <3>1 DEF KYCInv
  <2> QED  BY <1>7, <2>3, <2>4 DEF TheKYC!VerifyBiometrics
<1>8. ASSUME NEW i \in DOMAIN requests, TheKYC!UpdateKYCRequest(i) PROVE KYCInv'
  <2> DEFINE q == requests[i]
  <2>1. UNCHANGED <<verifications, watchlist>> /\ kycUpdates < MaxKYCUpdates /\ kycUpdates' = kycUpdates + 1
    BY <1>8 DEF TheKYC!UpdateKYCRequest
  <2>2. KYCCallsTyped'
    BY <1>0, <2>1 DEF KYCCallsTyped
  <2>3. q \in RequestType /\ IsRequest(i, q, verifications)
    BY <1>2
  <2>4. PICK r : /\ requests' = [requests EXCEPT ![i] = r]
                 /\ \/ \E s \in TheKYC!Outcomes : r = [q EXCEPT !.status = s, !.byHand = TRUE]
                    \/ r = [q EXCEPT !.biometricData = TRUE]
                    \/ r = [q EXCEPT !.backgroundCheck = TRUE]
    <3>1. CASE \E s \in TheKYC!Outcomes : requests' = [requests EXCEPT ![i].status = s, ![i].byHand = TRUE]
      <4>1. PICK s \in TheKYC!Outcomes : requests' = [requests EXCEPT ![i].status = s, ![i].byHand = TRUE]
        BY <3>1
      <4>2. requests' = [requests EXCEPT ![i] = [q EXCEPT !.status = s, !.byHand = TRUE]]
        BY <4>1
      <4> QED  BY <4>2
    <3>2. CASE requests' = [requests EXCEPT ![i].biometricData = TRUE]
      <4>1. requests' = [requests EXCEPT ![i] = [q EXCEPT !.biometricData = TRUE]]
        BY <3>2
      <4> QED  BY <4>1
    <3>3. CASE requests' = [requests EXCEPT ![i].backgroundCheck = TRUE]
      <4>1. requests' = [requests EXCEPT ![i] = [q EXCEPT !.backgroundCheck = TRUE]]
        BY <3>3
      <4> QED  BY <4>1
    <3> QED  BY <1>8, <3>1, <3>2, <3>3 DEF TheKYC!UpdateKYCRequest
  <2> HIDE DEF q
  <2>5. r \in RequestType /\ r.submittedAt = q.submittedAt /\ r.stage = q.stage /\ r.type = q.type /\ r.riskScore = q.riskScore
        /\ (r.byHand \/ (r.byHand = q.byHand /\ r.status = q.status))
    <3>1. CASE \E s \in TheKYC!Outcomes : r = [q EXCEPT !.status = s, !.byHand = TRUE]
      BY <2>3, <3>1 DEF RequestType
    <3>2. CASE r = [q EXCEPT !.biometricData = TRUE]
      BY <2>3, <3>2 DEF RequestType
    <3>3. CASE r = [q EXCEPT !.backgroundCheck = TRUE]
      BY <2>3, <3>3 DEF RequestType
    <3> QED  BY <2>4, <3>1, <3>2, <3>3
  <2>6. IsRequest(i, r, verifications')
    BY <2>1, <2>3, <2>5 DEF IsRequest, InPipeline, Decided, Modest
  <2>7. RequestsGood'
    BY <1>0, <2>1, <2>4, <2>6, RequestSet
  <2> QED  BY <2>2, <2>7 DEF KYCInv
<1>9. ASSUME NEW u \in Applicants, TheKYC!ChangeWatchlist(u) PROVE KYCInv'
  <2>1. UNCHANGED <<requests, verifications, kycUpdates>>
    BY <1>9 DEF TheKYC!ChangeWatchlist
  <2>2. KYCCallsTyped'
    BY <1>0, <1>9 DEF TheKYC!ChangeWatchlist, KYCCallsTyped
  <2> QED  BY <1>4, <2>1, <2>2 DEF KYCInv
<1>10. CASE UNCHANGED TheKYC!kycVars
  BY <1>3, <1>4, <1>10 DEF TheKYC!kycVars, KYCInv
<1> QED  BY <1>5, <1>6, <1>7, <1>8, <1>9, <1>10 DEF TheKYC!Next

\* The latest of a user's requests is one of them.
LEMMA LatestIsOne ==
    ASSUME RequestsGood, NEW u, \E i \in DOMAIN requests : requests[i].user = u
    PROVE  \E i \in DOMAIN requests : TheKYC!Latest(u) = requests[i]
<1> DEFINE his == {i \in DOMAIN requests : requests[i].user = u}
           times == {requests[i].submittedAt : i \in his}
           N == Len(requests)
           left == {k \in 0..N : N - k \in times}
<1>1. DOMAIN requests = 1..N /\ N \in Nat /\ \A i \in DOMAIN requests : requests[i].submittedAt \in Nat /\ requests[i].submittedAt <= i
  BY LenProperties DEF RequestsGood, IsRequest, RequestType
<1>2. his # {} /\ his \subseteq 1..N
  BY <1>1
<1>3. times \subseteq 0..N /\ times # {}
  <2>1. ASSUME NEW i \in his PROVE requests[i].submittedAt \in 0..N
    <3>1. i \in 1..N /\ requests[i].submittedAt \in Nat /\ requests[i].submittedAt <= i
      BY <1>1
    <3> QED  BY <1>1, <3>1
  <2> QED  BY <1>2, <2>1
<1> HIDE DEF N, times
<1>4. left \subseteq Nat /\ left # {}
  <2>1. PICK x \in times : TRUE
    BY <1>3
  <2>2. x \in 0..N /\ N - x \in 0..N /\ N - (N - x) = x
    BY <1>1, <1>3, <2>1
  <2> QED  BY <2>1, <2>2
<1>5. PICK k \in left : \A j \in left : k <= j
  BY <1>4, LeastNatural
<1>6. N - k \in times /\ \A x \in times : N - k >= x
  <2>1. k \in 0..N /\ N - k \in times
    BY <1>5
  <2>2. ASSUME NEW x \in times PROVE N - k >= x
    <3>1. x \in 0..N /\ N - x \in 0..N /\ N - (N - x) = x
      BY <1>1, <1>3
    <3>2. N - x \in left
      BY <3>1
    <3>3. k <= N - x
      BY <1>5, <3>2
    <3> QED  BY <1>1, <2>1, <3>1, <3>3
  <2> QED  BY <2>1, <2>2
<1> DEFINE last == TheKYC!Max(times)
<1>7. last \in times
  BY <1>6 DEF TheKYC!Max
<1> HIDE DEF last
<1> DEFINE those == {i \in his : requests[i].submittedAt = last}
<1>8. those # {} /\ those \subseteq his
  BY <1>7 DEF times
<1>9. those \subseteq Nat
  BY <1>1, <1>2, <1>8
<1> HIDE DEF those
<1>10. \E i \in those : \A j \in those : i <= j
  BY <1>8, <1>9, LeastNatural
<1>11. TheKYC!Min(those) \in those
  BY <1>10 DEF TheKYC!Min
<1>12. TheKYC!Latest(u) = requests[TheKYC!Min(those)]
  BY DEF TheKYC!Latest, those, last, times
<1> QED  BY <1>8, <1>11, <1>12

LEMMA KYCInvSays == KYCInv => TheKYC!TypeOK /\ TheKYC!PipelineDecides /\ TheKYC!LimitAppliesByHandOnly
<1> SUFFICES ASSUME KYCInv PROVE TheKYC!TypeOK /\ TheKYC!PipelineDecides /\ TheKYC!LimitAppliesByHandOnly
  OBVIOUS
<1>0. RequestsGood /\ KYCCallsTyped
  BY DEF KYCInv
<1>1. \A i \in DOMAIN requests : IsRequest(i, requests[i], verifications) /\ requests[i] \in RequestType
  BY <1>0 DEF RequestsGood, IsRequest
<1>2. TheKYC!TypeOK
  <2>1. \A i \in DOMAIN requests :
        /\ requests[i].user \in Applicants
        /\ requests[i].status \in TheKYC!Outcomes \cup {"IN_PROGRESS"}
        /\ requests[i].stage \in {"documents", "biometrics", "done"}
    BY <1>1 DEF RequestType
  <2> QED  BY <1>0, <2>1 DEF TheKYC!TypeOK, KYCCallsTyped, RequestsGood, VerificationType
<1>3. TheKYC!PipelineDecides
  BY <1>1 DEF TheKYC!PipelineDecides, IsRequest, InPipeline, Decided
<1>4. TheKYC!LimitAppliesByHandOnly
  <2>1. ASSUME NEW u \in Applicants, TheKYC!IsUserVerified(u), ~TheKYC!Latest(u).byHand PROVE Modest(TheKYC!Latest(u))
    <3>1. (\E i \in DOMAIN requests : requests[i].user = u) /\ TheKYC!Latest(u).status = "VERIFIED"
      BY <2>1 DEF TheKYC!IsUserVerified
    <3>2. PICK i \in DOMAIN requests : TheKYC!Latest(u) = requests[i]
      BY <1>0, <3>1, LatestIsOne
    <3> QED  BY <1>1, <2>1, <3>1, <3>2 DEF IsRequest
  <2> QED  BY <2>1 DEF TheKYC!LimitAppliesByHandOnly, Modest
<1> QED  BY <1>2, <1>3, <1>4

-----------------------------------------------------------------------------
\* CacheLayer.  The order of use names no key twice and only cached ones, whatever
\* the policies were; while the policy is the first one, its record is complete.
LEMMA CacheCardinality == \A S : TheCache!Cardinality(S) = Cardinality(S)
BY DEF Cardinality, TheCache!Cardinality

LEMMA CacheKept == \A s, S : TheCache!Kept(s, S) = Kept(s, S)
BY DEF Kept, TheCache!Kept, Nth, TheCache!Nth, Below, TheCache!Below, Cardinality, TheCache!Cardinality

CacheConstants == MaxSize \in Nat \ {0} /\ MaxUse \in Nat /\ MaxClock \in Nat

CacheEntryType == [timestamp : 0..MaxClock, ttl : TTLs \cup {DefaultTTL}, accessCount : 1..MaxUse]
DistinctIn(s) == \A i, j \in DOMAIN s : i # j => s[i] # s[j]

CacheTyped ==
    /\ clock \in 0..MaxClock /\ evictionPolicy \in TheCache!Policies /\ reconfigured \in BOOLEAN
    /\ TheCache!IsMap(cache, Keys, CacheEntryType) /\ IsFiniteSet(DOMAIN cache)
    /\ TheCache!IsMap(accessFrequency, Keys, 1..MaxUse)
OrderKept == accessOrder \in Seq(Keys) /\ DistinctIn(accessOrder) /\ TheCache!ToSet(accessOrder) \subseteq DOMAIN cache
PolicyKept ==
    ~reconfigured =>
        /\ Cardinality(DOMAIN cache) <= MaxSize
        /\ evictionPolicy = "LRU" => DOMAIN cache \subseteq TheCache!ToSet(accessOrder)
        /\ evictionPolicy = "LFU" => \A k \in DOMAIN cache : TheCache!Get(accessFrequency, k, 0) >= cache[k].accessCount

CacheInv == CacheTyped /\ OrderKept /\ PolicyKept

LEMMA CacheInit == ASSUME CacheConstants PROVE TheCache!Init => CacheInv
<1> SUFFICES ASSUME TheCache!Init PROVE CacheInv
  OBVIOUS
<1>1. DOMAIN cache = {} /\ DOMAIN accessFrequency = {} /\ accessOrder = <<>>
  BY DEF TheCache!Init, TheCache!Empty
<1>2. CacheTyped
  <2>1. clock \in 0..MaxClock /\ evictionPolicy \in TheCache!Policies /\ reconfigured \in BOOLEAN
    <3>1. clock = 0 /\ evictionPolicy \in TheCache!Policies /\ reconfigured = FALSE
      BY DEF TheCache!Init
    <3>2. MaxClock \in Nat
      BY DEF CacheConstants
    <3>3. 0 \in 0..MaxClock
      BY <3>2
    <3> QED  BY <3>1, <3>3, Zenon
  <2> QED  BY <1>1, <2>1, FS_EmptySet DEF CacheTyped, TheCache!IsMap
<1>3. OrderKept
  BY <1>1 DEF OrderKept, DistinctIn, TheCache!ToSet
<1>4. PolicyKept
  BY <1>1, FS_EmptySet DEF PolicyKept, CacheConstants
<1> QED  BY <1>2, <1>3, <1>4 DEF CacheInv

\* A sequence without repetitions is as long as the set of what is in it.
LEMMA DistinctLen ==
    ASSUME NEW T, NEW s \in Seq(T), DistinctIn(s)
    PROVE  IsFiniteSet(TheCache!ToSet(s)) /\ Len(s) = Cardinality(TheCache!ToSet(s))
<1>1. Len(s) \in Nat /\ DOMAIN s = 1..Len(s) /\ s \in [1..Len(s) -> T]
  BY LenProperties
<1>2. IsFiniteSet(1..Len(s)) /\ Cardinality(1..Len(s)) = Len(s)
  BY <1>1, FS_Interval
<1>3. s \in [1..Len(s) -> TheCache!ToSet(s)]
  BY <1>1 DEF TheCache!ToSet
<1>4. s \in Bijection(1..Len(s), TheCache!ToSet(s))
  <2>1. \A x \in TheCache!ToSet(s) : \E i \in 1..Len(s) : s[i] = x
    BY <1>1 DEF TheCache!ToSet
  <2>2. \A i, j \in 1..Len(s) : s[i] = s[j] => i = j
    BY <1>1 DEF DistinctIn
  <2> QED  BY <1>3, <2>1, <2>2 DEF Bijection, Injection, Surjection, IsInjective
<1>5. ExistsBijection(1..Len(s), TheCache!ToSet(s))
  BY <1>4 DEF ExistsBijection
<1> QED  BY <1>2, <1>5, FS_Bijection

LEMMA WithoutIs ==
    ASSUME NEW s \in Seq(Keys), DistinctIn(s), NEW gone
    PROVE  /\ TheCache!Without(s, gone) \in Seq(Keys) /\ DistinctIn(TheCache!Without(s, gone))
           /\ TheCache!ToSet(TheCache!Without(s, gone)) = TheCache!ToSet(s) \ gone
<1> DEFINE S == {i \in DOMAIN s : s[i] \notin gone}
           w == Kept(s, S)
           c == Cardinality(S)
           N == Len(s)
<1>1. N \in Nat /\ DOMAIN s = 1..N /\ S \subseteq 1..N /\ w = TheCache!Without(s, gone)
  BY LenProperties, CacheKept DEF TheCache!Without
<1>2. w \in Seq(Keys)
  BY <1>1, KeptIsSeq
<1>3. \A i \in DOMAIN s : i \in S <=> s[i] \notin gone
  OBVIOUS
<1> HIDE DEF S, N
<1>4. /\ c \in 0..N /\ DOMAIN w = 1..c
      /\ \A n \in 1..c : Nth(S, n) \in S /\ w[n] = s[Nth(S, n)]
      /\ \A i \in S : \E n \in 1..c : Nth(S, n) = i /\ w[n] = s[i]
  <2>1. N \in Nat /\ S \subseteq 1..N
    BY <1>1
  <2>2. /\ Cardinality(S) \in 0..N /\ DOMAIN Kept(s, S) = 1..Cardinality(S)
        /\ \A n \in 1..Cardinality(S) : Nth(S, n) \in S /\ Kept(s, S)[n] = s[Nth(S, n)]
        /\ \A i \in S : \E n \in 1..Cardinality(S) : Nth(S, n) = i /\ Kept(s, S)[n] = s[i]
    <3> HIDE DEF w, c
    <3>1. Cardinality(S) \in 0..N /\ DOMAIN Kept(s, S) = 1..Cardinality(S)
      BY <2>1, KeptIs
    <3>2. \A n \in 1..Cardinality(S) : Nth(S, n) \in S /\ Kept(s, S)[n] = s[Nth(S, n)]
      <4>1. \A n \in 1..Cardinality(S) : Nth(S, n) \in S
        BY <2>1, NthIs
      <4> QED  BY <4>1 DEF Kept
    <3>3. \A i \in S : \E n \in 1..Cardinality(S) : Nth(S, n) = i /\ Kept(s, S)[n] = s[i]
      <4>1. \A i \in S : \E n \in 1..Cardinality(S) : Nth(S, n) = i
        BY <2>1, NthIs
      <4> QED  BY <3>2, <4>1
    <3> QED  BY <3>1, <3>2, <3>3
  <2> QED  BY <2>2
<1>5. \A m, n \in 1..c : m < n => Nth(S, m) < Nth(S, n)
  BY <1>1, NthIs
<1> HIDE DEF w, c
<1>6. DistinctIn(w)
  <2>1. ASSUME NEW m \in 1..c, NEW n \in 1..c, m # n PROVE Nth(S, m) # Nth(S, n)
    <3>1. m < n \/ n < m
      BY <1>4, <2>1
    <3>2. Nth(S, m) \in 1..N /\ Nth(S, n) \in 1..N
      BY <1>1, <1>4
    <3> QED  BY <1>5, <3>1, <3>2
  <2>2. ASSUME NEW m \in 1..c, NEW n \in 1..c, m # n PROVE w[m] # w[n]
    <3>1. Nth(S, m) \in DOMAIN s /\ Nth(S, n) \in DOMAIN s
      BY <1>1, <1>4
    <3> QED  BY <1>4, <2>1, <2>2, <3>1 DEF DistinctIn
  <2> QED  BY <1>4, <2>2 DEF DistinctIn
<1>7. TheCache!ToSet(w) = TheCache!ToSet(s) \ gone
  <2>1. ASSUME NEW x \in TheCache!ToSet(w) PROVE x \in TheCache!ToSet(s) /\ x \notin gone
    <3>1. PICK n \in 1..c : x = w[n]
      BY <1>4, <2>1 DEF TheCache!ToSet
    <3> QED  BY <1>1, <1>3, <1>4, <3>1 DEF TheCache!ToSet
  <2>2. ASSUME NEW x \in TheCache!ToSet(s), x \notin gone PROVE x \in TheCache!ToSet(w)
    <3>1. PICK i \in DOMAIN s : x = s[i]
      BY <2>2 DEF TheCache!ToSet
    <3>2. i \in S
      BY <1>3, <2>2, <3>1
    <3> QED  BY <1>4, <3>1, <3>2 DEF TheCache!ToSet
  <2> QED  BY <2>1, <2>2
<1> QED  BY <1>1, <1>2, <1>6, <1>7

LEMMA TouchIs ==
    ASSUME NEW s \in Seq(Keys), DistinctIn(s), NEW k \in Keys
    PROVE  /\ TheCache!Touch(s, k) \in Seq(Keys) /\ DistinctIn(TheCache!Touch(s, k))
           /\ TheCache!ToSet(TheCache!Touch(s, k)) = IF evictionPolicy = "LRU" THEN TheCache!ToSet(s) \cup {k} ELSE TheCache!ToSet(s)
<1>1. CASE evictionPolicy # "LRU"
  BY <1>1 DEF TheCache!Touch
<1>2. CASE evictionPolicy = "LRU"
  <2> DEFINE w == TheCache!Without(s, {k})
             a == Append(w, k)
             N == Len(w)
  <2>1. w \in Seq(Keys) /\ DistinctIn(w) /\ TheCache!ToSet(w) = TheCache!ToSet(s) \ {k}
    BY WithoutIs
  <2>2. TheCache!Touch(s, k) = a
    BY <1>2 DEF TheCache!Touch
  <2> HIDE DEF w
  <2>3. /\ N \in Nat /\ DOMAIN w = 1..N /\ a \in Seq(Keys) /\ DOMAIN a = 1..(N + 1)
        /\ a[N + 1] = k /\ \A i \in 1..N : a[i] = w[i]
    BY <2>1, AppendProperties, LenProperties
  <2> HIDE DEF a, N
  <2>4. \A i : i \in 1..(N + 1) <=> i \in 1..N \/ i = N + 1
    BY <2>3
  <2>5. \A i \in 1..N : w[i] # k
    BY <2>1, <2>3 DEF TheCache!ToSet
  <2>6. DistinctIn(a)
    BY <2>1, <2>3, <2>4, <2>5 DEF DistinctIn
  <2>7. TheCache!ToSet(a) = TheCache!ToSet(w) \cup {k}
    BY <2>3, <2>4 DEF TheCache!ToSet
  <2> QED  BY <1>2, <2>1, <2>2, <2>3, <2>6, <2>7
<1> QED  BY <1>1, <1>2

\* Every victim is in the cache, and one that is not empty has a victim while the
\* policy is the first.
LEMMA VictimsAre ==
    ASSUME CacheConstants, CacheInv
    PROVE  TheCache!Victims \subseteq DOMAIN cache /\ (~reconfigured /\ DOMAIN cache # {} => TheCache!Victims # {})
<1>0. CacheTyped /\ OrderKept /\ PolicyKept
  BY DEF CacheInv
<1>1. CASE evictionPolicy = "LRU"
  <2>1. ~reconfigured /\ DOMAIN cache # {} => accessOrder # <<>>
    <3>1. ~reconfigured => TheCache!ToSet(accessOrder) = DOMAIN cache
      BY <1>0, <1>1 DEF OrderKept, PolicyKept
    <3>2. accessOrder = <<>> => TheCache!ToSet(accessOrder) = {}
      BY DEF TheCache!ToSet
    <3> QED  BY <3>1, <3>2
  <2>2. ASSUME accessOrder # <<>> PROVE accessOrder[1] \in DOMAIN cache
    <3>1. 1 \in DOMAIN accessOrder
      BY <1>0, <2>2, EmptySeq, LenProperties DEF OrderKept
    <3> QED  BY <1>0, <3>1 DEF OrderKept, TheCache!ToSet
  <2> QED  BY <1>1, <2>1, <2>2 DEF TheCache!Victims
<1>2. CASE evictionPolicy \in {"LFU", "FIFO"}
  <2> DEFINE ranks == {TheCache!Rank(k) : k \in DOMAIN cache}
  <2>1. TheCache!Victims = {k \in DOMAIN cache : \A j \in DOMAIN cache : TheCache!Rank(k) <= TheCache!Rank(j)}
    BY <1>2 DEF TheCache!Victims
  <2>2. \A k \in DOMAIN cache : TheCache!Rank(k) \in Nat
    BY <1>0 DEF TheCache!Rank, TheCache!Get, CacheTyped, TheCache!IsMap, CacheEntryType
  <2>3. ranks \subseteq Nat /\ (DOMAIN cache # {} => ranks # {})
    BY <2>2
  <2>4. DOMAIN cache # {} => \E m \in ranks : \A n \in ranks : m <= n
    <3> HIDE DEF ranks
    <3> QED  BY <2>3, LeastNatural
  <2>5. DOMAIN cache # {} => \E k \in DOMAIN cache : \A j \in DOMAIN cache : TheCache!Rank(k) <= TheCache!Rank(j)
    BY <2>4
  <2> QED  BY <2>1, <2>5
<1>3. CASE evictionPolicy = "RANDOM"
  BY <1>3 DEF TheCache!Victims
<1> QED  BY <1>0, <1>1, <1>2, <1>3 DEF CacheTyped, TheCache!Policies

\* Keys removed from the cache, the order and perhaps the frequencies.
LEMMA KeysGone ==
    ASSUME CacheConstants, CacheInv, NEW gone, cache' = TheCache!Drop(cache, gone), accessOrder' = TheCache!Without(accessOrder, gone),
           UNCHANGED <<clock, evictionPolicy, reconfigured>>,
           accessFrequency' \in {accessFrequency, TheCache!Drop(accessFrequency, gone)}
    PROVE  CacheInv'
<1>0. CacheTyped /\ OrderKept /\ PolicyKept
  BY DEF CacheInv
<1>1. DOMAIN cache' = DOMAIN cache \ gone /\ \A k \in DOMAIN cache' : cache'[k] = cache[k]
  BY DEF TheCache!Drop
<1>2. /\ accessOrder' \in Seq(Keys) /\ DistinctIn(accessOrder')
      /\ TheCache!ToSet(accessOrder') = TheCache!ToSet(accessOrder) \ gone
  BY <1>0, WithoutIs DEF OrderKept
<1>3. IsFiniteSet(DOMAIN cache') /\ Cardinality(DOMAIN cache') <= Cardinality(DOMAIN cache)
      /\ Cardinality(DOMAIN cache) \in Nat /\ Cardinality(DOMAIN cache') \in Nat
  BY <1>0, <1>1, FS_Subset, FS_CardinalityType DEF CacheTyped
<1>4. CacheTyped'
  BY <1>0, <1>1, <1>3 DEF CacheTyped, TheCache!IsMap, CacheEntryType, TheCache!Drop
<1>5. TheCache!ToSet(accessOrder)' = TheCache!ToSet(accessOrder')
  BY DEF TheCache!ToSet
<1>6. OrderKept'
  BY <1>0, <1>1, <1>2, <1>5 DEF OrderKept, DistinctIn
<1>7. \A k \in DOMAIN cache' : TheCache!Get(accessFrequency', k, 0) = TheCache!Get(accessFrequency, k, 0)
  BY <1>1 DEF TheCache!Get, TheCache!Drop
<1>8. PolicyKept'
  <2> SUFFICES ASSUME ~reconfigured
        PROVE
        /\ Cardinality(DOMAIN cache') <= MaxSize
        /\ evictionPolicy = "LRU" => DOMAIN cache' \subseteq TheCache!ToSet(accessOrder')
        /\ evictionPolicy = "LFU" => \A k \in DOMAIN cache' : TheCache!Get(accessFrequency', k, 0) >= cache'[k].accessCount
    BY <1>5 DEF PolicyKept, TheCache!Get
  <2>1. Cardinality(DOMAIN cache') <= MaxSize
    BY <1>0, <1>3 DEF PolicyKept, CacheConstants
  <2>2. evictionPolicy = "LRU" => DOMAIN cache' \subseteq TheCache!ToSet(accessOrder')
    BY <1>0, <1>1, <1>2 DEF PolicyKept
  <2>3. evictionPolicy = "LFU" => \A k \in DOMAIN cache' : TheCache!Get(accessFrequency', k, 0) >= cache'[k].accessCount
    BY <1>0, <1>1, <1>7 DEF PolicyKept
  <2> QED  BY <2>1, <2>2, <2>3
<1> QED  BY <1>4, <1>6, <1>8 DEF CacheInv

\* A key put in the cache, or used: everything that is kept of it.
LEMMA KeyUsed ==
    ASSUME CacheConstants, CacheInv, NEW k \in Keys, NEW gone, NEW entry \in CacheEntryType, k \notin gone,
           cache' = TheCache!Put(TheCache!Drop(cache, gone), k, entry), accessOrder' = TheCache!Touch(TheCache!Without(accessOrder, gone), k),
           NEW left, left = TheCache!Drop(accessFrequency, gone), accessFrequency' = TheCache!Count(left, k), TheCache!Get(left, k, 0) < MaxUse,
           entry.accessCount <= TheCache!Get(left, k, 0) + 1 \/ evictionPolicy # "LFU" \/ reconfigured,
           ~reconfigured => Cardinality((DOMAIN cache \ gone) \cup {k}) <= MaxSize,
           UNCHANGED <<clock, evictionPolicy, reconfigured>>
    PROVE  CacheInv'
<1>0. CacheTyped /\ OrderKept /\ PolicyKept
  BY DEF CacheInv
<1>1. /\ DOMAIN cache' = (DOMAIN cache \ gone) \cup {k} /\ cache'[k] = entry
      /\ \A j \in DOMAIN cache' : j # k => cache'[j] = cache[j] /\ j \in DOMAIN cache
  BY DEF TheCache!Drop, TheCache!Put
<1> DEFINE w == TheCache!Without(accessOrder, gone)
<1>2. w \in Seq(Keys) /\ DistinctIn(w) /\ TheCache!ToSet(w) = TheCache!ToSet(accessOrder) \ gone
  BY <1>0, WithoutIs DEF OrderKept
<1> HIDE DEF w
<1>3. /\ accessOrder' \in Seq(Keys) /\ DistinctIn(accessOrder')
      /\ TheCache!ToSet(accessOrder') = IF evictionPolicy = "LRU" THEN TheCache!ToSet(w) \cup {k} ELSE TheCache!ToSet(w)
  BY <1>2, TouchIs DEF w
<1>4. IsFiniteSet(DOMAIN cache')
  <2>1. IsFiniteSet(DOMAIN cache \ gone)
    BY <1>0, FS_Difference DEF CacheTyped
  <2> QED  BY <1>1, <2>1, FS_AddElement
<1>5. TheCache!IsMap(cache', Keys, CacheEntryType)
  BY <1>0, <1>1 DEF CacheTyped, TheCache!IsMap
<1>6. TheCache!IsMap(left, Keys, 1..MaxUse)
  BY <1>0 DEF CacheTyped, TheCache!IsMap, TheCache!Drop
<1>7. TheCache!IsMap(accessFrequency', Keys, 1..MaxUse)
  <2>1. CASE evictionPolicy # "LFU"
    BY <1>6, <2>1 DEF TheCache!Count
  <2>2. CASE evictionPolicy = "LFU"
    <3> DEFINE n == TheCache!Get(left, k, 0) + 1
    <3>1. n \in 1..MaxUse
      <4>1. TheCache!Get(left, k, 0) \in Nat
        BY <1>6 DEF TheCache!IsMap, TheCache!Get
      <4> QED  BY <4>1 DEF CacheConstants
    <3>2. accessFrequency' = TheCache!Put(left, k, n)
      BY <2>2 DEF TheCache!Count
    <3> HIDE DEF n
    <3> QED  BY <1>6, <3>1, <3>2 DEF TheCache!IsMap, TheCache!Put
  <2> QED  BY <2>1, <2>2
<1>8. CacheTyped'
  <2>1. CacheEntryType' = CacheEntryType
    BY DEF CacheEntryType
  <2>2. TheCache!IsMap(cache, Keys, CacheEntryType)' /\ TheCache!IsMap(accessFrequency, Keys, 1..MaxUse)'
    BY <1>5, <1>7, <2>1 DEF TheCache!IsMap
  <2> QED  BY <1>0, <1>4, <2>2 DEF CacheTyped
<1>9. TheCache!ToSet(accessOrder)' = TheCache!ToSet(accessOrder')
  BY DEF TheCache!ToSet
<1>10. OrderKept'
  BY <1>0, <1>1, <1>2, <1>3, <1>9 DEF OrderKept, DistinctIn
<1>11. PolicyKept'
  <2> SUFFICES ASSUME ~reconfigured
        PROVE
        /\ Cardinality(DOMAIN cache') <= MaxSize
        /\ evictionPolicy = "LRU" => DOMAIN cache' \subseteq TheCache!ToSet(accessOrder')
        /\ evictionPolicy = "LFU" => \A j \in DOMAIN cache' : TheCache!Get(accessFrequency', j, 0) >= cache'[j].accessCount
    BY <1>9 DEF PolicyKept, TheCache!Get
  <2>1. Cardinality(DOMAIN cache') <= MaxSize
    BY <1>1
  <2>2. evictionPolicy = "LRU" => DOMAIN cache' \subseteq TheCache!ToSet(accessOrder')
    BY <1>0, <1>1, <1>2, <1>3 DEF PolicyKept
  <2>3. ASSUME evictionPolicy = "LFU", NEW j \in DOMAIN cache' PROVE TheCache!Get(accessFrequency', j, 0) >= cache'[j].accessCount
    <3>1. accessFrequency' = TheCache!Put(left, k, TheCache!Get(left, k, 0) + 1)
      BY <2>3 DEF TheCache!Count
    <3>2. CASE j = k
      <4>1. TheCache!Get(accessFrequency', k, 0) = TheCache!Get(left, k, 0) + 1
        BY <3>1 DEF TheCache!Get, TheCache!Put
      <4>2. TheCache!Get(left, k, 0) \in Nat
        BY <1>6 DEF TheCache!IsMap, TheCache!Get
      <4>3. entry.accessCount \in Nat /\ entry.accessCount <= TheCache!Get(left, k, 0) + 1
        BY <2>3 DEF CacheEntryType
      <4> QED  BY <1>1, <3>2, <4>1, <4>2, <4>3
    <3>3. CASE j # k
      <4>1. TheCache!Get(accessFrequency', j, 0) = TheCache!Get(left, j, 0)
        BY <3>1, <3>3 DEF TheCache!Get, TheCache!Put
      <4>2. j \notin gone /\ j \in DOMAIN cache
        BY <1>1, <3>3
      <4>3. TheCache!Get(left, j, 0) = TheCache!Get(accessFrequency, j, 0)
        BY <4>2 DEF TheCache!Get, TheCache!Drop
      <4> QED  BY <1>0, <1>1, <2>3, <3>3, <4>1, <4>2, <4>3 DEF PolicyKept
    <3> QED  BY <3>2, <3>3
  <2> QED  BY <2>1, <2>2, <2>3
<1> QED  BY <1>8, <1>10, <1>11 DEF CacheInv

LEMMA CacheStep == ASSUME CacheConstants, CacheInv, [TheCache!Next]_TheCache!cacheVars PROVE CacheInv'
<1>0. CacheTyped /\ OrderKept /\ PolicyKept
  BY DEF CacheInv
<1>1. ASSUME NEW k \in Keys, TheCache!Lookup(k) PROVE CacheInv'
  <2>1. k \in DOMAIN cache /\ UNCHANGED <<clock, evictionPolicy, reconfigured>>
    BY <1>1 DEF TheCache!Lookup
  <2>2. CASE TheCache!Expired(k)
    BY <1>1, <2>1, <2>2, KeysGone DEF TheCache!Lookup
  <2>3. CASE ~TheCache!Expired(k)
    <3> DEFINE e == [cache[k] EXCEPT !.accessCount = @ + 1]
               n == TheCache!Get(accessFrequency, k, 0)
    <3>1. /\ cache[k].accessCount < MaxUse /\ n < MaxUse
          /\ cache' = [cache EXCEPT ![k].accessCount = @ + 1]
          /\ accessOrder' = TheCache!Touch(accessOrder, k) /\ accessFrequency' = TheCache!Count(accessFrequency, k)
      BY <1>1, <2>1, <2>3 DEF TheCache!Lookup
    <3>2. cache[k] \in CacheEntryType
      BY <1>0, <2>1 DEF CacheTyped, TheCache!IsMap
    <3>3. e \in CacheEntryType /\ e.accessCount = cache[k].accessCount + 1 /\ cache[k].accessCount \in Nat
      BY <3>1, <3>2 DEF CacheEntryType, CacheConstants
    <3>4. cache' = [cache EXCEPT ![k] = e]
      BY <3>1
    <3> HIDE DEF e
    <3>5. /\ accessOrder' \in Seq(Keys) /\ DistinctIn(accessOrder')
          /\ TheCache!ToSet(accessOrder') = IF evictionPolicy = "LRU" THEN TheCache!ToSet(accessOrder) \cup {k} ELSE TheCache!ToSet(accessOrder)
      BY <1>0, <3>1, TouchIs DEF OrderKept
    <3>6. DOMAIN cache' = DOMAIN cache /\ cache'[k] = e /\ \A j \in DOMAIN cache : j # k => cache'[j] = cache[j]
      BY <2>1, <3>4
    <3>7. n \in Nat
      BY <1>0 DEF CacheTyped, TheCache!IsMap, TheCache!Get
    <3>8. /\ TheCache!IsMap(accessFrequency', Keys, 1..MaxUse)
          /\ evictionPolicy = "LFU" => TheCache!Get(accessFrequency', k, 0) = n + 1
                                       /\ \A j \in DOMAIN cache : j # k => TheCache!Get(accessFrequency', j, 0) = TheCache!Get(accessFrequency, j, 0)
      <4>1. CASE evictionPolicy # "LFU"
        BY <1>0, <3>1, <4>1 DEF TheCache!Count, CacheTyped
      <4>2. CASE evictionPolicy = "LFU"
        <5>1. accessFrequency' = TheCache!Put(accessFrequency, k, n + 1)
          BY <3>1, <4>2 DEF TheCache!Count
        <5>2. n + 1 \in 1..MaxUse
          BY <3>1, <3>7 DEF CacheConstants
        <5> HIDE DEF n
        <5> QED  BY <1>0, <5>1, <5>2 DEF CacheTyped, TheCache!IsMap, TheCache!Put, TheCache!Get
      <4> QED  BY <4>1, <4>2
    <3>9. CacheTyped'
      <4>1. CacheEntryType' = CacheEntryType
        BY DEF CacheEntryType
      <4>2. TheCache!IsMap(cache, Keys, CacheEntryType)' /\ TheCache!IsMap(accessFrequency, Keys, 1..MaxUse)'
        BY <1>0, <3>3, <3>6, <3>8, <4>1 DEF TheCache!IsMap, CacheTyped
      <4> QED  BY <1>0, <2>1, <3>6, <4>2 DEF CacheTyped
    <3>10. TheCache!ToSet(accessOrder)' = TheCache!ToSet(accessOrder')
      BY DEF TheCache!ToSet
    <3>11. OrderKept'
      BY <1>0, <2>1, <3>5, <3>6, <3>10 DEF OrderKept, DistinctIn
    <3>12. PolicyKept'
      <4> SUFFICES ASSUME ~reconfigured
            PROVE
            /\ Cardinality(DOMAIN cache') <= MaxSize
            /\ evictionPolicy = "LRU" => DOMAIN cache' \subseteq TheCache!ToSet(accessOrder')
            /\ evictionPolicy = "LFU" => \A j \in DOMAIN cache' : TheCache!Get(accessFrequency', j, 0) >= cache'[j].accessCount
        BY <2>1, <3>10 DEF PolicyKept, TheCache!Get
      <4>1. Cardinality(DOMAIN cache') <= MaxSize
        BY <1>0, <3>6 DEF PolicyKept
      <4>2. evictionPolicy = "LRU" => DOMAIN cache' \subseteq TheCache!ToSet(accessOrder')
        BY <1>0, <3>5, <3>6 DEF PolicyKept
      <4>3. ASSUME evictionPolicy = "LFU", NEW j \in DOMAIN cache' PROVE TheCache!Get(accessFrequency', j, 0) >= cache'[j].accessCount
        <5>1. CASE j = k
          <6>1. n >= cache[k].accessCount
            BY <1>0, <2>1, <4>3 DEF PolicyKept
          <6> HIDE DEF n
          <6> QED  BY <3>3, <3>6, <3>7, <3>8, <4>3, <5>1, <6>1
        <5>2. CASE j # k
          BY <1>0, <3>6, <3>8, <4>3, <5>2 DEF PolicyKept
        <5> QED  BY <5>1, <5>2
      <4> QED  BY <4>1, <4>2, <4>3
    <3> QED  BY <3>9, <3>11, <3>12 DEF CacheInv
  <2> QED  BY <2>2, <2>3
<1>2. ASSUME NEW k \in Keys, TheCache!Delete(k) PROVE CacheInv'
  BY <1>2, KeysGone DEF TheCache!Delete
<1>3. ASSUME NEW k \in Keys, NEW ttl \in TTLs, TheCache!Store(k, ttl) PROVE CacheInv'
  <2> DEFINE full == Cardinality(DOMAIN cache) >= MaxSize /\ k \notin DOMAIN cache /\ TheCache!Victims # {}
             entry == [timestamp |-> clock, ttl |-> IF ttl = 0 THEN DefaultTTL ELSE ttl, accessCount |-> 1]
  <2>1. UNCHANGED <<clock, evictionPolicy, reconfigured>>
    BY <1>3, CacheCardinality DEF TheCache!Store
  <2>2. PICK gone \in IF full THEN {{v} : v \in TheCache!Victims} ELSE {{}} :
          /\ TheCache!Get(TheCache!Drop(accessFrequency, gone), k, 0) < MaxUse
          /\ cache' = TheCache!Put(TheCache!Drop(cache, gone), k, entry)
          /\ accessOrder' = TheCache!Touch(TheCache!Without(accessOrder, gone), k)
          /\ accessFrequency' = TheCache!Count(TheCache!Drop(accessFrequency, gone), k)
    BY <1>3, CacheCardinality DEF TheCache!Store
  <2> DEFINE left == TheCache!Drop(accessFrequency, gone)
  <2>3. TheCache!Get(left, k, 0) \in Nat
    BY <1>0 DEF CacheTyped, TheCache!IsMap, TheCache!Get, TheCache!Drop
  <2>4. entry \in CacheEntryType /\ entry.accessCount = 1
    <3>1. 1 \in 1..MaxUse
      BY <2>2, <2>3 DEF CacheConstants
    <3> QED  BY <1>0, <3>1 DEF CacheEntryType, CacheTyped
  <2>5. entry.accessCount <= TheCache!Get(left, k, 0) + 1
    BY <2>3, <2>4
  <2> HIDE DEF entry, left
  <2>7. k \notin gone
    <3>1. TheCache!Victims \subseteq DOMAIN cache
      BY VictimsAre
    <3> QED  BY <2>2, <3>1
  <2>6. ASSUME ~reconfigured
        PROVE  Cardinality((DOMAIN cache \ gone) \cup {k}) <= MaxSize
    <3>1. Cardinality(DOMAIN cache) \in Nat /\ Cardinality(DOMAIN cache) <= MaxSize /\ MaxSize \in Nat \ {0} /\ IsFiniteSet(DOMAIN cache)
      BY <1>0, <2>6, FS_CardinalityType DEF CacheTyped, PolicyKept, CacheConstants
    <3>2. CASE k \in DOMAIN cache
      <4>1. gone = {}
        BY <2>2, <3>2
      <4>2. (DOMAIN cache \ gone) \cup {k} = DOMAIN cache
        BY <3>2, <4>1
      <4> QED  BY <3>1, <4>1, <4>2
    <3>3. CASE k \notin DOMAIN cache /\ Cardinality(DOMAIN cache) < MaxSize
      <4>1. gone = {}
        BY <2>2, <3>1, <3>3
      <4>2. (DOMAIN cache \ gone) \cup {k} = DOMAIN cache \cup {k}
        BY <4>1
      <4>3. Cardinality(DOMAIN cache \cup {k}) = Cardinality(DOMAIN cache) + 1
        BY <3>1, <3>3, FS_AddElement
      <4> QED  BY <3>1, <3>3, <4>1, <4>2, <4>3
    <3>4. CASE k \notin DOMAIN cache /\ ~(Cardinality(DOMAIN cache) < MaxSize)
      <4>1. DOMAIN cache # {}
        BY <3>1, <3>4, FS_EmptySet
      <4>2. TheCache!Victims # {} /\ TheCache!Victims \subseteq DOMAIN cache
        BY <2>6, <4>1, VictimsAre
      <4>3. PICK v \in DOMAIN cache : gone = {v}
        BY <2>2, <3>1, <3>4, <4>2
      <4> DEFINE D == DOMAIN cache \ gone
      <4>4. IsFiniteSet(D) /\ Cardinality(D) = Cardinality(DOMAIN cache) - 1
        BY <3>1, <4>3, FS_RemoveElement
      <4>5. k \notin D
        BY <3>4
      <4> HIDE DEF D
      <4>6. Cardinality(D \cup {k}) = Cardinality(D) + 1
        BY <4>4, <4>5, FS_AddElement
      <4>7. Cardinality(D \cup {k}) <= MaxSize
        BY <3>1, <4>4, <4>6
      <4> QED  BY <4>7 DEF D
    <3> QED  BY <3>2, <3>3, <3>4
  <2>8. ~reconfigured => Cardinality((DOMAIN cache \ gone) \cup {k}) <= MaxSize
    BY <2>6
  <2> QED  BY <2>1, <2>2, <2>4, <2>5, <2>7, <2>8, KeyUsed DEF left, entry
<1>4. CASE TheCache!Clear
  <2>1. DOMAIN cache' = {} /\ DOMAIN accessFrequency' = {} /\ accessOrder' = <<>> /\ UNCHANGED <<clock, evictionPolicy, reconfigured>>
    BY <1>4 DEF TheCache!Clear, TheCache!Empty
  <2>2. CacheTyped'
    BY <1>0, <2>1, FS_EmptySet DEF CacheTyped, TheCache!IsMap
  <2>3. OrderKept'
    BY <2>1 DEF OrderKept, DistinctIn, TheCache!ToSet
  <2>4. PolicyKept'
    BY <2>1, FS_EmptySet DEF PolicyKept, CacheConstants
  <2> QED  BY <2>2, <2>3, <2>4 DEF CacheInv
<1>5. CASE TheCache!Cleanup
  BY <1>5, KeysGone DEF TheCache!Cleanup
<1>6. CASE TheCache!Tick
  <2>1. UNCHANGED <<cache, accessOrder, accessFrequency, evictionPolicy, reconfigured>> /\ clock' \in 0..MaxClock
    BY <1>0, <1>6 DEF TheCache!Tick, CacheTyped, CacheConstants
  <2>2. CacheTyped'
    BY <1>0, <2>1 DEF CacheTyped, CacheEntryType, TheCache!IsMap
  <2>3. OrderKept' /\ PolicyKept'
    BY <1>0, <2>1 DEF OrderKept, DistinctIn, TheCache!ToSet, PolicyKept, TheCache!Get
  <2> QED  BY <2>2, <2>3 DEF CacheInv
<1>7. ASSUME NEW p \in TheCache!Policies, TheCache!UpdateConfig(p) PROVE CacheInv'
  <2>1. UNCHANGED <<clock, cache, accessOrder, accessFrequency>> /\ evictionPolicy' = p /\ reconfigured' = TRUE
    BY <1>7 DEF TheCache!UpdateConfig
  <2>2. CacheTyped'
    BY <1>0, <2>1 DEF CacheTyped, CacheEntryType, TheCache!IsMap
  <2>3. OrderKept' /\ PolicyKept'
    BY <1>0, <2>1 DEF OrderKept, DistinctIn, TheCache!ToSet, PolicyKept
  <2> QED  BY <2>2, <2>3 DEF CacheInv
<1>8. CASE UNCHANGED TheCache!cacheVars
  <2>1. CacheTyped'
    BY <1>0, <1>8 DEF TheCache!cacheVars, CacheTyped, CacheEntryType, TheCache!IsMap
  <2>2. OrderKept' /\ PolicyKept'
    BY <1>0, <1>8 DEF TheCache!cacheVars, OrderKept, DistinctIn, TheCache!ToSet, PolicyKept, TheCache!Get
  <2> QED  BY <2>1, <2>2 DEF CacheInv
<1> QED  BY <1>1, <1>2, <1>3, <1>4, <1>5, <1>6, <1>7, <1>8 DEF TheCache!Next

LEMMA CacheInvSays == ASSUME CacheConstants PROVE CacheInv => TheCache!TypeOK /\ TheCache!EvictionKeepsUp /\ TheCache!OrderHasNoStrays
<1> SUFFICES ASSUME CacheInv PROVE TheCache!TypeOK /\ TheCache!EvictionKeepsUp /\ TheCache!OrderHasNoStrays
  OBVIOUS
<1>0. CacheTyped /\ OrderKept /\ PolicyKept
  BY DEF CacheInv
<1>1. TheCache!TypeOK
  BY <1>0 DEF CacheTyped, OrderKept, TheCache!TypeOK, CacheEntryType
<1>2. Len(accessOrder) = Cardinality(TheCache!ToSet(accessOrder)) /\ TheCache!ToSet(accessOrder) \subseteq DOMAIN cache
  BY <1>0, DistinctLen DEF OrderKept
<1>3. TheCache!EvictionKeepsUp
  <2>1. ~reconfigured /\ evictionPolicy = "LRU" => TheCache!ToSet(accessOrder) = DOMAIN cache
    BY <1>0 DEF OrderKept, PolicyKept
  <2> QED  BY <1>0, <1>2, <2>1, CacheCardinality DEF PolicyKept, TheCache!EvictionKeepsUp
<1> QED  BY <1>1, <1>2, <1>3, CacheCardinality DEF TheCache!OrderHasNoStrays

-----------------------------------------------------------------------------
\* PerformanceMonitor.  Records and alerts are of the past; the timers that run are
\* those the configuration asks for, so alerts are looked for only while records are
\* taken; and samples go to the newest profile.
LEMMA MonitorKept == \A s, S : TheMonitor!Kept(s, S) = Kept(s, S)
BY DEF Kept, TheMonitor!Kept, Nth, TheMonitor!Nth, Below, TheMonitor!Below, Cardinality, TheMonitor!Cardinality

LEMMA MonitorListed == \A S : TheMonitor!Listed(S) = Listed(S)
BY DEF Listed, TheMonitor!Listed, Cardinality, TheMonitor!Cardinality

MonitorConstants == MaxHour \in Nat /\ MaxCount \in Nat

Measures == {"transactionsPerSecond", "errorRate", "queueSize", "cpuUsage"}
RecordType == [over : SUBSET Measures, at : 0..today]
RaisedType == [metric : Measures, at : 0..today, resolved : BOOLEAN]
ProfileType == [samples : Nat, summary : Nat, ended : BOOLEAN]

RecordsTyped ==
    /\ today \in 0..MaxHour
    /\ records \in Seq(RecordType) /\ raised \in Seq(RaisedType)
CountersTyped == TheMonitor!IsMap(counters, CounterNames, 0..MaxCount)
TimersFollow ==
    /\ monitorConfig \in [enabled : BOOLEAN, enableAlerts : BOOLEAN, enableProfiling : BOOLEAN]
    /\ timersOn \subseteq {"metrics", "alerts"}
    /\ TheMonitor!AlertsWatchRecords
ProfilesFollow == profiles \in Seq(ProfileType) /\ TheMonitor!SummaryIsOfSamples

MonitorInv == RecordsTyped /\ CountersTyped /\ TimersFollow /\ ProfilesFollow

LEMMA MonitorInit == ASSUME MonitorConstants PROVE TheMonitor!Init => MonitorInv
<1> SUFFICES ASSUME TheMonitor!Init PROVE MonitorInv
  OBVIOUS
<1> USE DEF TheMonitor!Init, MonitorConstants
<1>1. RecordsTyped
  BY DEF RecordsTyped
<1>2. CountersTyped
  BY DEF CountersTyped, TheMonitor!IsMap, TheMonitor!Empty
<1>3. TimersFollow
  BY DEF TimersFollow, TheMonitor!AlertsWatchRecords, TheMonitor!Started
<1>4. ProfilesFollow
  BY DEF ProfilesFollow, TheMonitor!SummaryIsOfSamples
<1> QED  BY <1>1, <1>2, <1>3, <1>4 DEF MonitorInv

\* What is recent of a sequence is a sequence of the same things.
LEMMA RecentIsSeq ==
    ASSUME NEW T, NEW s \in Seq(T)
    PROVE  TheMonitor!Recent(s) \in Seq(T)
<1> DEFINE S == {i \in DOMAIN s : s[i].at > today - Retention}
<1>1. S \subseteq DOMAIN s
  OBVIOUS
<1> HIDE DEF S
<1>2. Kept(s, S) \in Seq(T)
  BY <1>1, KeptIsSeq
<1> QED  BY <1>2, MonitorKept DEF TheMonitor!Recent, S

LEMMA MonitorStep == ASSUME MonitorConstants, MonitorInv, [TheMonitor!Next]_TheMonitor!monitorVars PROVE MonitorInv'
<1> USE DEF MonitorConstants
<1>0. RecordsTyped /\ CountersTyped /\ TimersFollow /\ ProfilesFollow
  BY DEF MonitorInv
<1>1. ASSUME UNCHANGED <<today, records, raised>> PROVE RecordsTyped'
  BY <1>0, <1>1 DEF RecordsTyped, RecordType, RaisedType
<1>2. ASSUME UNCHANGED counters PROVE CountersTyped'
  BY <1>0, <1>2 DEF CountersTyped, TheMonitor!IsMap
<1>3. ASSUME UNCHANGED <<monitorConfig, timersOn>> PROVE TimersFollow'
  BY <1>0, <1>3 DEF TimersFollow, TheMonitor!AlertsWatchRecords
<1>4. ASSUME UNCHANGED <<profiles, currentProfile>> PROVE ProfilesFollow'
  BY <1>0, <1>4 DEF ProfilesFollow, TheMonitor!SummaryIsOfSamples
<1>5. ASSUME NEW busy \in BOOLEAN, TheMonitor!CollectMetrics(busy) PROVE MonitorInv'
  <2>1. UNCHANGED <<today, monitorConfig, timersOn, counters, raised, profiles, currentProfile>>
    BY <1>5 DEF TheMonitor!CollectMetrics
  <2>2. [over |-> TheMonitor!Exceeded(busy), at |-> today] \in RecordType
    <3>1. TheMonitor!Exceeded(busy) \in SUBSET Measures
      BY Zenon DEF TheMonitor!Exceeded, Measures
    <3>2. today \in 0..today
      BY <1>0 DEF RecordsTyped
    <3> QED  BY <3>1, <3>2, Zenon DEF RecordType
  <2>3. TheMonitor!Recent(records) \in Seq(RecordType)
    BY <1>0, RecentIsSeq DEF RecordsTyped
  <2>4. records' \in Seq(RecordType)
    BY <1>5, <2>2, <2>3, AppendProperties DEF TheMonitor!CollectMetrics
  <2>5. RecordsTyped'
    BY <1>0, <2>1, <2>4 DEF RecordsTyped, RecordType, RaisedType
  <2> QED  BY <1>2, <1>3, <1>4, <2>1, <2>5 DEF MonitorInv
<1>6. CASE TheMonitor!CheckAlerts
  <2>1. UNCHANGED <<today, monitorConfig, timersOn, counters, records, profiles, currentProfile>>
    BY <1>6, MonitorListed DEF TheMonitor!CheckAlerts
  <2> DEFINE over == records[Len(records)].over
             new == {[metric |-> m, at |-> today, resolved |-> FALSE] : m \in over}
  <2>2. over \in SUBSET Measures
    <3>1. records # <<>>
      BY <1>6, MonitorListed DEF TheMonitor!CheckAlerts
    <3>2. Len(records) \in 1..Len(records) /\ records \in Seq(RecordType)
      BY <1>0, <3>1, EmptySeq, LenProperties DEF RecordsTyped
    <3>3. records[Len(records)] \in RecordType
      BY <3>2, ElementOfSeq
    <3> QED  BY <3>3 DEF RecordType
  <2> HIDE DEF over
  <2>3. new \subseteq RaisedType
    <3>1. today \in 0..today
      BY <1>0 DEF RecordsTyped
    <3>2. \A m \in over : m \in Measures
      BY <2>2
    <3>3. \A m \in over : [metric |-> m, at |-> today, resolved |-> FALSE] \in RaisedType
      BY <3>1, <3>2, Zenon DEF RaisedType
    <3> QED  BY <3>3
  <2>4. IsFiniteSet(new)
    <3>1. IsFiniteSet(Measures)
      <4>1. Measures = ({"transactionsPerSecond"} \cup {"errorRate"}) \cup ({"queueSize"} \cup {"cpuUsage"})
        BY DEF Measures
      <4> QED  BY <4>1, FS_Singleton, FS_Union
    <3>2. IsFiniteSet(over)
      BY <2>2, <3>1, FS_Subset
    <3> DEFINE alert == [m \in over |-> [metric |-> m, at |-> today, resolved |-> FALSE]]
    <3>3. new = {alert[m] : m \in over} /\ DOMAIN alert = over
      OBVIOUS
    <3>4. alert \in Surjection(over, new)
      BY DEF Surjection
    <3> QED  BY <3>2, <3>4, FS_Surjection
  <2> HIDE DEF new
  <2>5. Listed(new) \in Seq(RaisedType)
    BY <2>3, <2>4, ListedIs
  <2>6. raised \o Listed(new) \in Seq(RaisedType)
    BY <1>0, <2>5, ConcatProperties DEF RecordsTyped
  <2>7. raised' = TheMonitor!Recent(raised \o Listed(new))
    BY <1>6, MonitorListed DEF TheMonitor!CheckAlerts, new, over
  <2>8. raised' \in Seq(RaisedType)
    BY <2>6, <2>7, RecentIsSeq
  <2>9. RecordsTyped'
    BY <1>0, <2>1, <2>8 DEF RecordsTyped, RecordType, RaisedType
  <2> QED  BY <1>2, <1>3, <1>4, <2>1, <2>9 DEF MonitorInv
<1>7. ASSUME NEW i \in DOMAIN raised, TheMonitor!ResolveAlert(i) PROVE MonitorInv'
  <2>1. UNCHANGED <<today, monitorConfig, timersOn, counters, records, profiles, currentProfile>>
    BY <1>7 DEF TheMonitor!ResolveAlert
  <2>2. raised \in Seq(RaisedType) /\ DOMAIN raised = 1..Len(raised)
    BY <1>0 DEF RecordsTyped
  <2>3. raised[i] \in RaisedType
    BY <2>2, ElementOfSeq
  <2> DEFINE e == [raised[i] EXCEPT !.resolved = TRUE]
  <2>4. e \in RaisedType
    BY <2>3 DEF RaisedType
  <2>5. raised' = [raised EXCEPT ![i] = e]
    BY <1>7 DEF TheMonitor!ResolveAlert
  <2> HIDE DEF e
  <2>6. raised' \in Seq(RaisedType)
    BY <2>2, <2>4, <2>5, ExceptSeq
  <2>7. RecordsTyped'
    BY <1>0, <2>1, <2>6 DEF RecordsTyped, RecordType, RaisedType
  <2> QED  BY <1>2, <1>3, <1>4, <2>1, <2>7 DEF MonitorInv
<1>8. ASSUME NEW name \in CounterNames, TheMonitor!Count(name) PROVE MonitorInv'
  <2>1. UNCHANGED <<today, monitorConfig, timersOn, records, raised, profiles, currentProfile>>
    BY <1>8 DEF TheMonitor!Count
  <2>2. TheMonitor!Counter(name) \in Nat
    BY <1>0 DEF TheMonitor!Counter, TheMonitor!Get, CountersTyped, TheMonitor!IsMap
  <2>3. PICK v \in {TheMonitor!Counter(name) + 1, 0} : v <= MaxCount /\ counters' = TheMonitor!Put(counters, name, v)
    BY <1>8 DEF TheMonitor!Count
  <2>4. v \in 0..MaxCount
    BY <2>2, <2>3
  <2>5. CountersTyped'
    BY <1>0, <2>3, <2>4 DEF CountersTyped, TheMonitor!IsMap, TheMonitor!Put
  <2> QED  BY <1>1, <1>3, <1>4, <2>1, <2>5 DEF MonitorInv
<1>9. CASE TheMonitor!StartProfiling
  <2>1. UNCHANGED <<today, monitorConfig, timersOn, counters, records, raised>>
    BY <1>9 DEF TheMonitor!StartProfiling
  <2> DEFINE p == [samples |-> 0, summary |-> 0, ended |-> FALSE]
  <2>2. p \in ProfileType /\ profiles \in Seq(ProfileType)
    BY <1>0 DEF ProfilesFollow, ProfileType
  <2>3. profiles' = Append(profiles, p) /\ currentProfile' = Len(profiles) + 1
    BY <1>9 DEF TheMonitor!StartProfiling
  <2>4. /\ profiles' \in Seq(ProfileType) /\ Len(profiles') = Len(profiles) + 1 /\ DOMAIN profiles' = 1..Len(profiles')
        /\ \A i \in 1..Len(profiles) : profiles'[i] = profiles[i]
        /\ profiles'[Len(profiles) + 1] = p
    BY <2>2, <2>3, AppendProperties
  <2>5. ASSUME NEW i \in DOMAIN profiles' PROVE profiles'[i].summary <= profiles'[i].samples /\ (profiles'[i].summary > 0 => profiles'[i].ended)
    <3>1. i \in 1..Len(profiles) \/ i = Len(profiles) + 1
      BY <2>2, <2>4
    <3>2. CASE i \in 1..Len(profiles)
      <4>1. profiles'[i] = profiles[i] /\ i \in DOMAIN profiles
        BY <2>2, <2>4, <3>2
      <4> QED  BY <1>0, <4>1 DEF ProfilesFollow, TheMonitor!SummaryIsOfSamples
    <3>3. CASE i = Len(profiles) + 1
      BY <2>4, <3>3
    <3> QED  BY <3>1, <3>2, <3>3
  <2>6. ProfilesFollow'
    BY <2>3, <2>4, <2>5 DEF ProfilesFollow, TheMonitor!SummaryIsOfSamples, ProfileType
  <2> QED  BY <1>1, <1>2, <1>3, <2>1, <2>6 DEF MonitorInv
<1>10. ASSUME NEW i \in DOMAIN profiles, NEW p \in ProfileType,
              p.summary <= p.samples, p.summary > 0 => p.ended,
              profiles' = [profiles EXCEPT ![i] = p], UNCHANGED currentProfile
       PROVE  ProfilesFollow'
  <2>1. profiles \in Seq(ProfileType) /\ DOMAIN profiles = 1..Len(profiles)
    BY <1>0 DEF ProfilesFollow
  <2>2. /\ profiles' \in Seq(ProfileType) /\ Len(profiles') = Len(profiles) /\ DOMAIN profiles' = DOMAIN profiles
        /\ \A j \in DOMAIN profiles : profiles'[j] = IF j = i THEN p ELSE profiles[j]
    BY <1>10, <2>1, ExceptSeq
  <2> QED  BY <1>0, <1>10, <2>2 DEF ProfilesFollow, TheMonitor!SummaryIsOfSamples, ProfileType
<1>11. ASSUME NEW i \in DOMAIN profiles PROVE profiles[i] \in ProfileType /\ profiles[i].summary <= profiles[i].samples
                                             /\ (profiles[i].summary > 0 => profiles[i].ended)
  BY <1>0 DEF ProfilesFollow, TheMonitor!SummaryIsOfSamples
<1>12. CASE TheMonitor!RecordSample
  <2>1. UNCHANGED <<today, monitorConfig, timersOn, counters, records, raised, currentProfile>>
    BY <1>12 DEF TheMonitor!RecordSample
  <2> DEFINE i == currentProfile
             p == [profiles[i] EXCEPT !.samples = @ + 1]
  <2>2. i \in DOMAIN profiles
    BY <1>0, <1>12 DEF TheMonitor!RecordSample, ProfilesFollow, TheMonitor!SummaryIsOfSamples
  <2>3. p \in ProfileType /\ p.summary <= p.samples /\ (p.summary > 0 => p.ended)
    BY <1>11, <2>2 DEF ProfileType
  <2>4. profiles' = [profiles EXCEPT ![i] = p]
    BY <1>12 DEF TheMonitor!RecordSample
  <2> HIDE DEF p
  <2>5. ProfilesFollow'
    BY <1>10, <2>1, <2>2, <2>3, <2>4
  <2> QED  BY <1>1, <1>2, <1>3, <2>1, <2>5 DEF MonitorInv
<1>13. ASSUME NEW i \in DOMAIN profiles PROVE TheMonitor!Finished(profiles[i]) \in ProfileType
              /\ TheMonitor!Finished(profiles[i]).summary <= TheMonitor!Finished(profiles[i]).samples /\ TheMonitor!Finished(profiles[i]).ended
  <2> DEFINE p == profiles[i]
  <2>1. p \in ProfileType
    BY <1>11
  <2> HIDE DEF p
  <2>2. TheMonitor!Finished(p) \in ProfileType /\ TheMonitor!Finished(p).summary = p.samples /\ TheMonitor!Finished(p).samples = p.samples /\ TheMonitor!Finished(p).ended
    BY <2>1 DEF ProfileType, TheMonitor!Finished
  <2>3. p.samples \in Nat
    BY <2>1 DEF ProfileType
  <2> QED  BY <2>2, <2>3 DEF p
<1>14. ASSUME NEW i \in DOMAIN profiles, TheMonitor!StopProfiling(i) PROVE MonitorInv'
  <2>1. UNCHANGED <<today, monitorConfig, timersOn, counters, records, raised, currentProfile>>
    BY <1>14 DEF TheMonitor!StopProfiling
  <2>2. profiles' = [profiles EXCEPT ![i] = TheMonitor!Finished(profiles[i])]
    BY <1>14 DEF TheMonitor!StopProfiling
  <2>3. ProfilesFollow'
    BY <1>10, <1>13, <2>1, <2>2
  <2> QED  BY <1>1, <1>2, <1>3, <2>1, <2>3 DEF MonitorInv
<1>15. ASSUME NEW e \in BOOLEAN, NEW a \in BOOLEAN,
              TheMonitor!UpdateConfig([enabled |-> e, enableAlerts |-> a, enableProfiling |-> TRUE])
       PROVE  MonitorInv'
  <2>1. UNCHANGED <<today, counters, records, raised, profiles, currentProfile>>
    BY <1>15 DEF TheMonitor!UpdateConfig
  <2>2. TimersFollow'
    BY <1>15 DEF TheMonitor!UpdateConfig, TheMonitor!Started, TimersFollow, TheMonitor!AlertsWatchRecords
  <2> QED  BY <1>1, <1>2, <1>4, <2>1, <2>2 DEF MonitorInv
<1>16. CASE TheMonitor!StopMonitor
  <2>1. UNCHANGED <<today, monitorConfig, counters, records, raised, currentProfile>> /\ timersOn' = {}
    BY <1>16 DEF TheMonitor!StopMonitor
  <2>2. TimersFollow'
    BY <1>0, <2>1 DEF TimersFollow, TheMonitor!AlertsWatchRecords
  <2>3. CASE currentProfile = 0
    <3>1. UNCHANGED <<profiles, currentProfile>>
      BY <1>16, <2>3 DEF TheMonitor!StopMonitor
    <3> QED  BY <1>1, <1>2, <1>4, <2>1, <2>2, <3>1 DEF MonitorInv
  <2>4. CASE currentProfile # 0
    <3>1. currentProfile \in DOMAIN profiles
      BY <1>0, <2>4 DEF ProfilesFollow, TheMonitor!SummaryIsOfSamples
    <3>2. profiles' = [profiles EXCEPT ![currentProfile] = TheMonitor!Finished(profiles[currentProfile])]
      BY <1>16, <2>4 DEF TheMonitor!StopMonitor
    <3>3. ProfilesFollow'
      BY <1>10, <1>13, <2>1, <3>1, <3>2
    <3> QED  BY <1>1, <1>2, <2>1, <2>2, <3>3 DEF MonitorInv
  <2> QED  BY <2>3, <2>4
<1>17. CASE TheMonitor!Reset
  <2>1. UNCHANGED <<today, monitorConfig, timersOn>>
    BY <1>17 DEF TheMonitor!Reset
  <2>2. RecordsTyped' /\ CountersTyped' /\ ProfilesFollow'
    BY <1>0, <1>17 DEF TheMonitor!Reset, RecordsTyped, CountersTyped, ProfilesFollow, TheMonitor!SummaryIsOfSamples, TheMonitor!IsMap, TheMonitor!Empty
  <2> QED  BY <1>3, <2>1, <2>2 DEF MonitorInv
<1>18. CASE TheMonitor!HourIsOver
  <2>1. UNCHANGED <<monitorConfig, timersOn, counters, records, raised, profiles, currentProfile>>
        /\ today < MaxHour /\ today' = today + 1
    BY <1>18 DEF TheMonitor!HourIsOver
  <2>2. today \in 0..MaxHour /\ records \in Seq(RecordType) /\ raised \in Seq(RaisedType)
    BY <1>0 DEF RecordsTyped
  <2>3. RecordType \subseteq RecordType' /\ RaisedType \subseteq RaisedType'
    BY <2>1, <2>2 DEF RecordType, RaisedType
  <2>4. records \in Seq(RecordType') /\ raised \in Seq(RaisedType')
    BY <2>2, <2>3, SeqMonotonic
  <2>5. RecordsTyped'
    BY <2>1, <2>2, <2>4 DEF RecordsTyped
  <2> QED  BY <1>2, <1>3, <1>4, <2>1, <2>5 DEF MonitorInv
<1>19. CASE UNCHANGED TheMonitor!monitorVars
  BY <1>1, <1>2, <1>3, <1>4, <1>19 DEF TheMonitor!monitorVars, MonitorInv
<1> QED  BY <1>5, <1>6, <1>7, <1>8, <1>9, <1>12, <1>14, <1>15, <1>16, <1>17, <1>18, <1>19 DEF TheMonitor!Next

LEMMA MonitorInvSays == MonitorInv => TheMonitor!TypeOK /\ TheMonitor!AlertsWatchRecords /\ TheMonitor!SummaryIsOfSamples
<1> SUFFICES ASSUME MonitorInv PROVE TheMonitor!TypeOK /\ TheMonitor!AlertsWatchRecords /\ TheMonitor!SummaryIsOfSamples
  OBVIOUS
<1>0. RecordsTyped /\ CountersTyped /\ TimersFollow /\ ProfilesFollow
  BY DEF MonitorInv
<1>1. \A i \in DOMAIN records : records[i].at \in 0..today
  <2>1. \A i \in DOMAIN records : records[i] \in RecordType
    BY <1>0, LenProperties, ElementOfSeq DEF RecordsTyped
  <2> QED  BY <2>1 DEF RecordType
<1>2. \A i \in DOMAIN raised : raised[i].at \in 0..today /\ raised[i].resolved \in BOOLEAN
  <2>1. \A i \in DOMAIN raised : raised[i] \in RaisedType
    BY <1>0, LenProperties, ElementOfSeq DEF RecordsTyped
  <2> QED  BY <2>1 DEF RaisedType
<1>3. currentProfile \in 0..Len(profiles)
  BY <1>0 DEF ProfilesFollow, TheMonitor!SummaryIsOfSamples
<1> QED  BY <1>0, <1>1, <1>2, <1>3 DEF RecordsTyped, CountersTyped, TimersFollow, ProfilesFollow, TheMonitor!TypeOK

-----------------------------------------------------------------------------
\* ValidatorHealthMonitor.  The alerts of failures and of low rates are among those
\* kept, and every call that measures looks for them, so who was seen in this
\* interval has them.
HealthConstants ==
    /\ SlowTime \in Nat /\ MinReputation \in Int /\ MaxInterval \in Nat /\ MaxCalls \in Nat
    /\ {"CONSECUTIVE_FAILURES", "SUCCESS_RATE_LOW"} \subseteq KeptTypes

Severities == {"WARNING", "ERROR", "CRITICAL"}
AlertRecord == [type : KeptTypes, severity : Severities, at : 0..interval, metrics : TheHealth!Metrics]
HealthTyped ==
    /\ interval \in 0..MaxInterval /\ calls \in 0..MaxCalls
    /\ TheHealth!IsMap(healthData, Watched, TheHealth!Metrics)
    /\ \A v \in DOMAIN healthData : healthData[v].failures <= calls
AlertsTyped ==
    /\ DOMAIN alertHistory \subseteq Watched
    /\ \A v \in DOMAIN alertHistory : alertHistory[v] # {} /\ alertHistory[v] \subseteq AlertRecord

\* What these alerts say of these metrics, if their validator was seen just now.
ToldOf(S, m, now) ==
    /\ m.failures >= 3 => \E a \in S : a.at = now /\ a.type = "CONSECUTIVE_FAILURES" /\ a.metrics.failures >= m.failures
    /\ m.rate < 9500 => \E a \in S : a.at = now /\ a.type = "SUCCESS_RATE_LOW" /\ a.metrics.rate <= m.rate
AlertsFollow == \A v \in DOMAIN healthData : healthData[v].lastSeen = interval => ToldOf(TheHealth!Get(alertHistory, v, {}), healthData[v], interval)

HealthInv == HealthTyped /\ AlertsTyped /\ AlertsFollow

\* What metrics are, and how they are made.
LEMMA MetricsAre ==
    ASSUME HealthConstants, NEW m \in TheHealth!Metrics
    PROVE  /\ m.response \in Nat /\ m.rate \in Nat /\ m.rate <= 10000 /\ m.lastSeen \in Nat /\ m.lastSeen <= interval
           /\ m.failures \in Nat /\ m.failures <= MaxCalls /\ m.reputation \in Nat /\ m.reputation <= 100
<1> DEFINE N == 0..MaxCalls
           R == 0..10000
           L == 0..interval
           P == 0..100
<1>1. /\ \A n \in N : n \in Nat /\ n <= MaxCalls
      /\ \A n \in R : n \in Nat /\ n <= 10000
      /\ \A n \in L : n \in Nat /\ n <= interval
      /\ \A n \in P : n \in Nat /\ n <= 100
  BY DEF HealthConstants
<1>2. TheHealth!Metrics = [response : Nat, rate : R, lastSeen : L, failures : N, reputation : P]
  BY DEF TheHealth!Metrics
<1> HIDE DEF N, R, L, P
<1>3. m.response \in Nat /\ m.rate \in R /\ m.lastSeen \in L /\ m.failures \in N /\ m.reputation \in P
  BY <1>2
<1> QED  BY <1>1, <1>3

LEMMA MetricsMade ==
    ASSUME HealthConstants, interval \in Nat,
           NEW x \in Nat, NEW a \in Nat, a <= 10000, NEW f \in Nat, f <= MaxCalls, NEW p \in Nat, p <= 100
    PROVE  [response |-> x, rate |-> a, lastSeen |-> interval, failures |-> f, reputation |-> p] \in TheHealth!Metrics
<1> DEFINE N == 0..MaxCalls
           R == 0..10000
           L == 0..interval
           P == 0..100
<1>1. a \in R /\ interval \in L /\ f \in N /\ p \in P
  BY DEF HealthConstants
<1>2. TheHealth!Metrics = [response : Nat, rate : R, lastSeen : L, failures : N, reputation : P]
  BY DEF TheHealth!Metrics
<1> HIDE DEF N, R, L, P
<1> QED  BY <1>1, <1>2

LEMMA HealthInit == ASSUME HealthConstants PROVE TheHealth!Init => HealthInv
BY DEF TheHealth!Init, HealthInv, HealthTyped, AlertsTyped, AlertsFollow, TheHealth!IsMap, TheHealth!Empty, HealthConstants

\* What metrics raise: alerts of now that carry them, one of failures and one of the
\* rate among them when these are the reason.
LEMMA AlertsAre ==
    ASSUME HealthConstants, HealthInv, NEW m \in TheHealth!Metrics
    PROVE  TheHealth!Alerts(m) \subseteq AlertRecord /\ ToldOf(TheHealth!Alerts(m), m, interval)
<1> DEFINE Alert(type, told, severe, severity, otherwise) ==
               IF told /\ type \in KeptTypes
               THEN {[type |-> type, severity |-> IF severe THEN severity ELSE otherwise, at |-> interval, metrics |-> m]}
               ELSE {}
           silent == interval - m.lastSeen
           A1 == Alert("RESPONSE_TIME_HIGH", m.response > SlowTime, m.response > 2 * SlowTime, "ERROR", "WARNING")
           A2 == Alert("SUCCESS_RATE_LOW", m.rate < 9500, m.rate < 7600, "CRITICAL", "ERROR")
           A3 == Alert("CONSECUTIVE_FAILURES", m.failures >= 3, m.failures >= 6, "CRITICAL", "ERROR")
           A4 == Alert("REPUTATION_LOW", m.reputation < MinReputation, 2 * m.reputation < MinReputation, "CRITICAL", "WARNING")
           A5 == Alert("UPTIME_LOW", silent > 3, silent > 6, "CRITICAL", "ERROR")
<1>1. TheHealth!Alerts(m) = A1 \cup A2 \cup A3 \cup A4 \cup A5
  BY DEF TheHealth!Alerts
<1>2. interval \in 0..interval
  BY DEF HealthInv, HealthTyped, HealthConstants
<1>3. ASSUME NEW type \in KeptTypes, NEW severe, NEW severity \in Severities, NEW otherwise \in Severities
      PROVE  [type |-> type, severity |-> IF severe THEN severity ELSE otherwise, at |-> interval, metrics |-> m] \in AlertRecord
  <2> DEFINE s == IF severe THEN severity ELSE otherwise
  <2>1. s \in Severities
    OBVIOUS
  <2> HIDE DEF s
  <2> QED  BY <1>2, <2>1 DEF AlertRecord
<1>4. A1 \subseteq AlertRecord
  <2> DEFINE c == m.response > SlowTime
             d == m.response > 2 * SlowTime
  <2>1. A1 = Alert("RESPONSE_TIME_HIGH", c, d, "ERROR", "WARNING")
    OBVIOUS
  <2> HIDE DEF c, d
  <2> DEFINE x == [type |-> "RESPONSE_TIME_HIGH", severity |-> IF d THEN "ERROR" ELSE "WARNING", at |-> interval, metrics |-> m]
  <2>2. "RESPONSE_TIME_HIGH" \in KeptTypes => x \in AlertRecord
    <3>1. "ERROR" \in Severities /\ "WARNING" \in Severities
      BY DEF Severities
    <3> QED  BY <1>3, <3>1
  <2>3. A1 = IF c /\ "RESPONSE_TIME_HIGH" \in KeptTypes THEN {x} ELSE {}
    BY <2>1
  <2> HIDE DEF x, A1
  <2> QED  BY <2>2, <2>3
<1>5. A2 \subseteq AlertRecord
  <2> DEFINE c == m.rate < 9500
             d == m.rate < 7600
  <2>1. A2 = Alert("SUCCESS_RATE_LOW", c, d, "CRITICAL", "ERROR")
    OBVIOUS
  <2> HIDE DEF c, d
  <2> DEFINE x == [type |-> "SUCCESS_RATE_LOW", severity |-> IF d THEN "CRITICAL" ELSE "ERROR", at |-> interval, metrics |-> m]
  <2>2. "SUCCESS_RATE_LOW" \in KeptTypes => x \in AlertRecord
    <3>1. "CRITICAL" \in Severities /\ "ERROR" \in Severities
      BY DEF Severities
    <3> QED  BY <1>3, <3>1
  <2>3. A2 = IF c /\ "SUCCESS_RATE_LOW" \in KeptTypes THEN {x} ELSE {}
    BY <2>1
  <2> HIDE DEF x, A2
  <2> QED  BY <2>2, <2>3
<1>6. A3 \subseteq AlertRecord
  <2> DEFINE c == m.failures >= 3
             d == m.failures >= 6
  <2>1. A3 = Alert("CONSECUTIVE_FAILURES", c, d, "CRITICAL", "ERROR")
    OBVIOUS
  <2> HIDE DEF c, d
  <2> DEFINE x == [type |-> "CONSECUTIVE_FAILURES", severity |-> IF d THEN "CRITICAL" ELSE "ERROR", at |-> interval, metrics |-> m]
  <2>2. "CONSECUTIVE_FAILURES" \in KeptTypes => x \in AlertRecord
    <3>1. "CRITICAL" \in Severities /\ "ERROR" \in Severities
      BY DEF Severities
    <3> QED  BY <1>3, <3>1
  <2>3. A3 = IF c /\ "CONSECUTIVE_FAILURES" \in KeptTypes THEN {x} ELSE {}
    BY <2>1
  <2> HIDE DEF x, A3
  <2> QED  BY <2>2, <2>3
<1>7. A4 \subseteq AlertRecord
  <2> DEFINE c == m.reputation < MinReputation
             d == 2 * m.reputation < MinReputation
  <2>1. A4 = Alert("REPUTATION_LOW", c, d, "CRITICAL", "WARNING")
    OBVIOUS
  <2> HIDE DEF c, d
  <2> DEFINE x == [type |-> "REPUTATION_LOW", severity |-> IF d THEN "CRITICAL" ELSE "WARNING", at |-> interval, metrics |-> m]
  <2>2. "REPUTATION_LOW" \in KeptTypes => x \in AlertRecord
    <3>1. "CRITICAL" \in Severities /\ "WARNING" \in Severities
      BY DEF Severities
    <3> QED  BY <1>3, <3>1
  <2>3. A4 = IF c /\ "REPUTATION_LOW" \in KeptTypes THEN {x} ELSE {}
    BY <2>1
  <2> HIDE DEF x, A4
  <2> QED  BY <2>2, <2>3
<1>8. A5 \subseteq AlertRecord
  <2> DEFINE c == silent > 3
             d == silent > 6
  <2>1. A5 = Alert("UPTIME_LOW", c, d, "CRITICAL", "ERROR")
    OBVIOUS
  <2> HIDE DEF c, d
  <2> DEFINE x == [type |-> "UPTIME_LOW", severity |-> IF d THEN "CRITICAL" ELSE "ERROR", at |-> interval, metrics |-> m]
  <2>2. "UPTIME_LOW" \in KeptTypes => x \in AlertRecord
    <3>1. "CRITICAL" \in Severities /\ "ERROR" \in Severities
      BY DEF Severities
    <3> QED  BY <1>3, <3>1
  <2>3. A5 = IF c /\ "UPTIME_LOW" \in KeptTypes THEN {x} ELSE {}
    BY <2>1
  <2> HIDE DEF x, A5
  <2> QED  BY <2>2, <2>3
<1>9. m.failures \in Nat /\ m.rate \in Nat
  BY MetricsAre
<1>10. m.failures >= 3 => \E a \in A3 : a.at = interval /\ a.type = "CONSECUTIVE_FAILURES" /\ a.metrics.failures >= m.failures
  <2> SUFFICES ASSUME m.failures >= 3 PROVE \E a \in A3 : a.at = interval /\ a.type = "CONSECUTIVE_FAILURES" /\ a.metrics.failures >= m.failures
    OBVIOUS
  <2> DEFINE a == [type |-> "CONSECUTIVE_FAILURES", severity |-> IF m.failures >= 6 THEN "CRITICAL" ELSE "ERROR", at |-> interval, metrics |-> m]
  <2>1. a \in A3
    BY DEF HealthConstants
  <2>2. a.at = interval /\ a.type = "CONSECUTIVE_FAILURES" /\ a.metrics = m
    OBVIOUS
  <2> HIDE DEF a, A3
  <2> QED  BY <1>9, <2>1, <2>2
<1>11. m.rate < 9500 => \E a \in A2 : a.at = interval /\ a.type = "SUCCESS_RATE_LOW" /\ a.metrics.rate <= m.rate
  <2> SUFFICES ASSUME m.rate < 9500 PROVE \E a \in A2 : a.at = interval /\ a.type = "SUCCESS_RATE_LOW" /\ a.metrics.rate <= m.rate
    OBVIOUS
  <2> DEFINE a == [type |-> "SUCCESS_RATE_LOW", severity |-> IF m.rate < 7600 THEN "CRITICAL" ELSE "ERROR", at |-> interval, metrics |-> m]
  <2>1. a \in A2
    BY DEF HealthConstants
  <2>2. a.at = interval /\ a.type = "SUCCESS_RATE_LOW" /\ a.metrics = m
    OBVIOUS
  <2> HIDE DEF a, A2
  <2> QED  BY <1>9, <2>1, <2>2
<1> HIDE DEF A1, A2, A3, A4, A5
<1>12. A2 \subseteq TheHealth!Alerts(m) /\ A3 \subseteq TheHealth!Alerts(m)
  BY <1>1
<1> QED  BY <1>1, <1>4, <1>5, <1>6, <1>7, <1>8, <1>10, <1>11, <1>12 DEF ToldOf

\* A call that measures.
LEMMA MeasuredStep ==
    ASSUME HealthConstants, HealthInv, NEW v \in Watched, NEW m \in TheHealth!Metrics, m.failures <= calls + 1, TheHealth!Measured(v, m)
    PROVE  HealthInv'
<1>0. HealthTyped /\ AlertsTyped /\ AlertsFollow
  BY DEF HealthInv
<1>1. /\ calls \in Nat /\ calls < MaxCalls /\ calls' = calls + 1 /\ interval' = interval
      /\ healthData' = TheHealth!Put(healthData, v, m) /\ MaxCalls \in Nat /\ interval \in 0..MaxInterval
  BY <1>0 DEF TheHealth!Measured, HealthTyped, HealthConstants
<1>2. TheHealth!Metrics' = TheHealth!Metrics /\ AlertRecord' = AlertRecord
  BY <1>1 DEF TheHealth!Metrics, AlertRecord
<1>3. /\ DOMAIN healthData' = DOMAIN healthData \cup {v} /\ healthData'[v] = m
      /\ \A w \in DOMAIN healthData : w # v => healthData'[w] = healthData[w]
  BY <1>1 DEF TheHealth!Put
<1>4. HealthTyped'
  <2>1. calls' \in 0..MaxCalls
    BY <1>1
  <2>2. \A w \in DOMAIN healthData : healthData[w] \in TheHealth!Metrics /\ healthData[w].failures \in Nat /\ healthData[w].failures <= calls
    <3>1. \A w \in DOMAIN healthData : healthData[w] \in TheHealth!Metrics /\ healthData[w].failures <= calls
      BY <1>0 DEF HealthTyped, TheHealth!IsMap
    <3> QED  BY <3>1, MetricsAre
  <2>3. ASSUME NEW w \in DOMAIN healthData' PROVE healthData'[w].failures <= calls'
    BY <1>1, <1>3, <2>2
  <2>4. TheHealth!IsMap(healthData', Watched, TheHealth!Metrics)
    BY <1>0, <1>3, <2>2 DEF HealthTyped, TheHealth!IsMap
  <2> QED  BY <1>1, <1>2, <2>1, <2>3, <2>4 DEF HealthTyped, TheHealth!IsMap
<1> DEFINE A == TheHealth!Alerts(m)
<1>5. A \subseteq AlertRecord /\ ToldOf(A, m, interval)
  BY AlertsAre
<1>6. alertHistory' = IF A = {} THEN alertHistory ELSE TheHealth!Put(alertHistory, v, TheHealth!Get(alertHistory, v, {}) \cup A)
  BY DEF TheHealth!Measured
<1> HIDE DEF A
<1>7. /\ DOMAIN alertHistory' \subseteq DOMAIN alertHistory \cup {v}
      /\ \A w \in DOMAIN alertHistory : w # v => w \in DOMAIN alertHistory' /\ alertHistory'[w] = alertHistory[w]
      /\ \A w \in DOMAIN alertHistory' : w # v => w \in DOMAIN alertHistory
      /\ TheHealth!Get(alertHistory', v, {}) = TheHealth!Get(alertHistory, v, {}) \cup A
      /\ v \in DOMAIN alertHistory' => alertHistory'[v] = TheHealth!Get(alertHistory, v, {}) \cup A /\ (A # {} \/ v \in DOMAIN alertHistory)
  <2>1. CASE A = {}
    <3>1. alertHistory' = alertHistory
      BY <1>6, <2>1
    <3> QED  BY <2>1, <3>1 DEF TheHealth!Get
  <2>2. CASE A # {}
    <3>1. alertHistory' = TheHealth!Put(alertHistory, v, TheHealth!Get(alertHistory, v, {}) \cup A)
      BY <1>6, <2>2
    <3> DEFINE N == TheHealth!Get(alertHistory, v, {}) \cup A
    <3>2. /\ DOMAIN alertHistory' = DOMAIN alertHistory \cup {v} /\ alertHistory'[v] = N
          /\ \A w \in DOMAIN alertHistory : w # v => alertHistory'[w] = alertHistory[w]
      <4> HIDE DEF N
      <4>1. alertHistory' = TheHealth!Put(alertHistory, v, N)
        BY <3>1 DEF N
      <4> QED  BY <4>1 DEF TheHealth!Put
    <3>3. TheHealth!Get(alertHistory', v, {}) = N
      BY <3>2 DEF TheHealth!Get
    <3> QED  BY <2>2, <3>2, <3>3
  <2> QED  BY <2>1, <2>2
<1>8. AlertsTyped'
  <2>1. DOMAIN alertHistory' \subseteq Watched
    BY <1>0, <1>7 DEF AlertsTyped
  <2>2. ASSUME NEW w \in DOMAIN alertHistory' PROVE alertHistory'[w] # {} /\ alertHistory'[w] \subseteq AlertRecord
    BY <1>0, <1>5, <1>7 DEF AlertsTyped, TheHealth!Get
  <2> QED  BY <1>2, <2>1, <2>2 DEF AlertsTyped
<1>9. AlertsFollow'
  <2> SUFFICES ASSUME NEW w \in DOMAIN healthData', healthData'[w].lastSeen = interval'
               PROVE  ToldOf(TheHealth!Get(alertHistory', w, {}), healthData'[w], interval')
    BY DEF AlertsFollow
  <2>1. CASE w = v
    <3>1. A \subseteq TheHealth!Get(alertHistory', w, {}) /\ healthData'[w] = m
      BY <1>3, <1>7, <2>1
    <3> QED  BY <1>1, <1>5, <3>1 DEF ToldOf
  <2>2. CASE w # v
    <3>1. w \in DOMAIN healthData /\ healthData'[w] = healthData[w]
      BY <1>3, <2>2
    <3>2. TheHealth!Get(alertHistory', w, {}) = TheHealth!Get(alertHistory, w, {})
      BY <1>7, <2>2 DEF TheHealth!Get
    <3>3. ToldOf(TheHealth!Get(alertHistory, w, {}), healthData[w], interval)
      BY <1>0, <1>1, <3>1 DEF AlertsFollow
    <3> QED  BY <1>1, <3>1, <3>2, <3>3 DEF ToldOf
  <2> QED  BY <2>1, <2>2
<1> QED  BY <1>4, <1>8, <1>9 DEF HealthInv

\* A validator met for the first time.
LEMMA InitializeStep ==
    ASSUME HealthConstants, HealthInv, NEW v \in Watched, TheHealth!InitializeValidator(v)
    PROVE  HealthInv'
<1>0. HealthTyped /\ AlertsTyped /\ AlertsFollow
  BY DEF HealthInv
<1> DEFINE m == TheHealth!Perfect
<1>1. /\ v \notin DOMAIN healthData /\ healthData' = TheHealth!Put(healthData, v, m) /\ UNCHANGED <<interval, calls, alertHistory>>
      /\ calls \in Nat /\ interval \in 0..MaxInterval /\ interval \in Nat
  BY <1>0 DEF TheHealth!InitializeValidator, HealthTyped, HealthConstants
<1>2. m \in TheHealth!Metrics /\ m.failures = 0 /\ m.rate = 10000
  <2>1. interval \in 0..interval /\ 0 \in 0..MaxCalls
    BY <1>1 DEF HealthConstants
  <2> QED  BY <2>1 DEF TheHealth!Perfect, TheHealth!Metrics
<1> HIDE DEF m
<1>3. /\ DOMAIN healthData' = DOMAIN healthData \cup {v} /\ healthData'[v] = m
      /\ \A w \in DOMAIN healthData : healthData'[w] = healthData[w]
  BY <1>1 DEF TheHealth!Put
<1>4. TheHealth!Metrics' = TheHealth!Metrics /\ AlertRecord' = AlertRecord
  BY <1>1 DEF TheHealth!Metrics, AlertRecord
<1>5. HealthTyped'
  <2>1. TheHealth!IsMap(healthData', Watched, TheHealth!Metrics)
    BY <1>0, <1>2, <1>3 DEF HealthTyped, TheHealth!IsMap
  <2>2. \A w \in DOMAIN healthData' : healthData'[w].failures <= calls'
    BY <1>0, <1>1, <1>2, <1>3 DEF HealthTyped
  <2> QED  BY <1>0, <1>1, <1>4, <2>1, <2>2 DEF HealthTyped, TheHealth!IsMap
<1>6. AlertsTyped'
  BY <1>0, <1>1, <1>4 DEF AlertsTyped
<1>7. AlertsFollow'
  <2> SUFFICES ASSUME NEW w \in DOMAIN healthData', healthData'[w].lastSeen = interval'
               PROVE  ToldOf(TheHealth!Get(alertHistory', w, {}), healthData'[w], interval')
    BY DEF AlertsFollow
  <2>1. CASE w = v
    <3>1. healthData'[w].failures = 0 /\ healthData'[w].rate = 10000
      BY <1>2, <1>3, <2>1
    <3> QED  BY <3>1 DEF ToldOf
  <2>2. CASE w # v
    <3>1. w \in DOMAIN healthData /\ healthData'[w] = healthData[w]
      BY <1>3, <2>2
    <3>2. ToldOf(TheHealth!Get(alertHistory, w, {}), healthData[w], interval)
      BY <1>0, <1>1, <3>1 DEF AlertsFollow
    <3> QED  BY <1>1, <3>1, <3>2 DEF ToldOf, TheHealth!Get
  <2> QED  BY <2>1, <2>2
<1> QED  BY <1>5, <1>6, <1>7 DEF HealthInv

LEMMA HealthStep == ASSUME HealthConstants, HealthInv, [TheHealth!Next]_TheHealth!healthVars PROVE HealthInv'
<1>0. HealthTyped /\ AlertsTyped /\ AlertsFollow
  BY DEF HealthInv
<1>1. /\ calls \in Nat /\ interval \in 0..MaxInterval /\ interval \in Nat /\ SlowTime \in Nat /\ MaxCalls \in Nat /\ calls <= MaxCalls
      /\ \A w \in DOMAIN healthData : healthData[w] \in TheHealth!Metrics /\ healthData[w].failures \in Nat /\ healthData[w].failures <= calls
  <2>1. \A w \in DOMAIN healthData : healthData[w] \in TheHealth!Metrics /\ healthData[w].failures <= calls
    BY <1>0 DEF HealthTyped, TheHealth!IsMap
  <2>2. calls \in 0..MaxCalls /\ interval \in 0..MaxInterval /\ SlowTime \in Nat /\ MaxCalls \in Nat /\ MaxInterval \in Nat
    BY <1>0 DEF HealthTyped, HealthConstants
  <2>3. \A w \in DOMAIN healthData : healthData[w].failures \in Nat
    BY <2>1, MetricsAre
  <2> QED  BY <2>1, <2>2, <2>3
<1>4. ASSUME NEW v \in Watched, TheHealth!UpdateHealthMetrics(v, SlowTime + 1) PROVE HealthInv'
  <2> DEFINE o == TheHealth!Get(healthData, v, TheHealth!Perfect)
             m == [o EXCEPT !.response = SlowTime + 1]
  <2>1. TheHealth!Perfect \in TheHealth!Metrics /\ TheHealth!Perfect.failures = 0
    <3>1. interval \in 0..interval /\ 0 \in 0..MaxCalls
      BY <1>1
    <3> QED  BY <3>1 DEF TheHealth!Perfect, TheHealth!Metrics
  <2>2. o \in TheHealth!Metrics /\ o.failures \in Nat /\ o.failures <= calls
    BY <1>1, <2>1 DEF TheHealth!Get
  <2> HIDE DEF o
  <2>3. m \in TheHealth!Metrics /\ m.failures = o.failures
    <3>1. SlowTime + 1 \in Nat
      BY <1>1
    <3>2. m \in TheHealth!Metrics
      BY <2>2, <3>1 DEF TheHealth!Metrics
    <3>3. m.failures = o.failures
      BY <2>2 DEF TheHealth!Metrics
    <3> QED  BY <3>2, <3>3
  <2>4. TheHealth!Measured(v, m)
    BY <1>4 DEF TheHealth!UpdateHealthMetrics, o
  <2> HIDE DEF m
  <2>5. m.failures <= calls + 1
    BY <1>1, <2>2, <2>3
  <2> QED  BY <2>3, <2>4, <2>5, MeasuredStep
<1>5. ASSUME NEW v \in Watched, TheHealth!RecordSuccess(v, SlowTime) PROVE HealthInv'
  <2>1. CASE TheHealth!InitializeValidator(v)
    BY <2>1, InitializeStep
  <2> DEFINE o == healthData[v]
             m == [o EXCEPT !.response = TheHealth!Average(@, SlowTime), !.rate = TheHealth!Lower(10000, (@ * 9) \div 10 + 1000),
                        !.lastSeen = interval, !.failures = 0, !.reputation = TheHealth!Lower(100, @ + 1)]
  <2>2. CASE v \in DOMAIN healthData /\ TheHealth!Measured(v, m)
    <3>1. o \in TheHealth!Metrics /\ o.response \in Nat /\ o.rate \in Nat /\ o.rate <= 10000 /\ o.reputation \in Nat /\ o.reputation <= 100
      <4>1. o \in TheHealth!Metrics
        BY <1>1, <2>2
      <4> HIDE DEF o
      <4> QED  BY <4>1, MetricsAre
    <3> HIDE DEF o
    <3> DEFINE r == TheHealth!Average(o.response, SlowTime)
               a == TheHealth!Lower(10000, (o.rate * 9) \div 10 + 1000)
               p == TheHealth!Lower(100, o.reputation + 1)
    <3>2. r \in Nat
      BY <1>1, <3>1 DEF TheHealth!Average
    <3>3. a \in Nat /\ a <= 10000
      <4> DEFINE y == o.rate
                 q == (y * 9) \div 10 + 1000
      <4>1. q \in Nat
        <5>1. y \in Nat
          BY <3>1
        <5> HIDE DEF y
        <5> QED  BY <5>1
      <4>2. a = TheHealth!Lower(10000, q)
        OBVIOUS
      <4> HIDE DEF q, a
      <4> QED  BY <4>1, <4>2 DEF TheHealth!Lower
    <3>4. p \in Nat /\ p <= 100
      BY <3>1 DEF TheHealth!Lower
    <3>5. m = [o EXCEPT !.response = r, !.rate = a, !.lastSeen = interval, !.failures = 0, !.reputation = p]
      OBVIOUS
    <3> HIDE DEF r, a, p, m
    <3>6. interval \in Nat /\ 0 <= MaxCalls
      BY <1>1
    <3>10. o = [response |-> o.response, rate |-> o.rate, lastSeen |-> o.lastSeen, failures |-> o.failures, reputation |-> o.reputation]
      BY <3>1 DEF TheHealth!Metrics
    <3>9. m = [response |-> r, rate |-> a, lastSeen |-> interval, failures |-> 0, reputation |-> p]
      BY <3>5, <3>10
    <3>7. m \in TheHealth!Metrics /\ m.failures = 0
      BY <3>2, <3>3, <3>4, <3>6, <3>9, MetricsMade
    <3>8. m.failures <= calls + 1
      BY <1>1, <3>7
    <3> QED  BY <2>2, <3>7, <3>8, MeasuredStep
  <2> QED  BY <1>5, <2>1, <2>2 DEF TheHealth!RecordSuccess
<1>6. ASSUME NEW v \in Watched, TheHealth!RecordFailure(v) PROVE HealthInv'
  <2>1. CASE TheHealth!InitializeValidator(v)
    BY <2>1, InitializeStep
  <2> DEFINE o == healthData[v]
             m == [o EXCEPT !.rate = (@ * 9) \div 10, !.lastSeen = interval,
                            !.failures = @ + 1, !.reputation = TheHealth!Higher(0, @ - 5)]
  <2>2. CASE v \in DOMAIN healthData /\ TheHealth!Measured(v, m)
    <3>1. /\ o \in TheHealth!Metrics /\ o.response \in Nat /\ o.rate \in Nat /\ o.rate <= 10000 /\ o.reputation \in Nat /\ o.reputation <= 100 /\ o.failures \in Nat /\ o.failures <= calls
          /\ calls < MaxCalls
      <4>1. o \in TheHealth!Metrics /\ o.failures \in Nat /\ o.failures <= calls
        BY <1>1, <2>2
      <4>2. calls < MaxCalls
        BY <2>2 DEF TheHealth!Measured
      <4> HIDE DEF o
      <4> QED  BY <4>1, <4>2, MetricsAre
    <3> HIDE DEF o
    <3> DEFINE f == o.failures + 1
               a == (o.rate * 9) \div 10
               p == TheHealth!Higher(0, o.reputation - 5)
    <3>2. f \in Nat /\ f <= MaxCalls /\ f <= calls + 1
      BY <1>1, <3>1
    <3>3. a \in Nat /\ a <= 10000
      <4> DEFINE q == o.rate
      <4>1. q \in Nat /\ q <= 10000 /\ a = (q * 9) \div 10
        BY <3>1
      <4> HIDE DEF q, a
      <4> QED  BY <4>1
    <3>4. p \in Nat /\ p <= 100
      BY <3>1 DEF TheHealth!Higher
    <3>5. m = [o EXCEPT !.rate = a, !.lastSeen = interval, !.failures = f, !.reputation = p]
      OBVIOUS
    <3> HIDE DEF f, a, p, m
    <3>6. interval \in Nat
      BY <1>1
    <3>10. o = [response |-> o.response, rate |-> o.rate, lastSeen |-> o.lastSeen, failures |-> o.failures, reputation |-> o.reputation]
      BY <3>1 DEF TheHealth!Metrics
    <3>9. m = [response |-> o.response, rate |-> a, lastSeen |-> interval, failures |-> f, reputation |-> p]
      BY <3>5, <3>10
    <3>7. m \in TheHealth!Metrics /\ m.failures = f
      BY <3>2, <3>3, <3>4, <3>6, <3>9, <3>1, MetricsMade
    <3> QED  BY <2>2, <3>2, <3>7, MeasuredStep
  <2> QED  BY <1>6, <2>1, <2>2 DEF TheHealth!RecordFailure
<1>7. ASSUME NEW v \in Watched, TheHealth!RemoveWatched(v) PROVE HealthInv'
  <2>1. /\ UNCHANGED <<interval, calls>>
        /\ DOMAIN healthData' = DOMAIN healthData \ {v} /\ \A w \in DOMAIN healthData' : healthData'[w] = healthData[w]
        /\ DOMAIN alertHistory' = DOMAIN alertHistory \ {v} /\ \A w \in DOMAIN alertHistory' : alertHistory'[w] = alertHistory[w]
    BY <1>7 DEF TheHealth!RemoveWatched, TheHealth!Drop
  <2>2. TheHealth!Metrics' = TheHealth!Metrics /\ AlertRecord' = AlertRecord
    BY <2>1 DEF TheHealth!Metrics, AlertRecord
  <2>3. HealthTyped'
    BY <1>0, <2>1, <2>2 DEF HealthTyped, TheHealth!IsMap
  <2>4. AlertsTyped'
    BY <1>0, <2>1, <2>2 DEF AlertsTyped
  <2>5. AlertsFollow'
    <3>1. \A w \in DOMAIN healthData' : w \in DOMAIN healthData /\ TheHealth!Get(alertHistory', w, {}) = TheHealth!Get(alertHistory, w, {})
      BY <2>1 DEF TheHealth!Get
    <3> QED  BY <1>0, <2>1, <3>1 DEF AlertsFollow, ToldOf
  <2> QED  BY <2>3, <2>4, <2>5 DEF HealthInv
<1>8. CASE TheHealth!ClearOldAlerts(1)
  <2> DEFINE Recent(v) == {a \in alertHistory[v] : a.at > interval - 1}
  <2>1. UNCHANGED <<interval, calls, healthData>> /\ alertHistory' = [v \in {w \in DOMAIN alertHistory : Recent(w) # {}} |-> Recent(v)]
    BY <1>8 DEF TheHealth!ClearOldAlerts
  <2>2. TheHealth!Metrics' = TheHealth!Metrics /\ AlertRecord' = AlertRecord
    BY <2>1 DEF TheHealth!Metrics, AlertRecord
  <2>3. HealthTyped'
    BY <1>0, <2>1, <2>2 DEF HealthTyped, TheHealth!IsMap
  <2>4. AlertsTyped'
    BY <1>0, <2>1, <2>2 DEF AlertsTyped
  <2>5. AlertsFollow'
    <3> SUFFICES ASSUME NEW w \in DOMAIN healthData, healthData[w].lastSeen = interval
                 PROVE  ToldOf(TheHealth!Get(alertHistory', w, {}), healthData'[w], interval')
      BY <2>1 DEF AlertsFollow
    <3>1. ToldOf(TheHealth!Get(alertHistory, w, {}), healthData[w], interval)
      BY <1>0 DEF AlertsFollow
    <3>2. \A a \in TheHealth!Get(alertHistory, w, {}) : a.at = interval => a \in TheHealth!Get(alertHistory', w, {})
      <4> SUFFICES ASSUME w \in DOMAIN alertHistory, NEW a \in alertHistory[w], a.at = interval
                   PROVE  w \in DOMAIN alertHistory' /\ a \in alertHistory'[w]
        BY DEF TheHealth!Get
      <4>1. a \in Recent(w)
        BY <1>1
      <4> QED  BY <2>1, <4>1
    <3> QED  BY <2>1, <3>1, <3>2 DEF ToldOf
  <2> QED  BY <2>3, <2>4, <2>5 DEF HealthInv
<1>9. CASE TheHealth!IntervalPasses
  <2>1. interval < MaxInterval /\ interval' = interval + 1 /\ UNCHANGED <<calls, healthData, alertHistory>>
    BY <1>9 DEF TheHealth!IntervalPasses
  <2>2. 0..interval \subseteq 0..interval' /\ interval' \in 0..MaxInterval /\ interval' \notin 0..interval
    BY <1>1, <2>1 DEF HealthConstants
  <2>3. TheHealth!Metrics \subseteq TheHealth!Metrics'
    BY <2>2 DEF TheHealth!Metrics
  <2>4. AlertRecord \subseteq AlertRecord'
    BY <2>2, <2>3 DEF AlertRecord
  <2>5. HealthTyped'
    BY <1>0, <2>1, <2>2, <2>3 DEF HealthTyped, TheHealth!IsMap
  <2>6. AlertsTyped'
    BY <1>0, <2>1, <2>4 DEF AlertsTyped
  <2>7. AlertsFollow'
    <3>1. \A w \in DOMAIN healthData : healthData[w].lastSeen # interval'
      BY <1>1, <2>2, MetricsAre
    <3> QED  BY <2>1, <3>1 DEF AlertsFollow
  <2> QED  BY <2>5, <2>6, <2>7 DEF HealthInv
<1>10. CASE UNCHANGED TheHealth!healthVars
  <2>1. UNCHANGED <<interval, calls, healthData, alertHistory>>
    BY <1>10 DEF TheHealth!healthVars
  <2>2. TheHealth!Metrics' = TheHealth!Metrics /\ AlertRecord' = AlertRecord
    BY <2>1 DEF TheHealth!Metrics, AlertRecord
  <2>3. HealthTyped'
    BY <1>0, <2>1, <2>2 DEF HealthTyped, TheHealth!IsMap
  <2>4. AlertsTyped'
    BY <1>0, <2>1, <2>2 DEF AlertsTyped
  <2>5. AlertsFollow'
    BY <1>0, <2>1 DEF AlertsFollow, ToldOf, TheHealth!Get
  <2> QED  BY <2>3, <2>4, <2>5 DEF HealthInv
<1> QED  BY <1>4, <1>5, <1>6, <1>7, <1>8, <1>9, <1>10 DEF TheHealth!Next

LEMMA HealthInvSays == HealthInv => TheHealth!TypeOK /\ TheHealth!FailuresAreAlerted
<1> SUFFICES ASSUME HealthInv PROVE TheHealth!TypeOK /\ TheHealth!FailuresAreAlerted
  OBVIOUS
<1>0. HealthTyped /\ AlertsTyped /\ AlertsFollow
  BY DEF HealthInv
<1>1. TheHealth!TypeOK
  BY <1>0 DEF TheHealth!TypeOK, HealthTyped, AlertsTyped, AlertRecord, Severities
<1>2. \A v \in DOMAIN healthData : \A a \in TheHealth!Get(alertHistory, v, {}) : a.severity \in Severities
  BY <1>0 DEF AlertsTyped, AlertRecord, TheHealth!Get
<1>3. ASSUME NEW v \in DOMAIN healthData, TheHealth!Status(v) = "HEALTHY", NEW a \in TheHealth!Get(alertHistory, v, {}), interval - a.at < 10
      PROVE  a.severity = "WARNING"
  <2> DEFINE recent(severity) == \E b \in TheHealth!Get(alertHistory, v, {}) : interval - b.at < 10 /\ b.severity = severity
  <2>1. ~recent("CRITICAL") /\ ~recent("ERROR")
    BY <1>3 DEF TheHealth!Status
  <2>2. a.severity # "CRITICAL" /\ a.severity # "ERROR"
    BY <1>3, <2>1
  <2> QED  BY <1>2, <2>2 DEF Severities
<1>4. ASSUME NEW v \in DOMAIN healthData, healthData[v].lastSeen = interval
      PROVE  ToldOf(TheHealth!Get(alertHistory, v, {}), healthData[v], interval)
  BY <1>0, <1>4 DEF AlertsFollow
<1> QED  BY <1>1, <1>3, <1>4 DEF TheHealth!FailuresAreAlerted, ToldOf

-----------------------------------------------------------------------------
\* NetworkManager.  An entry of a table names its own socket, by the address dialled
\* or the port dialled from; what is on its way to a node was sent by the one that
\* dialled it, on one of its sockets only, and has not been received; a node never
\* dials itself.
NetworkConstants == MaxBroadcasts \in Nat

MessageType == [type : {"welcome", "ping", "pong", "transaction"}, tx : Nat]
SocketType == [from : Nodes, to : Nodes, client : {"CONNECTING", "OPEN", "CLOSING", "CLOSED"},
               server : {"NONE", "OPEN", "CLOSING", "CLOSED"}, up : Seq(MessageType), down : Seq(MessageType)]
EntryType == [socket : DOMAIN sockets, seen : {FALSE}]

SocketsTyped == sockets \in Seq(SocketType) /\ \A k \in DOMAIN sockets : sockets[k].from # sockets[k].to
SendsTyped == netRunning \in [Nodes -> BOOLEAN] /\ netSent \in Seq(Nodes) /\ netPings \in 0..MaxBroadcasts

\* The entry id of n, with the sockets s.
EntryOf(n, id, e, s) ==
    \/ id = TheNetwork!DialledFrom(e.socket) /\ s[e.socket].to = n
    \/ id = TheNetwork!Dialled(s[e.socket].to) /\ s[e.socket].from = n
TablesName ==
    /\ DOMAIN netPeers = Nodes
    /\ \A n \in Nodes : \A id \in DOMAIN netPeers[n] :
          netPeers[n][id] \in EntryType /\ EntryOf(n, id, netPeers[n][id], sockets)

Delivery(s, k, i) == [node |-> s[k].to, tx |-> s[k].up[i].tx]
Carries(s, k, i) == k \in DOMAIN s /\ i \in DOMAIN s[k].up /\ s[k].up[i].type = "transaction"
InFlight ==
    /\ \A k \in DOMAIN sockets : \A i \in DOMAIN sockets[k].up : sockets[k].up[i].type \in {"ping", "transaction"}
    /\ \A k, i : Carries(sockets, k, i) =>
          /\ sockets[k].up[i].tx \in DOMAIN netSent /\ netSent[sockets[k].up[i].tx] = sockets[k].from
          /\ Delivery(sockets, k, i) \notin DOMAIN netReceived
FlightsOnce ==
    \A k, i, l, j : Carries(sockets, k, i) /\ Carries(sockets, l, j) /\ Delivery(sockets, k, i) = Delivery(sockets, l, j) => k = l /\ i = j

ReceivedOnce ==
    \A d \in DOMAIN netReceived :
        /\ d \in [node : Nodes, tx : DOMAIN netSent] /\ netReceived[d] = 1
        /\ \E k \in DOMAIN sockets : sockets[k].from = netSent[d.tx] /\ sockets[k].to = d.node

NetworkInv == SocketsTyped /\ SendsTyped /\ TablesName /\ TheNetwork!IncomingIsOpen /\ InFlight /\ FlightsOnce /\ ReceivedOnce

LEMMA NetworkInit == ASSUME NetworkConstants PROVE TheNetwork!Init => NetworkInv
<1> SUFFICES ASSUME TheNetwork!Init PROVE NetworkInv
  OBVIOUS
<1>1. /\ netRunning = [n \in Nodes |-> TRUE] /\ sockets = <<>> /\ DOMAIN sockets = {} /\ netSent = <<>> /\ netPings = 0
      /\ DOMAIN netReceived = {} /\ DOMAIN netPeers = Nodes /\ \A n \in Nodes : DOMAIN netPeers[n] = {}
  BY DEF TheNetwork!Init, TheNetwork!Empty
<1>2. SocketsTyped /\ SendsTyped
  BY <1>1 DEF SocketsTyped, SendsTyped, NetworkConstants
<1>3. TablesName /\ TheNetwork!IncomingIsOpen
  BY <1>1 DEF TablesName, TheNetwork!IncomingIsOpen
<1>4. InFlight /\ FlightsOnce /\ ReceivedOnce
  BY <1>1 DEF InFlight, FlightsOnce, ReceivedOnce, Carries
<1> QED  BY <1>2, <1>3, <1>4 DEF NetworkInv

\* One socket is changed.
LEMMA SocketChanged ==
    ASSUME SocketsTyped, NEW k \in DOMAIN sockets, NEW g \in SocketType, sockets' = [sockets EXCEPT ![k] = g]
    PROVE  /\ sockets' \in Seq(SocketType) /\ DOMAIN sockets' = DOMAIN sockets /\ sockets'[k] = g
           /\ \A l \in DOMAIN sockets : l # k => sockets'[l] = sockets[l]
BY ExceptSeq, LenProperties DEF SocketsTyped

LEMMA SocketIs ==
    ASSUME SocketsTyped, NEW k \in DOMAIN sockets
    PROVE  /\ sockets[k] \in SocketType /\ sockets[k].from # sockets[k].to
           /\ sockets[k].from \in Nodes /\ sockets[k].to \in Nodes
           /\ sockets[k].up \in Seq(MessageType) /\ sockets[k].down \in Seq(MessageType)
<1>1. sockets[k] \in SocketType
  BY ElementOfSeq, LenProperties DEF SocketsTyped
<1> QED  BY <1>1 DEF SocketsTyped, SocketType

\* What is on its way stays so in the next state, or less of it, from the front.
Shrunk(k) ==
    /\ sockets'[k].from = sockets[k].from /\ sockets'[k].to = sockets[k].to
    /\ \E s \in {0, 1} : \A i \in DOMAIN sockets'[k].up :
          i \in Nat /\ i + s \in DOMAIN sockets[k].up /\ sockets'[k].up[i] = sockets[k].up[i + s]

LEMMA UpIsShrunk ==
    ASSUME SocketsTyped, NEW k \in DOMAIN sockets,
           sockets'[k].from = sockets[k].from, sockets'[k].to = sockets[k].to,
           \/ sockets'[k].up = sockets[k].up
           \/ sockets[k].up # <<>> /\ sockets'[k].up = Tail(sockets[k].up)
           \/ sockets'[k].up = <<>>
    PROVE  Shrunk(k)
<1> DEFINE u == sockets[k].up
           v == sockets'[k].up
<1>1. u \in Seq(MessageType) /\ DOMAIN u = 1..Len(u) /\ Len(u) \in Nat
  BY SocketIs, LenProperties
<1>2. CASE v = u
  <2>1. \A i \in DOMAIN v : i \in Nat /\ i + 0 \in DOMAIN u /\ v[i] = u[i + 0]
    BY <1>1, <1>2
  <2> QED  BY <2>1 DEF Shrunk
<1>3. CASE u # <<>> /\ v = Tail(u)
  <2> HIDE DEF u, v
  <2>1. DOMAIN v = 1..(Len(u) - 1) /\ \A i \in 1..(Len(u) - 1) : v[i] = u[i + 1]
    BY <1>1, <1>3, HeadTailProperties, LenProperties
  <2>2. \A i \in DOMAIN v : i \in Nat /\ i + 1 \in DOMAIN u /\ v[i] = u[i + 1]
    BY <1>1, <2>1
  <2> QED  BY <2>2 DEF Shrunk, u, v
<1>4. CASE v = <<>>
  <2>1. \A i \in DOMAIN v : i \in Nat /\ i + 0 \in DOMAIN u /\ v[i] = u[i + 0]
    BY <1>4
  <2> QED  BY <2>1 DEF Shrunk
<1> QED  BY <1>2, <1>3, <1>4

LEMMA FlightShrinks ==
    ASSUME NetworkInv, DOMAIN sockets' = DOMAIN sockets, \A k \in DOMAIN sockets : Shrunk(k), netSent' = netSent,
           NEW D, DOMAIN netReceived' \subseteq DOMAIN netReceived \cup D,
           \A k, i : Carries(sockets', k, i) => Delivery(sockets', k, i) \notin D
    PROVE  InFlight' /\ FlightsOnce'
<1>0. InFlight /\ FlightsOnce
  BY DEF NetworkInv
<1>1. ASSUME NEW k \in DOMAIN sockets
      PROVE \E s \in {0, 1} : \A i \in DOMAIN sockets'[k].up :
                /\ i \in Nat /\ i + s \in DOMAIN sockets[k].up /\ sockets'[k].up[i] = sockets[k].up[i + s]
                /\ (Carries(sockets', k, i) <=> Carries(sockets, k, i + s)) /\ Delivery(sockets', k, i) = Delivery(sockets, k, i + s)
  <2>1. PICK s \in {0, 1} : \A i \in DOMAIN sockets'[k].up :
                i \in Nat /\ i + s \in DOMAIN sockets[k].up /\ sockets'[k].up[i] = sockets[k].up[i + s]
    BY DEF Shrunk
  <2>2. sockets'[k].to = sockets[k].to
    BY DEF Shrunk
  <2>3. ASSUME NEW i \in DOMAIN sockets'[k].up
        PROVE (Carries(sockets', k, i) <=> Carries(sockets, k, i + s)) /\ Delivery(sockets', k, i) = Delivery(sockets, k, i + s)
    BY <2>1, <2>2 DEF Carries, Delivery
  <2> QED  BY <2>1, <2>3
<1>2. InFlight'
  <2>1. ASSUME NEW k \in DOMAIN sockets', NEW i \in DOMAIN sockets'[k].up PROVE sockets'[k].up[i].type \in {"ping", "transaction"}
    BY <1>0, <1>1 DEF InFlight
  <2>2. ASSUME NEW k, NEW i, Carries(sockets', k, i)
        PROVE  /\ sockets'[k].up[i].tx \in DOMAIN netSent' /\ netSent'[sockets'[k].up[i].tx] = sockets'[k].from
               /\ Delivery(sockets', k, i) \notin DOMAIN netReceived'
    <3>1. k \in DOMAIN sockets /\ i \in DOMAIN sockets'[k].up
      BY <2>2 DEF Carries
    <3>2. PICK s \in {0, 1} : /\ i + s \in DOMAIN sockets[k].up /\ sockets'[k].up[i] = sockets[k].up[i + s]
                              /\ Carries(sockets, k, i + s) /\ Delivery(sockets', k, i) = Delivery(sockets, k, i + s)
      BY <1>1, <2>2, <3>1
    <3>3. sockets'[k].from = sockets[k].from
      BY <3>1 DEF Shrunk
    <3>4. /\ sockets[k].up[i + s].tx \in DOMAIN netSent /\ netSent[sockets[k].up[i + s].tx] = sockets[k].from
          /\ Delivery(sockets, k, i + s) \notin DOMAIN netReceived
      BY <1>0, <3>2 DEF InFlight
    <3> QED  BY <2>2, <3>2, <3>3, <3>4
  <2>3. \A k, i : Carries(sockets, k, i)' <=> Carries(sockets', k, i)
    BY DEF Carries
  <2>4. \A k, i : Delivery(sockets, k, i)' = Delivery(sockets', k, i)
    BY DEF Delivery
  <2> QED  BY <2>1, <2>2, <2>3, <2>4 DEF InFlight
<1>3. FlightsOnce'
  <2> SUFFICES ASSUME NEW k, NEW i, NEW l, NEW j, Carries(sockets', k, i), Carries(sockets', l, j),
                      Delivery(sockets', k, i) = Delivery(sockets', l, j)
               PROVE  k = l /\ i = j
    BY DEF FlightsOnce, Carries, Delivery
  <2>1. k \in DOMAIN sockets /\ l \in DOMAIN sockets /\ i \in DOMAIN sockets'[k].up /\ j \in DOMAIN sockets'[l].up
    BY DEF Carries
  <2>2. PICK s \in {0, 1} : \A n \in DOMAIN sockets'[k].up :
            n \in Nat /\ (Carries(sockets', k, n) <=> Carries(sockets, k, n + s)) /\ Delivery(sockets', k, n) = Delivery(sockets, k, n + s)
    BY <1>1, <2>1
  <2>3. PICK r \in {0, 1} : \A n \in DOMAIN sockets'[l].up :
            n \in Nat /\ (Carries(sockets', l, n) <=> Carries(sockets, l, n + r)) /\ Delivery(sockets', l, n) = Delivery(sockets, l, n + r)
    BY <1>1, <2>1
  <2>4. k = l /\ i + s = j + r
    BY <1>0, <2>1, <2>2, <2>3 DEF FlightsOnce
  <2>5. j + s = i + s => k = l /\ i = j
    BY <2>1, <2>2, <2>3, <2>4
  <2>6. Carries(sockets, k, j + s) /\ Delivery(sockets, k, j + s) = Delivery(sockets, k, i + s) /\ Carries(sockets, k, i + s)
    BY <2>1, <2>2, <2>4
  <2>7. j + s = i + s
    BY <1>0, <2>6 DEF FlightsOnce
  <2> QED  BY <2>5, <2>7
<1> QED  BY <1>2, <1>3

\* The tables, when sockets keep their ends and one node's table is changed.
LEMMA TablesChange ==
    ASSUME NetworkInv, DOMAIN sockets \subseteq DOMAIN sockets',
           \A k \in DOMAIN sockets : sockets'[k].from = sockets[k].from /\ sockets'[k].to = sockets[k].to,
           NEW n \in Nodes, DOMAIN netPeers' = Nodes, \A m \in Nodes : m # n => netPeers'[m] = netPeers[m],
           \A id \in DOMAIN netPeers'[n] :
               \/ id \in DOMAIN netPeers[n] /\ netPeers'[n][id] = netPeers[n][id]
               \/ netPeers'[n][id] \in EntryType /\ EntryOf(n, id, netPeers'[n][id], sockets)
    PROVE  TablesName'
<1>0. TablesName
  BY DEF NetworkInv
<1>1. EntryType \subseteq EntryType'
  BY DEF EntryType
<1>2. \A e \in EntryType : e.socket \in DOMAIN sockets
  BY DEF EntryType
<1>3. ASSUME NEW m \in Nodes, NEW id \in DOMAIN netPeers'[m]
      PROVE  netPeers'[m][id] \in EntryType /\ EntryOf(m, id, netPeers'[m][id], sockets)
  BY <1>0, <1>3 DEF TablesName
<1>4. \A m, id : \A e \in EntryType : EntryOf(m, id, e, sockets) => EntryOf(m, id, e, sockets')
  BY <1>2 DEF EntryOf
<1>5. ASSUME NEW m \in Nodes, NEW id \in DOMAIN netPeers'[m]
      PROVE  netPeers'[m][id] \in EntryType' /\ EntryOf(m, id, netPeers'[m][id], sockets')
  BY <1>1, <1>3, <1>4
<1> QED  BY <1>5 DEF TablesName, EntryOf, TheNetwork!Dialled, TheNetwork!DialledFrom

\* The tables and the sockets open at the end that listens, when no such end and no
\* such entry changes.
LEMMA IncomingSame ==
    ASSUME NetworkInv, DOMAIN sockets' = DOMAIN sockets, DOMAIN netPeers' = Nodes,
           \A k \in DOMAIN sockets : sockets'[k].to = sockets[k].to /\ (sockets'[k].server = "OPEN" <=> sockets[k].server = "OPEN"),
           \A m \in Nodes : \A k \in DOMAIN sockets : TheNetwork!DialledFrom(k) \in DOMAIN netPeers'[m] <=> TheNetwork!DialledFrom(k) \in DOMAIN netPeers[m]
    PROVE  TheNetwork!IncomingIsOpen'
<1>1. \A m \in Nodes : \A k \in DOMAIN sockets :
         TheNetwork!DialledFrom(k) \in DOMAIN netPeers[m] <=> sockets[k].to = m /\ sockets[k].server = "OPEN"
  BY DEF NetworkInv, TheNetwork!IncomingIsOpen
<1>2. \A m \in Nodes : \A k \in DOMAIN sockets' :
         TheNetwork!DialledFrom(k) \in DOMAIN netPeers'[m] <=> sockets'[k].to = m /\ sockets'[k].server = "OPEN"
  BY <1>1
<1>3. \A k : TheNetwork!DialledFrom(k)' = TheNetwork!DialledFrom(k)
  BY DEF TheNetwork!DialledFrom
<1> QED  BY <1>2, <1>3 DEF TheNetwork!IncomingIsOpen, TheNetwork!DialledFrom

\* What was received, when nothing is and no socket is forgotten.
LEMMA ReceivedSame ==
    ASSUME NetworkInv, DOMAIN sockets \subseteq DOMAIN sockets', netReceived' = netReceived,
           \A k \in DOMAIN sockets : sockets'[k].from = sockets[k].from /\ sockets'[k].to = sockets[k].to,
           DOMAIN netSent \subseteq DOMAIN netSent', \A t \in DOMAIN netSent : netSent'[t] = netSent[t]
    PROVE  ReceivedOnce'
<1> SUFFICES ASSUME NEW d \in DOMAIN netReceived
             PROVE  /\ d \in [node : Nodes, tx : DOMAIN netSent'] /\ netReceived[d] = 1
                    /\ \E k \in DOMAIN sockets' : sockets'[k].from = netSent'[d.tx] /\ sockets'[k].to = d.node
  BY DEF ReceivedOnce
<1>1. d \in [node : Nodes, tx : DOMAIN netSent] /\ netReceived[d] = 1
  BY DEF NetworkInv, ReceivedOnce
<1>2. PICK k \in DOMAIN sockets : sockets[k].from = netSent[d.tx] /\ sockets[k].to = d.node
  BY DEF NetworkInv, ReceivedOnce
<1>3. d.tx \in DOMAIN netSent
  BY <1>1
<1>4. k \in DOMAIN sockets' /\ sockets'[k].from = netSent'[d.tx] /\ sockets'[k].to = d.node
  BY <1>2, <1>3
<1>5. d \in [node : Nodes, tx : DOMAIN netSent']
  BY <1>1
<1> QED  BY <1>1, <1>4, <1>5

\* A socket goes on: neither end moves, no more is on its way than before, and no
\* transaction is sent or received.
LEMMA SocketGoesOn ==
    ASSUME NetworkInv, NEW k \in DOMAIN sockets, NEW g \in SocketType, sockets' = [sockets EXCEPT ![k] = g],
           g.from = sockets[k].from, g.to = sockets[k].to,
           \/ g.up = sockets[k].up
           \/ sockets[k].up # <<>> /\ g.up = Tail(sockets[k].up)
           \/ g.up = <<>>,
           UNCHANGED <<netRunning, netSent, netPings, netReceived>>
    PROVE  SocketsTyped' /\ SendsTyped' /\ InFlight' /\ FlightsOnce' /\ ReceivedOnce'
<1>0. SocketsTyped /\ SendsTyped
  BY DEF NetworkInv
<1>1. /\ sockets' \in Seq(SocketType) /\ DOMAIN sockets' = DOMAIN sockets /\ sockets'[k] = g
      /\ \A l \in DOMAIN sockets : l # k => sockets'[l] = sockets[l]
  BY <1>0, SocketChanged
<1>2. ASSUME NEW l \in DOMAIN sockets
      PROVE  Shrunk(l) /\ sockets'[l].from = sockets[l].from /\ sockets'[l].to = sockets[l].to
  <2>1. sockets'[l].from = sockets[l].from /\ sockets'[l].to = sockets[l].to
    BY <1>1
  <2>2. CASE l = k
    BY <1>0, <1>1, <2>1, <2>2, UpIsShrunk
  <2>3. CASE l # k
    BY <1>0, <1>1, <2>1, <2>3, UpIsShrunk
  <2> QED  BY <2>1, <2>2, <2>3
<1>3. SocketsTyped'
  BY <1>0, <1>1, <1>2 DEF SocketsTyped, SocketType, MessageType
<1>4. InFlight' /\ FlightsOnce'
  <2>1. DOMAIN netReceived' \subseteq DOMAIN netReceived \cup {} /\ netSent' = netSent
    OBVIOUS
  <2>2. \A j, i : Carries(sockets', j, i) => Delivery(sockets', j, i) \notin {}
    OBVIOUS
  <2>3. \A l \in DOMAIN sockets : Shrunk(l)
    BY <1>2
  <2> DEFINE D == {}
  <2> HIDE DEF D
  <2>4. DOMAIN netReceived' \subseteq DOMAIN netReceived \cup D /\ \A j, i : Carries(sockets', j, i) => Delivery(sockets', j, i) \notin D
    BY <2>1, <2>2 DEF D
  <2> QED  BY <1>1, <2>1, <2>3, <2>4, FlightShrinks
<1>5. ReceivedOnce'
  BY <1>1, <1>2, ReceivedSame
<1> QED  BY <1>0, <1>3, <1>4, <1>5 DEF SendsTyped

\* A message to the peers: it is on its way up the sockets dialled that are open.
LEMMA BroadcastIs ==
    ASSUME NetworkInv, NEW n \in Nodes, NEW message \in MessageType, TheNetwork!Broadcast(n, message)
    PROVE  /\ sockets' \in Seq(SocketType) /\ DOMAIN sockets' = DOMAIN sockets
           /\ \A k \in DOMAIN sockets :
                 /\ sockets'[k].from = sockets[k].from /\ sockets'[k].to = sockets[k].to
                 /\ sockets'[k].client = sockets[k].client /\ sockets'[k].server = sockets[k].server
                 /\ \/ sockets'[k].up = sockets[k].up
                    \/ /\ sockets[k].from = n /\ k \in TheNetwork!PeerSockets(n)
                       /\ sockets'[k].up = Append(sockets[k].up, message)
<1>0. SocketsTyped
  BY DEF NetworkInv
<1>1. sockets' = [k \in DOMAIN sockets |->
        IF k \in TheNetwork!PeerSockets(n) /\ sockets[k][TheNetwork!End(n, k)] = "OPEN"
        THEN [sockets[k] EXCEPT ![TheNetwork!Towards(n, k)] = Append(@, message)] ELSE sockets[k]]
  BY DEF TheNetwork!Broadcast
<1>2. DOMAIN sockets' = DOMAIN sockets
  BY <1>1
<1>3. ASSUME NEW k \in DOMAIN sockets
      PROVE  /\ sockets'[k] \in SocketType
             /\ sockets'[k].from = sockets[k].from /\ sockets'[k].to = sockets[k].to
             /\ sockets'[k].client = sockets[k].client /\ sockets'[k].server = sockets[k].server
             /\ \/ sockets'[k].up = sockets[k].up
                \/ /\ sockets[k].from = n /\ k \in TheNetwork!PeerSockets(n)
                   /\ sockets'[k].up = Append(sockets[k].up, message)
  <2> DEFINE o == sockets[k]
  <2>1. o \in SocketType /\ o.up \in Seq(MessageType) /\ o.down \in Seq(MessageType)
    BY <1>0, SocketIs
  <2>2. Append(o.up, message) \in Seq(MessageType) /\ Append(o.down, message) \in Seq(MessageType)
    BY <2>1, AppendProperties
  <2>3. CASE ~(k \in TheNetwork!PeerSockets(n) /\ sockets[k][TheNetwork!End(n, k)] = "OPEN")
    <3>1. sockets'[k] = o
      BY <1>1, <2>3
    <3> QED  BY <2>1, <3>1
  <2>4. CASE k \in TheNetwork!PeerSockets(n) /\ sockets[k][TheNetwork!End(n, k)] = "OPEN" /\ o.from = n
    <3> DEFINE u == Append(o.up, message)
    <3>1. sockets'[k] = [o EXCEPT !.up = u]
      BY <1>1, <2>4 DEF TheNetwork!Towards
    <3>2. u \in Seq(MessageType)
      BY <2>2
    <3> HIDE DEF u, o
    <3>3. [o EXCEPT !.up = u] \in SocketType /\ [o EXCEPT !.up = u].up = u
          /\ [o EXCEPT !.up = u].from = o.from /\ [o EXCEPT !.up = u].to = o.to
          /\ [o EXCEPT !.up = u].client = o.client /\ [o EXCEPT !.up = u].server = o.server
      BY <2>1, <3>2 DEF SocketType
    <3> QED  BY <2>4, <3>1, <3>3 DEF u, o
  <2>5. CASE k \in TheNetwork!PeerSockets(n) /\ sockets[k][TheNetwork!End(n, k)] = "OPEN" /\ o.from # n
    <3> DEFINE u == Append(o.down, message)
    <3>1. sockets'[k] = [o EXCEPT !.down = u]
      BY <1>1, <2>5 DEF TheNetwork!Towards
    <3>2. u \in Seq(MessageType)
      BY <2>2
    <3> HIDE DEF u, o
    <3>3. [o EXCEPT !.down = u] \in SocketType /\ [o EXCEPT !.down = u].up = o.up
          /\ [o EXCEPT !.down = u].from = o.from /\ [o EXCEPT !.down = u].to = o.to
          /\ [o EXCEPT !.down = u].client = o.client /\ [o EXCEPT !.down = u].server = o.server
      BY <2>1, <3>2 DEF SocketType
    <3> QED  BY <3>1, <3>3 DEF o
  <2> QED  BY <2>3, <2>4, <2>5
<1>4. sockets' \in Seq(SocketType)
  <2>1. Len(sockets) \in Nat /\ DOMAIN sockets' = 1..Len(sockets)
    BY <1>0, <1>2, LenProperties DEF SocketsTyped
  <2>2. sockets' = [k \in 1..Len(sockets) |-> sockets'[k]]
    BY <1>1, <2>1
  <2>3. \A k \in 1..Len(sockets) : sockets'[k] \in SocketType
    BY <1>2, <1>3, <2>1
  <2> DEFINE N == Len(sockets)
  <2> HIDE DEF N
  <2>4. N \in Nat /\ sockets' = [k \in 1..N |-> sockets'[k]] /\ \A k \in 1..N : sockets'[k] \in SocketType
    BY <2>1, <2>2, <2>3 DEF N
  <2> QED  BY <2>4
<1> QED  BY <1>2, <1>3, <1>4

\* Whose entry of an address a socket is.
LEMMA DialledSocket ==
    ASSUME NetworkInv, NEW n \in Nodes, NEW k \in TheNetwork!PeerSockets(n), k \in DOMAIN sockets, sockets[k].from = n
    PROVE  TheNetwork!Dialled(sockets[k].to) \in DOMAIN netPeers[n] /\ netPeers[n][TheNetwork!Dialled(sockets[k].to)].socket = k
<1>1. PICK id \in DOMAIN netPeers[n] : netPeers[n][id].socket = k
  BY DEF TheNetwork!PeerSockets
<1>2. EntryOf(n, id, netPeers[n][id], sockets)
  BY DEF NetworkInv, TablesName
<1>3. sockets[k].to # n
  BY DEF NetworkInv, SocketsTyped
<1> QED  BY <1>1, <1>2, <1>3 DEF EntryOf

\* A broadcast sends no transaction, or one that is new.
LEMMA BroadcastFlies ==
    ASSUME NetworkInv, NEW n \in Nodes, NEW message \in MessageType, TheNetwork!Broadcast(n, message), netReceived' = netReceived,
           \/ message.type = "ping" /\ netSent' = netSent
           \/ message.type = "transaction" /\ message.tx = Len(netSent) + 1 /\ netSent' = Append(netSent, n)
    PROVE  InFlight' /\ FlightsOnce' /\ DOMAIN netSent \subseteq DOMAIN netSent' /\ \A t \in DOMAIN netSent : netSent'[t] = netSent[t]
<1>0. InFlight /\ FlightsOnce /\ SocketsTyped /\ ReceivedOnce /\ SendsTyped
  BY DEF NetworkInv
<1> DEFINE B(k) == /\ sockets[k].from = n /\ k \in TheNetwork!PeerSockets(n)
                   /\ sockets'[k].up = Append(sockets[k].up, message)
<1>1. /\ DOMAIN sockets' = DOMAIN sockets
      /\ \A k \in DOMAIN sockets :
            /\ sockets'[k].from = sockets[k].from /\ sockets'[k].to = sockets[k].to
            /\ (sockets'[k].up = sockets[k].up \/ B(k))
  BY BroadcastIs
<1>2. /\ Len(netSent) \in Nat /\ DOMAIN netSent = 1..Len(netSent) /\ netSent \in Seq(Nodes)
      /\ \A t \in DOMAIN netSent : t \in Nat /\ t # Len(netSent) + 1
  BY <1>0, LenProperties DEF SendsTyped
<1>3. /\ DOMAIN netSent \subseteq DOMAIN netSent' /\ \A t \in DOMAIN netSent : netSent'[t] = netSent[t]
      /\ message.type = "transaction" => message.tx \in DOMAIN netSent' /\ netSent'[message.tx] = n
  <2>1. CASE netSent' = netSent /\ message.type = "ping"
    BY <2>1
  <2>2. CASE message.tx = Len(netSent) + 1 /\ netSent' = Append(netSent, n)
    <3>1. DOMAIN netSent' = 1..(Len(netSent) + 1) /\ netSent'[Len(netSent) + 1] = n /\ \A t \in 1..Len(netSent) : netSent'[t] = netSent[t]
      <4> DEFINE a == Append(netSent, n)
                 N == Len(netSent)
      <4>1. N \in Nat /\ a \in Seq(Nodes) /\ Len(a) = N + 1 /\ a[N + 1] = n /\ \A t \in 1..N : a[t] = netSent[t]
        BY <1>2, AppendProperties
      <4>2. DOMAIN a = 1..(N + 1)
        BY <4>1, LenProperties
      <4> QED  BY <2>2, <4>1, <4>2
    <3> DEFINE N == Len(netSent)
    <3>2. N \in Nat /\ N + 1 \in 1..(N + 1) /\ 1..N \subseteq 1..(N + 1)
      BY <1>2
    <3> QED  BY <1>2, <2>2, <3>1, <3>2
  <2> QED  BY <2>1, <2>2
\* Where a message of the next state comes from.
<1>4. ASSUME NEW k \in DOMAIN sockets, NEW i \in DOMAIN sockets'[k].up
      PROVE  \/ i \in DOMAIN sockets[k].up /\ sockets'[k].up[i] = sockets[k].up[i]
             \/ B(k) /\ i = Len(sockets[k].up) + 1 /\ sockets'[k].up[i] = message
  <2> DEFINE u == sockets[k].up
  <2>1. u \in Seq(MessageType) /\ Len(u) \in Nat /\ DOMAIN u = 1..Len(u)
    BY <1>0, SocketIs, LenProperties
  <2>2. CASE sockets'[k].up = u
    BY <2>2
  <2>3. CASE B(k)
    <3>1. sockets'[k].up = Append(u, message)
      BY <2>3
    <3> HIDE DEF u
    <3>2. DOMAIN Append(u, message) = 1..(Len(u) + 1) /\ Append(u, message)[Len(u) + 1] = message
          /\ \A j \in 1..Len(u) : Append(u, message)[j] = u[j]
      BY <2>1, AppendProperties, LenProperties
    <3>3. i \in 1..Len(u) \/ i = Len(u) + 1
      BY <2>1, <3>1, <3>2
    <3> QED  BY <2>1, <2>3, <3>1, <3>2, <3>3 DEF u
  <2> QED  BY <1>1, <2>2, <2>3
<1> HIDE DEF B
<1>5. ASSUME NEW k, NEW i, Carries(sockets', k, i)
      PROVE  \/ Carries(sockets, k, i) /\ Delivery(sockets', k, i) = Delivery(sockets, k, i) /\ sockets'[k].up[i] = sockets[k].up[i]
             \/ /\ B(k) /\ i = Len(sockets[k].up) + 1 /\ sockets'[k].up[i] = message /\ message.type = "transaction"
                /\ Delivery(sockets', k, i) = [node |-> sockets[k].to, tx |-> message.tx]
  <2>1. k \in DOMAIN sockets /\ i \in DOMAIN sockets'[k].up /\ sockets'[k].up[i].type = "transaction"
    BY <1>1, <1>5 DEF Carries
  <2>2. sockets'[k].to = sockets[k].to
    BY <1>1, <2>1
  <2> QED  BY <1>4, <2>1, <2>2 DEF Carries, Delivery
<1>6. \A k \in DOMAIN sockets : B(k) => sockets[k].from = n /\ k \in TheNetwork!PeerSockets(n)
  BY DEF B
<1>7. ASSUME NEW k, NEW i, Carries(sockets, k, i)
      PROVE  sockets[k].up[i].tx \in DOMAIN netSent /\ Delivery(sockets, k, i).tx = sockets[k].up[i].tx
  BY <1>0, <1>7 DEF InFlight, Delivery
<1>8. ASSUME message.type = "transaction" PROVE message.tx \notin DOMAIN netSent
  BY <1>2, <1>8
<1>9. InFlight'
  <2>1. ASSUME NEW k \in DOMAIN sockets', NEW i \in DOMAIN sockets'[k].up PROVE sockets'[k].up[i].type \in {"ping", "transaction"}
    BY <1>0, <1>1, <1>4 DEF InFlight
  <2>2. ASSUME NEW k, NEW i, Carries(sockets', k, i)
        PROVE  /\ sockets'[k].up[i].tx \in DOMAIN netSent' /\ netSent'[sockets'[k].up[i].tx] = sockets'[k].from
               /\ Delivery(sockets', k, i) \notin DOMAIN netReceived
    <3>0. k \in DOMAIN sockets
      BY <1>1, <2>2 DEF Carries
    <3>1. CASE Carries(sockets, k, i) /\ Delivery(sockets', k, i) = Delivery(sockets, k, i) /\ sockets'[k].up[i] = sockets[k].up[i]
      BY <1>0, <1>1, <1>3, <3>0, <3>1 DEF InFlight
    <3>2. CASE /\ B(k) /\ i = Len(sockets[k].up) + 1 /\ sockets'[k].up[i] = message /\ message.type = "transaction"
               /\ Delivery(sockets', k, i) = [node |-> sockets[k].to, tx |-> message.tx]
      <4>1. \A d \in DOMAIN netReceived : d.tx \in DOMAIN netSent
        BY <1>0 DEF ReceivedOnce
      <4>2. Delivery(sockets', k, i) \notin DOMAIN netReceived
        BY <1>8, <3>2, <4>1
      <4> QED  BY <1>1, <1>3, <1>6, <3>0, <3>2, <4>2
    <3> QED  BY <1>5, <2>2, <3>1, <3>2
  <2>3. \A k, i : Carries(sockets, k, i)' <=> Carries(sockets', k, i)
    BY DEF Carries
  <2>4. \A k, i : Delivery(sockets, k, i)' = Delivery(sockets', k, i)
    BY DEF Delivery
  <2> QED  BY <2>1, <2>2, <2>3, <2>4 DEF InFlight
<1>10. FlightsOnce'
  <2> SUFFICES ASSUME NEW k, NEW i, NEW l, NEW j, Carries(sockets', k, i), Carries(sockets', l, j),
                      Delivery(sockets', k, i) = Delivery(sockets', l, j)
               PROVE  k = l /\ i = j
    BY DEF FlightsOnce, Carries, Delivery
  <2> DEFINE Old(a, b) == Carries(sockets, a, b) /\ Delivery(sockets', a, b) = Delivery(sockets, a, b)
             New(a, b) == /\ B(a) /\ b = Len(sockets[a].up) + 1 /\ message.type = "transaction"
                          /\ Delivery(sockets', a, b) = [node |-> sockets[a].to, tx |-> message.tx]
  <2>1. Old(k, i) \/ New(k, i)
    BY <1>5
  <2>2. Old(l, j) \/ New(l, j)
    BY <1>5
  <2>3. \A a, b, c, d : Old(a, b) /\ New(c, d) => Delivery(sockets', a, b) # Delivery(sockets', c, d)
    <3> SUFFICES ASSUME NEW a, NEW b, NEW c, NEW d, Old(a, b), New(c, d) PROVE Delivery(sockets', a, b) # Delivery(sockets', c, d)
      OBVIOUS
    <3>1. Delivery(sockets', a, b).tx \in DOMAIN netSent
      BY <1>7
    <3>2. Delivery(sockets', c, d).tx = message.tx /\ message.type = "transaction"
      OBVIOUS
    <3> QED  BY <1>8, <3>1, <3>2
  <2>4. CASE Old(k, i) /\ Old(l, j)
    BY <1>0, <2>4 DEF FlightsOnce
  <2>5. CASE New(k, i) /\ New(l, j)
    <3>0. k \in DOMAIN sockets /\ l \in DOMAIN sockets
      BY <1>1 DEF Carries
    <3>1. sockets[k].to = sockets[l].to
      BY <2>5
    <3>2. /\ sockets[k].from = n /\ k \in TheNetwork!PeerSockets(n) /\ sockets[l].from = n /\ l \in TheNetwork!PeerSockets(n)
      BY <1>6, <2>5, <3>0
    <3>3. k = l
      BY <3>0, <3>1, <3>2, DialledSocket
    <3> QED  BY <2>5, <3>3
  <2> QED  BY <2>1, <2>2, <2>3, <2>4, <2>5
<1> QED  BY <1>3, <1>9, <1>10

\* A broadcast, of a ping or of a transaction.
LEMMA BroadcastStep ==
    ASSUME NetworkConstants, NetworkInv, NEW n \in Nodes, NEW message \in MessageType, TheNetwork!Broadcast(n, message),
           UNCHANGED <<netRunning, netPeers, netReceived>>, netPings' \in 0..MaxBroadcasts,
           \/ message.type = "ping" /\ netSent' = netSent
           \/ message.type = "transaction" /\ message.tx = Len(netSent) + 1 /\ netSent' = Append(netSent, n)
    PROVE  NetworkInv'
<1>0. SocketsTyped /\ SendsTyped /\ TablesName
  BY DEF NetworkInv
<1>1. /\ sockets' \in Seq(SocketType) /\ DOMAIN sockets' = DOMAIN sockets
      /\ \A k \in DOMAIN sockets :
            /\ sockets'[k].from = sockets[k].from /\ sockets'[k].to = sockets[k].to
            /\ sockets'[k].client = sockets[k].client /\ sockets'[k].server = sockets[k].server
  BY BroadcastIs
<1>2. InFlight' /\ FlightsOnce' /\ DOMAIN netSent \subseteq DOMAIN netSent' /\ \A t \in DOMAIN netSent : netSent'[t] = netSent[t]
  BY BroadcastFlies
<1>3. SocketsTyped'
  BY <1>0, <1>1 DEF SocketsTyped, SocketType, MessageType
<1>4. netSent' \in Seq(Nodes)
  BY <1>0, AppendProperties DEF SendsTyped
<1>5. SendsTyped'
  BY <1>0, <1>4 DEF SendsTyped
<1>6. TablesName'
  BY <1>0, <1>1, TablesChange DEF TablesName
<1>7. TheNetwork!IncomingIsOpen'
  BY <1>0, <1>1, IncomingSame DEF TablesName
<1>8. ReceivedOnce'
  BY <1>1, <1>2, ReceivedSame
<1> QED  BY <1>2, <1>3, <1>5, <1>6, <1>7, <1>8 DEF NetworkInv

\* A call of connectToPeer.
LEMMA ConnectStep ==
    ASSUME NetworkConstants, NetworkInv, NEW n \in Nodes, NEW m \in Nodes \ {n}, TheNetwork!ConnectToPeer(n, m)
    PROVE  NetworkInv'
<1>0. SocketsTyped /\ SendsTyped /\ TablesName /\ TheNetwork!IncomingIsOpen /\ InFlight /\ FlightsOnce
  BY DEF NetworkInv
<1> DEFINE g == [from |-> n, to |-> m, client |-> "CONNECTING", server |-> "NONE", up |-> <<>>, down |-> <<>>]
           N == Len(sockets)
<1>1. sockets' = Append(sockets, g) /\ UNCHANGED <<netRunning, netPeers, netSent, netPings, netReceived>>
  BY DEF TheNetwork!ConnectToPeer
<1>2. g \in SocketType /\ g.from # g.to /\ g.up = <<>> /\ g.server # "OPEN"
  <2>1. <<>> \in Seq(MessageType)
    OBVIOUS
  <2> QED  BY <2>1 DEF SocketType
<1> HIDE DEF g
<1>3. /\ N \in Nat /\ DOMAIN sockets = 1..N /\ sockets' \in Seq(SocketType) /\ DOMAIN sockets' = 1..(N + 1)
      /\ sockets'[N + 1] = g /\ \A k \in 1..N : sockets'[k] = sockets[k]
  <2>1. sockets \in Seq(SocketType) /\ N \in Nat /\ DOMAIN sockets = 1..N
    BY <1>0, LenProperties DEF SocketsTyped
  <2> DEFINE a == Append(sockets, g)
  <2>2. a \in Seq(SocketType) /\ Len(a) = N + 1 /\ a[N + 1] = g /\ \A k \in 1..N : a[k] = sockets[k]
    BY <1>2, <2>1, AppendProperties
  <2>3. DOMAIN a = 1..(N + 1)
    BY <2>2, LenProperties
  <2> QED  BY <1>1, <2>1, <2>2, <2>3
<1> HIDE DEF N
<1>4. /\ \A k \in DOMAIN sockets' : k \in DOMAIN sockets \/ k = N + 1
      /\ N + 1 \notin DOMAIN sockets /\ DOMAIN sockets \subseteq DOMAIN sockets'
  BY <1>3
<1>5. \A k \in DOMAIN sockets : sockets'[k] = sockets[k]
  BY <1>3
<1>6. SocketsTyped'
  <2>1. ASSUME NEW k \in DOMAIN sockets' PROVE sockets'[k].from # sockets'[k].to
    <3>1. CASE k \in DOMAIN sockets
      BY <1>0, <1>5, <3>1 DEF SocketsTyped
    <3>2. CASE k = N + 1
      BY <1>2, <1>3, <3>2
    <3> QED  BY <1>4, <2>1, <3>1, <3>2
  <2>2. sockets' \in Seq(SocketType)'
    BY <1>3 DEF SocketType, MessageType
  <2> QED  BY <2>1, <2>2 DEF SocketsTyped
<1>7. TablesName'
  BY <1>0, <1>1, <1>4, <1>5, TablesChange DEF TablesName
<1>8. \A x \in Nodes : TheNetwork!DialledFrom(N + 1) \notin DOMAIN netPeers[x]
  <2> SUFFICES ASSUME NEW x \in Nodes, TheNetwork!DialledFrom(N + 1) \in DOMAIN netPeers[x] PROVE FALSE
    OBVIOUS
  <2> DEFINE e == netPeers[x][TheNetwork!DialledFrom(N + 1)]
  <2>1. e.socket \in DOMAIN sockets
    BY <1>0 DEF TablesName, EntryType
  <2>2. EntryOf(x, TheNetwork!DialledFrom(N + 1), e, sockets)
    BY <1>0 DEF TablesName
  <2> HIDE DEF e
  <2>3. e.socket = N + 1
    BY <2>2 DEF EntryOf, TheNetwork!DialledFrom, TheNetwork!Dialled
  <2> QED  BY <1>4, <2>1, <2>3
<1>9. TheNetwork!IncomingIsOpen'
  <2>1. \A x \in Nodes : \A k \in DOMAIN sockets :
           TheNetwork!DialledFrom(k) \in DOMAIN netPeers[x] <=> sockets[k].to = x /\ sockets[k].server = "OPEN"
    BY <1>0 DEF TheNetwork!IncomingIsOpen
  <2>2. \A x \in Nodes : \A k \in DOMAIN sockets' :
           TheNetwork!DialledFrom(k) \in DOMAIN netPeers'[x] <=> sockets'[k].to = x /\ sockets'[k].server = "OPEN"
    BY <1>1, <1>2, <1>3, <1>4, <1>5, <1>8, <2>1
  <2> QED  BY <2>2 DEF TheNetwork!IncomingIsOpen, TheNetwork!DialledFrom
<1>10. \A k, i : /\ Carries(sockets', k, i) <=> Carries(sockets, k, i)
                 /\ Carries(sockets, k, i) => Delivery(sockets', k, i) = Delivery(sockets, k, i) /\ sockets'[k] = sockets[k]
  <2>1. \A i : ~Carries(sockets', N + 1, i)
    BY <1>2, <1>3 DEF Carries
  <2> QED  BY <1>4, <1>5, <2>1 DEF Carries, Delivery
<1>11. InFlight'
  <2>1. ASSUME NEW k \in DOMAIN sockets', NEW i \in DOMAIN sockets'[k].up PROVE sockets'[k].up[i].type \in {"ping", "transaction"}
    BY <1>0, <1>2, <1>3, <1>4, <1>5 DEF InFlight
  <2>2. ASSUME NEW k, NEW i, Carries(sockets', k, i)
        PROVE  /\ sockets'[k].up[i].tx \in DOMAIN netSent' /\ netSent'[sockets'[k].up[i].tx] = sockets'[k].from
               /\ Delivery(sockets', k, i) \notin DOMAIN netReceived'
    BY <1>0, <1>1, <1>10, <2>2 DEF InFlight
  <2>3. \A k, i : Carries(sockets, k, i)' <=> Carries(sockets', k, i)
    BY DEF Carries
  <2>4. \A k, i : Delivery(sockets, k, i)' = Delivery(sockets', k, i)
    BY DEF Delivery
  <2> QED  BY <2>1, <2>2, <2>3, <2>4 DEF InFlight
<1>12. FlightsOnce'
  <2> SUFFICES ASSUME NEW k, NEW i, NEW l, NEW j, Carries(sockets', k, i), Carries(sockets', l, j),
                      Delivery(sockets', k, i) = Delivery(sockets', l, j)
               PROVE  k = l /\ i = j
    BY DEF FlightsOnce, Carries, Delivery
  <2> QED  BY <1>0, <1>10 DEF FlightsOnce
<1>13. ReceivedOnce'
  BY <1>1, <1>4, <1>5, ReceivedSame
<1>14. SendsTyped'
  BY <1>0, <1>1 DEF SendsTyped
<1> QED  BY <1>6, <1>7, <1>9, <1>11, <1>12, <1>13, <1>14 DEF NetworkInv

\* A message is read at the end that listens.
LEMMA HandleStep ==
    ASSUME NetworkConstants, NetworkInv, NEW k \in DOMAIN sockets, TheNetwork!HandleMessage(k)
    PROVE  NetworkInv'
<1>0. SocketsTyped /\ SendsTyped /\ TablesName /\ TheNetwork!IncomingIsOpen /\ InFlight /\ FlightsOnce /\ ReceivedOnce
  BY DEF NetworkInv
<1> DEFINE o == sockets[k]
           n == o.to
           message == Head(o.up)
           known == TheNetwork!DialledFrom(k) \in DOMAIN netPeers[n]
           d == [node |-> n, tx |-> message.tx]
<1>1. /\ o \in SocketType /\ o.from # o.to /\ n \in Nodes /\ o.up \in Seq(MessageType) /\ o.down \in Seq(MessageType)
  BY <1>0, SocketIs
<1>2. o.up # <<>> /\ UNCHANGED <<netRunning, netSent, netPings>>
  BY DEF TheNetwork!HandleMessage
<1>3. 1 \in DOMAIN o.up /\ message = o.up[1] /\ message \in MessageType
  BY <1>1, <1>2, EmptySeq, HeadTailProperties, LenProperties
<1>4. message.type \in {"ping", "transaction"}
  BY <1>0, <1>3 DEF InFlight
<1>5. netPeers' = netPeers
  BY <1>4 DEF TheNetwork!HandleMessage
<1>6. PICK g \in SocketType : /\ sockets' = [sockets EXCEPT ![k] = g] /\ g.from = o.from /\ g.to = o.to
                              /\ g.client = o.client /\ g.server = o.server /\ g.up = Tail(o.up)
  <2> DEFINE t == Tail(o.up)
             r == [o EXCEPT !.up = t]
             a == Append(o.down, TheNetwork!Message("pong", 0))
             p == [r EXCEPT !.down = a]
  <2>1. t \in Seq(MessageType)
    BY <1>1, <1>2, HeadTailProperties
  <2>2. TheNetwork!Message("pong", 0) \in MessageType
    BY DEF TheNetwork!Message, MessageType
  <2>3. a \in Seq(MessageType)
    BY <1>1, <2>2, AppendProperties
  <2>4. sockets' = [sockets EXCEPT ![k] = r] \/ sockets' = [sockets EXCEPT ![k] = p]
    <3> DEFINE read == [sockets EXCEPT ![k].up = Tail(@)]
    <3>1. sockets' = IF message.type = "ping" /\ known /\ o.server = "OPEN"
                     THEN [read EXCEPT ![k].down = Append(@, TheNetwork!Message("pong", 0))] ELSE read
      BY DEF TheNetwork!HandleMessage
    <3>2. read = [sockets EXCEPT ![k] = r]
      OBVIOUS
    <3>3. r.down = o.down
      BY <1>1 DEF SocketType
    <3>4. [read EXCEPT ![k].down = Append(@, TheNetwork!Message("pong", 0))] = [sockets EXCEPT ![k] = p]
      <4>1. read[k] = r
        BY <3>2
      <4>2. [read EXCEPT ![k].down = Append(@, TheNetwork!Message("pong", 0))] = [read EXCEPT ![k] = p]
        BY <3>3, <4>1
      <4> HIDE DEF read, p, r
      <4>3. [read EXCEPT ![k] = p] = [sockets EXCEPT ![k] = p]
        BY <3>2
      <4> QED  BY <4>2, <4>3
    <3> QED  BY <3>1, <3>2, <3>4
  <2> HIDE DEF o
  <2>5. r \in SocketType /\ r.from = o.from /\ r.to = o.to /\ r.client = o.client /\ r.server = o.server /\ r.up = t
    <3> HIDE DEF t
    <3> QED  BY <1>1, <2>1 DEF SocketType
  <2> HIDE DEF r
  <2>6. p \in SocketType /\ p.from = o.from /\ p.to = o.to /\ p.client = o.client /\ p.server = o.server /\ p.up = t
    <3> HIDE DEF t, a
    <3> QED  BY <2>3, <2>5 DEF SocketType
  <2> HIDE DEF p, t
  <2>7. CASE sockets' = [sockets EXCEPT ![k] = r]
    BY <2>5, <2>7 DEF t
  <2>8. CASE sockets' = [sockets EXCEPT ![k] = p]
    BY <2>6, <2>8 DEF t
  <2> QED  BY <2>4, <2>7, <2>8
<1>7. /\ sockets' \in Seq(SocketType) /\ DOMAIN sockets' = DOMAIN sockets /\ sockets'[k] = g
      /\ \A l \in DOMAIN sockets : l # k => sockets'[l] = sockets[l]
  BY <1>0, <1>6, SocketChanged
<1>8. ASSUME NEW l \in DOMAIN sockets
      PROVE  Shrunk(l) /\ sockets'[l].from = sockets[l].from /\ sockets'[l].to = sockets[l].to /\ sockets'[l].server = sockets[l].server
  <2>1. sockets'[l].from = sockets[l].from /\ sockets'[l].to = sockets[l].to /\ sockets'[l].server = sockets[l].server
    BY <1>6, <1>7
  <2>2. CASE l = k
    BY <1>0, <1>2, <1>6, <1>7, <2>1, <2>2, UpIsShrunk
  <2>3. CASE l # k
    BY <1>0, <1>7, <2>1, <2>3, UpIsShrunk
  <2> QED  BY <2>1, <2>2, <2>3
<1>9. SocketsTyped'
  BY <1>0, <1>7, <1>8 DEF SocketsTyped, SocketType, MessageType
<1>10. TablesName'
  BY <1>0, <1>1, <1>5, <1>7, <1>8, TablesChange DEF TablesName
<1>11. TheNetwork!IncomingIsOpen'
  BY <1>0, <1>5, <1>7, <1>8, IncomingSame DEF TablesName
<1>12. SendsTyped'
  BY <1>0, <1>2 DEF SendsTyped
<1>13. CASE message.type # "transaction"
  <2>1. netReceived' = netReceived
    BY <1>13 DEF TheNetwork!HandleMessage
  <2> DEFINE D == {}
  <2>2. DOMAIN netReceived' \subseteq DOMAIN netReceived \cup D /\ \A j, i : Carries(sockets', j, i) => Delivery(sockets', j, i) \notin D
    BY <2>1
  <2> HIDE DEF D
  <2>3. InFlight' /\ FlightsOnce'
    BY <1>2, <1>7, <1>8, <2>2, FlightShrinks
  <2>4. ReceivedOnce'
    BY <1>2, <1>7, <1>8, <2>1, ReceivedSame
  <2> QED  BY <1>9, <1>10, <1>11, <1>12, <2>3, <2>4 DEF NetworkInv
<1>14. CASE message.type = "transaction"
  <2>1. Carries(sockets, k, 1) /\ Delivery(sockets, k, 1) = d
    BY <1>3, <1>14 DEF Carries, Delivery
  <2>2. message.tx \in DOMAIN netSent /\ netSent[message.tx] = o.from /\ d \notin DOMAIN netReceived
    BY <1>0, <1>3, <2>1 DEF InFlight
  <2>3. netReceived' = TheNetwork!Put(netReceived, d, 1)
    BY <1>14, <2>2 DEF TheNetwork!HandleMessage
  <2> DEFINE D == {d}
  <2>4. DOMAIN netReceived' = DOMAIN netReceived \cup D /\ netReceived'[d] = 1 /\ \A e \in DOMAIN netReceived : netReceived'[e] = netReceived[e]
    <3> HIDE DEF d
    <3> QED  BY <2>2, <2>3 DEF TheNetwork!Put
  <2>5. \A l, i : Carries(sockets', l, i) => Delivery(sockets', l, i) # d
    <3> SUFFICES ASSUME NEW l, NEW i, Carries(sockets', l, i), Delivery(sockets', l, i) = d PROVE FALSE
      OBVIOUS
    <3>1. l \in DOMAIN sockets /\ i \in DOMAIN sockets'[l].up
      BY <1>7 DEF Carries
    <3>2. CASE l # k
      <4>1. sockets'[l] = sockets[l]
        BY <1>7, <3>1, <3>2
      <4>2. Carries(sockets, l, i) /\ Delivery(sockets, l, i) = d
        BY <1>7, <4>1 DEF Carries, Delivery
      <4> QED  BY <1>0, <2>1, <3>2, <4>2 DEF FlightsOnce
    <3>3. CASE l = k
      <4> DEFINE u == o.up
                 t == Tail(u)
      <4>1. u \in Seq(MessageType) /\ Len(u) \in Nat /\ DOMAIN u = 1..Len(u) /\ u # <<>>
        BY <1>1, <1>2, LenProperties
      <4> HIDE DEF u
      <4>2. DOMAIN t = 1..(Len(u) - 1) /\ \A j \in 1..(Len(u) - 1) : t[j] = u[j + 1]
        BY <4>1, HeadTailProperties, LenProperties
      <4>3. sockets'[l].up = t /\ sockets'[l].to = o.to
        BY <1>6, <1>7, <3>3 DEF u
      <4>4. i \in 1..(Len(u) - 1) /\ i + 1 \in DOMAIN u /\ t[i] = u[i + 1] /\ i + 1 # 1
        BY <3>1, <4>1, <4>2, <4>3
      <4>5. Carries(sockets, k, i + 1) /\ Delivery(sockets, k, i + 1) = d
        BY <3>3, <4>3, <4>4 DEF Carries, Delivery, u
      <4> QED  BY <1>0, <2>1, <4>4, <4>5 DEF FlightsOnce
    <3> QED  BY <3>2, <3>3
  <2>6. DOMAIN netReceived' \subseteq DOMAIN netReceived \cup D /\ \A j, i : Carries(sockets', j, i) => Delivery(sockets', j, i) \notin D
    BY <2>4, <2>5
  <2>7. InFlight' /\ FlightsOnce'
    <3> HIDE DEF D
    <3> QED  BY <1>2, <1>7, <1>8, <2>6, FlightShrinks
  <2>8. ReceivedOnce'
    <3> SUFFICES ASSUME NEW e \in DOMAIN netReceived'
                 PROVE  /\ e \in [node : Nodes, tx : DOMAIN netSent] /\ netReceived'[e] = 1
                        /\ \E l \in DOMAIN sockets : sockets[l].from = netSent[e.tx] /\ sockets[l].to = e.node
      BY <1>2, <1>7, <1>8 DEF ReceivedOnce
    <3>1. CASE e = d
      BY <1>1, <2>2, <2>4, <3>1
    <3>2. CASE e # d
      <4>1. e \in DOMAIN netReceived /\ netReceived'[e] = netReceived[e]
        BY <2>4, <3>2
      <4> QED  BY <1>0, <4>1 DEF ReceivedOnce
    <3> QED  BY <3>1, <3>2
  <2> QED  BY <1>9, <1>10, <1>11, <1>12, <2>7, <2>8 DEF NetworkInv
<1> QED  BY <1>13, <1>14

LEMMA NetworkStep == ASSUME NetworkConstants, NetworkInv, [TheNetwork!Next]_TheNetwork!netVars PROVE NetworkInv'
<1>0. SocketsTyped /\ SendsTyped /\ TablesName /\ TheNetwork!IncomingIsOpen /\ InFlight /\ FlightsOnce /\ ReceivedOnce
  BY DEF NetworkInv
<1>1. ASSUME NEW n \in Nodes, NEW m \in Nodes \ {n}, TheNetwork!ConnectToPeer(n, m) PROVE NetworkInv'
  BY <1>1, ConnectStep
<1>2. ASSUME NEW n \in Nodes, TheNetwork!BroadcastTransaction(n) PROVE NetworkInv'
  <2> DEFINE message == TheNetwork!Message("transaction", Len(netSent) + 1)
  <2>1. Len(netSent) \in Nat
    BY <1>0, LenProperties DEF SendsTyped
  <2>2. message \in MessageType /\ message.type = "transaction" /\ message.tx = Len(netSent) + 1
    BY <2>1 DEF TheNetwork!Message, MessageType
  <2>3. /\ netSent' = Append(netSent, n) /\ TheNetwork!Broadcast(n, message) /\ UNCHANGED <<netRunning, netPeers, netPings, netReceived>>
    BY <1>2 DEF TheNetwork!BroadcastTransaction
  <2> HIDE DEF message
  <2>4. netPings' \in 0..MaxBroadcasts
    BY <1>0, <2>3 DEF SendsTyped
  <2> QED  BY <2>2, <2>3, <2>4, BroadcastStep
<1>3. ASSUME NEW n \in Nodes, TheNetwork!PingPeers(n) PROVE NetworkInv'
  <2> DEFINE message == TheNetwork!Message("ping", 0)
  <2>1. message \in MessageType /\ message.type = "ping"
    BY DEF TheNetwork!Message, MessageType
  <2>2. /\ TheNetwork!Broadcast(n, message) /\ UNCHANGED <<netRunning, netPeers, netSent, netReceived>>
        /\ Len(netSent) + netPings < MaxBroadcasts /\ netPings' = netPings + 1
    BY <1>3 DEF TheNetwork!PingPeers
  <2> HIDE DEF message
  <2>3. netPings' \in 0..MaxBroadcasts
    <3>1. Len(netSent) \in Nat
      BY <1>0, LenProperties DEF SendsTyped
    <3> QED  BY <1>0, <2>2, <3>1 DEF SendsTyped, NetworkConstants
  <2> QED  BY <2>1, <2>2, <2>3, BroadcastStep
<1>4. ASSUME NEW n \in Nodes, TheNetwork!Shutdown(n) PROVE NetworkInv'
  <2>1. /\ sockets' = [k \in DOMAIN sockets |->
              IF k \in TheNetwork!PeerSockets(n) /\ sockets[k][TheNetwork!End(n, k)] = "OPEN"
              THEN [sockets[k] EXCEPT ![TheNetwork!End(n, k)] = "CLOSING"] ELSE sockets[k]]
        /\ netPeers' = [netPeers EXCEPT ![n] = TheNetwork!Empty] /\ UNCHANGED <<netSent, netPings, netReceived>>
        /\ netRunning' = [netRunning EXCEPT ![n] = FALSE]
    BY <1>4 DEF TheNetwork!Shutdown
  <2>2. DOMAIN sockets' = DOMAIN sockets
    BY <2>1
  <2>3. ASSUME NEW k \in DOMAIN sockets
        PROVE  /\ sockets'[k] \in SocketType /\ sockets'[k].from = sockets[k].from /\ sockets'[k].to = sockets[k].to
               /\ sockets'[k].up = sockets[k].up
               /\ sockets[k].from = n \/ k \notin TheNetwork!PeerSockets(n) => sockets'[k].server = sockets[k].server
               /\ sockets[k].from # n /\ k \in TheNetwork!PeerSockets(n) => sockets'[k].server # "OPEN"
               /\ sockets'[k].server = "OPEN" => sockets[k].server = "OPEN"
    <3> DEFINE o == sockets[k]
    <3>1. o \in SocketType
      BY <1>0, SocketIs
    <3>2. CASE ~(k \in TheNetwork!PeerSockets(n) /\ sockets[k][TheNetwork!End(n, k)] = "OPEN")
      <4>1. sockets'[k] = o
        BY <2>1, <3>2
      <4>2. o.from # n /\ k \in TheNetwork!PeerSockets(n) => o.server # "OPEN"
        BY <3>2 DEF TheNetwork!End
      <4> QED  BY <3>1, <4>1, <4>2
    <3>3. CASE k \in TheNetwork!PeerSockets(n) /\ sockets[k][TheNetwork!End(n, k)] = "OPEN" /\ o.from = n
      <4>1. sockets'[k] = [o EXCEPT !.client = "CLOSING"]
        BY <2>1, <3>3 DEF TheNetwork!End
      <4> HIDE DEF o
      <4>2. /\ [o EXCEPT !.client = "CLOSING"] \in SocketType /\ [o EXCEPT !.client = "CLOSING"].server = o.server
            /\ [o EXCEPT !.client = "CLOSING"].from = o.from /\ [o EXCEPT !.client = "CLOSING"].to = o.to
            /\ [o EXCEPT !.client = "CLOSING"].up = o.up
        BY <3>1 DEF SocketType
      <4> QED  BY <3>3, <4>1, <4>2 DEF o
    <3>4. CASE k \in TheNetwork!PeerSockets(n) /\ sockets[k][TheNetwork!End(n, k)] = "OPEN" /\ o.from # n
      <4>1. sockets'[k] = [o EXCEPT !.server = "CLOSING"] /\ o.server = "OPEN"
        BY <2>1, <3>4 DEF TheNetwork!End
      <4> HIDE DEF o
      <4>2. /\ [o EXCEPT !.server = "CLOSING"] \in SocketType /\ [o EXCEPT !.server = "CLOSING"].server = "CLOSING"
            /\ [o EXCEPT !.server = "CLOSING"].from = o.from /\ [o EXCEPT !.server = "CLOSING"].to = o.to
            /\ [o EXCEPT !.server = "CLOSING"].up = o.up
        BY <3>1 DEF SocketType
      <4> QED  BY <3>4, <4>1, <4>2 DEF o
    <3> QED  BY <3>2, <3>3, <3>4
  <2>4. sockets' \in Seq(SocketType)
    <3> DEFINE N == Len(sockets)
    <3>1. N \in Nat /\ DOMAIN sockets = 1..N
      BY <1>0, LenProperties DEF SocketsTyped
    <3>2. sockets' = [k \in DOMAIN sockets |-> sockets'[k]]
      BY <2>1
    <3> HIDE DEF N
    <3>3. N \in Nat /\ sockets' = [k \in 1..N |-> sockets'[k]] /\ \A k \in 1..N : sockets'[k] \in SocketType
      BY <2>3, <3>1, <3>2
    <3> QED  BY <3>3
  <2>5. SocketsTyped'
    BY <1>0, <2>2, <2>3, <2>4 DEF SocketsTyped, SocketType, MessageType
  <2>6. SendsTyped'
    BY <1>0, <2>1 DEF SendsTyped
  <2>7. DOMAIN netPeers' = Nodes /\ DOMAIN netPeers'[n] = {} /\ \A m \in Nodes : m # n => netPeers'[m] = netPeers[m]
    BY <1>0, <2>1 DEF TablesName, TheNetwork!Empty
  <2>8. TablesName'
    BY <2>2, <2>3, <2>7, TablesChange
  <2>9. TheNetwork!IncomingIsOpen'
    <3>1. \A m \in Nodes : \A k \in DOMAIN sockets :
             TheNetwork!DialledFrom(k) \in DOMAIN netPeers[m] <=> sockets[k].to = m /\ sockets[k].server = "OPEN"
      BY <1>0 DEF TheNetwork!IncomingIsOpen
    <3>2. ASSUME NEW k \in DOMAIN sockets, k \in TheNetwork!PeerSockets(n), sockets[k].from # n PROVE sockets[k].to = n
      <4>1. PICK id \in DOMAIN netPeers[n] : netPeers[n][id].socket = k
        BY <3>2 DEF TheNetwork!PeerSockets
      <4>2. EntryOf(n, id, netPeers[n][id], sockets)
        BY <1>0 DEF TablesName
      <4> QED  BY <3>2, <4>1, <4>2 DEF EntryOf
    <3>3. ASSUME NEW k \in DOMAIN sockets, sockets[k].to = n, sockets[k].server = "OPEN" PROVE k \in TheNetwork!PeerSockets(n) /\ sockets[k].from # n
      <4>1. TheNetwork!DialledFrom(k) \in DOMAIN netPeers[n]
        BY <3>1, <3>3
      <4>2. EntryOf(n, TheNetwork!DialledFrom(k), netPeers[n][TheNetwork!DialledFrom(k)], sockets)
        BY <1>0, <4>1 DEF TablesName
      <4>3. netPeers[n][TheNetwork!DialledFrom(k)].socket = k
        BY <4>2 DEF EntryOf, TheNetwork!DialledFrom, TheNetwork!Dialled
      <4>4. sockets[k].from # sockets[k].to
        BY <1>0 DEF SocketsTyped
      <4> QED  BY <3>3, <4>1, <4>3, <4>4 DEF TheNetwork!PeerSockets
    <3>4. ASSUME NEW m \in Nodes, NEW k \in DOMAIN sockets
          PROVE  TheNetwork!DialledFrom(k) \in DOMAIN netPeers'[m] <=> sockets'[k].to = m /\ sockets'[k].server = "OPEN"
      <4>1. CASE m = n
        BY <2>3, <2>7, <3>3, <4>1
      <4>2. CASE m # n
        BY <2>3, <2>7, <3>1, <3>2, <4>2
      <4> QED  BY <4>1, <4>2
    <3> QED  BY <2>2, <3>4 DEF TheNetwork!IncomingIsOpen, TheNetwork!DialledFrom
  <2>10. \A k \in DOMAIN sockets : Shrunk(k)
    BY <1>0, <2>3, UpIsShrunk
  <2> DEFINE D == {}
  <2>11. DOMAIN netReceived' \subseteq DOMAIN netReceived \cup D /\ \A j, i : Carries(sockets', j, i) => Delivery(sockets', j, i) \notin D
    BY <2>1
  <2> HIDE DEF D
  <2>12. InFlight' /\ FlightsOnce'
    BY <2>1, <2>2, <2>10, <2>11, FlightShrinks
  <2>13. ReceivedOnce'
    BY <2>1, <2>2, <2>3, ReceivedSame
  <2> QED  BY <2>5, <2>6, <2>8, <2>9, <2>12, <2>13 DEF NetworkInv
<1>5. ASSUME NEW k \in DOMAIN sockets,
             NEW g \in SocketType, sockets' = [sockets EXCEPT ![k] = g],
             g.from = sockets[k].from, g.to = sockets[k].to, g.server = sockets[k].server,
             g.up = sockets[k].up, UNCHANGED <<netRunning, netPeers, netSent, netPings, netReceived>>
      PROVE  NetworkInv'
  <2>1. SocketsTyped' /\ SendsTyped' /\ InFlight' /\ FlightsOnce' /\ ReceivedOnce'
    BY <1>5, SocketGoesOn
  <2>2. DOMAIN sockets' = DOMAIN sockets /\ \A l \in DOMAIN sockets :
            sockets'[l].from = sockets[l].from /\ sockets'[l].to = sockets[l].to /\ sockets'[l].server = sockets[l].server
    BY <1>0, <1>5, SocketChanged
  <2>3. DOMAIN netPeers' = Nodes /\ sockets[k].to \in Nodes
    BY <1>0, <1>5, SocketIs DEF TablesName
  <2>4. TablesName'
    BY <1>5, <2>2, <2>3, TablesChange
  <2>5. TheNetwork!IncomingIsOpen'
    BY <1>5, <2>2, <2>3, IncomingSame
  <2> QED  BY <2>1, <2>4, <2>5 DEF NetworkInv
<1>6. ASSUME NEW k \in DOMAIN sockets, TheNetwork!Refused(k) \/ TheNetwork!Dropped(k) \/ TheNetwork!ClosedUnheard(k) PROVE NetworkInv'
  <2> DEFINE o == sockets[k]
             t == Tail(o.down)
             a == [o EXCEPT !.client = "CLOSED"]
             b == [o EXCEPT !.down = t]
             c == [o EXCEPT !.client = "CLOSED", !.down = <<>>]
  <2>1. o \in SocketType /\ o.down \in Seq(MessageType) /\ <<>> \in Seq(MessageType)
    BY <1>0, SocketIs
  <2>2. CASE TheNetwork!Refused(k)
    <3>1. sockets' = [sockets EXCEPT ![k] = a] /\ UNCHANGED <<netRunning, netPeers, netSent, netPings, netReceived>>
      BY <2>2 DEF TheNetwork!Refused
    <3>2. a \in SocketType /\ a.from = o.from /\ a.to = o.to /\ a.server = o.server /\ a.up = o.up
      <4> HIDE DEF o
      <4> QED  BY <2>1 DEF SocketType
    <3> HIDE DEF a
    <3> QED  BY <1>5, <3>1, <3>2
  <2>3. CASE TheNetwork!Dropped(k)
    <3>1. sockets' = [sockets EXCEPT ![k] = b] /\ o.down # <<>> /\ UNCHANGED <<netRunning, netPeers, netSent, netPings, netReceived>>
      BY <2>3 DEF TheNetwork!Dropped
    <3>2. t \in Seq(MessageType)
      BY <2>1, <3>1, HeadTailProperties
    <3>3. b \in SocketType /\ b.from = o.from /\ b.to = o.to /\ b.server = o.server /\ b.up = o.up
      <4> HIDE DEF o, t
      <4> QED  BY <2>1, <3>2 DEF SocketType
    <3> HIDE DEF b
    <3> QED  BY <1>5, <3>1, <3>3
  <2>4. CASE TheNetwork!ClosedUnheard(k)
    <3>1. sockets' = [sockets EXCEPT ![k] = c] /\ UNCHANGED <<netRunning, netPeers, netSent, netPings, netReceived>>
      BY <2>4 DEF TheNetwork!ClosedUnheard
    <3>2. c \in SocketType /\ c.from = o.from /\ c.to = o.to /\ c.server = o.server /\ c.up = o.up
      <4> HIDE DEF o
      <4> QED  BY <2>1 DEF SocketType
    <3> HIDE DEF c
    <3> QED  BY <1>5, <3>1, <3>2
  <2> QED  BY <1>6, <2>2, <2>3, <2>4
<1>7. ASSUME NEW k \in DOMAIN sockets, TheNetwork!HandleConnection(k) PROVE NetworkInv'
  <2> DEFINE o == sockets[k]
             n == o.to
             e == [socket |-> k, seen |-> FALSE]
             d == Append(o.down, TheNetwork!Message("welcome", 0))
             g == [o EXCEPT !.server = "OPEN", !.down = d]
             P == TheNetwork!Put(netPeers[n], TheNetwork!DialledFrom(k), e)
  <2>1. o \in SocketType /\ o.down \in Seq(MessageType) /\ n \in Nodes /\ o.from # n
    BY <1>0, SocketIs
  <2>2. /\ sockets' = [sockets EXCEPT ![k] = g] /\ netPeers' = [netPeers EXCEPT ![n] = P]
        /\ UNCHANGED <<netRunning, netSent, netPings, netReceived>>
    BY <1>7 DEF TheNetwork!HandleConnection
  <2>3. g \in SocketType /\ g.from = o.from /\ g.to = o.to /\ g.server = "OPEN" /\ g.up = o.up
    <3>1. TheNetwork!Message("welcome", 0) \in MessageType
      BY DEF TheNetwork!Message, MessageType
    <3>2. d \in Seq(MessageType)
      BY <2>1, <3>1, AppendProperties
    <3> HIDE DEF o, d
    <3> QED  BY <2>1, <3>2 DEF SocketType
  <2> HIDE DEF g
  <2>4. SocketsTyped' /\ SendsTyped' /\ InFlight' /\ FlightsOnce' /\ ReceivedOnce'
    BY <2>2, <2>3, SocketGoesOn
  <2>5. /\ DOMAIN sockets' = DOMAIN sockets /\ sockets'[k] = g
        /\ \A l \in DOMAIN sockets : sockets'[l].from = sockets[l].from /\ sockets'[l].to = sockets[l].to
        /\ \A l \in DOMAIN sockets : l # k => sockets'[l] = sockets[l]
    BY <1>0, <2>2, <2>3, SocketChanged
  <2>6. /\ DOMAIN netPeers' = Nodes /\ netPeers'[n] = P /\ \A m \in Nodes : m # n => netPeers'[m] = netPeers[m]
    BY <1>0, <2>1, <2>2 DEF TablesName
  <2>7. /\ DOMAIN P = DOMAIN netPeers[n] \cup {TheNetwork!DialledFrom(k)} /\ P[TheNetwork!DialledFrom(k)] = e
        /\ \A id \in DOMAIN netPeers[n] : id # TheNetwork!DialledFrom(k) => P[id] = netPeers[n][id]
    <3> HIDE DEF e
    <3> QED  BY DEF TheNetwork!Put
  <2>8. e \in EntryType /\ EntryOf(n, TheNetwork!DialledFrom(k), e, sockets)
    BY DEF EntryType, EntryOf
  <2> HIDE DEF P, e
  <2>9. TablesName'
    BY <2>1, <2>5, <2>6, <2>7, <2>8, TablesChange
  <2>10. TheNetwork!IncomingIsOpen'
    <3>1. \A m \in Nodes : \A l \in DOMAIN sockets :
             TheNetwork!DialledFrom(l) \in DOMAIN netPeers[m] <=> sockets[l].to = m /\ sockets[l].server = "OPEN"
      BY <1>0 DEF TheNetwork!IncomingIsOpen
    <3>2. \A l \in DOMAIN sockets : TheNetwork!DialledFrom(l) = TheNetwork!DialledFrom(k) => l = k
      BY DEF TheNetwork!DialledFrom
    <3>3. ASSUME NEW m \in Nodes, NEW l \in DOMAIN sockets
          PROVE  TheNetwork!DialledFrom(l) \in DOMAIN netPeers'[m] <=> sockets'[l].to = m /\ sockets'[l].server = "OPEN"
      <4>1. CASE l = k
        <5>1. o.server # "OPEN"
          BY <1>7 DEF TheNetwork!HandleConnection
        <5> QED  BY <2>3, <2>5, <2>6, <2>7, <3>1, <4>1, <5>1
      <4>2. CASE l # k
        BY <2>5, <2>6, <2>7, <3>1, <3>2, <4>2
      <4> QED  BY <4>1, <4>2
    <3> QED  BY <2>5, <3>3 DEF TheNetwork!IncomingIsOpen, TheNetwork!DialledFrom
  <2> QED  BY <2>4, <2>9, <2>10 DEF NetworkInv
<1>8. ASSUME NEW k \in DOMAIN sockets, TheNetwork!Opened(k) PROVE NetworkInv'
  <2> DEFINE o == sockets[k]
             n == o.from
             e == [socket |-> k, seen |-> FALSE]
             g == [o EXCEPT !.client = "OPEN"]
             P == TheNetwork!Put(netPeers[n], TheNetwork!Dialled(o.to), e)
  <2>1. o \in SocketType /\ n \in Nodes /\ o.to # n
    BY <1>0, SocketIs
  <2>2. /\ sockets' = [sockets EXCEPT ![k] = g] /\ netPeers' = [netPeers EXCEPT ![n] = P]
        /\ UNCHANGED <<netRunning, netSent, netPings, netReceived>>
    BY <1>8 DEF TheNetwork!Opened
  <2>3. g \in SocketType /\ g.from = o.from /\ g.to = o.to /\ g.server = o.server /\ g.up = o.up
    <3> HIDE DEF o
    <3> QED  BY <2>1 DEF SocketType
  <2> HIDE DEF g
  <2>4. SocketsTyped' /\ SendsTyped' /\ InFlight' /\ FlightsOnce' /\ ReceivedOnce'
    BY <2>2, <2>3, SocketGoesOn
  <2>5. /\ DOMAIN sockets' = DOMAIN sockets
        /\ \A l \in DOMAIN sockets : sockets'[l].from = sockets[l].from /\ sockets'[l].to = sockets[l].to /\ sockets'[l].server = sockets[l].server
    BY <1>0, <2>2, <2>3, SocketChanged
  <2>6. /\ DOMAIN netPeers' = Nodes /\ netPeers'[n] = P /\ \A m \in Nodes : m # n => netPeers'[m] = netPeers[m]
    BY <1>0, <2>1, <2>2 DEF TablesName
  <2>7. /\ DOMAIN P = DOMAIN netPeers[n] \cup {TheNetwork!Dialled(o.to)} /\ P[TheNetwork!Dialled(o.to)] = e
        /\ \A id \in DOMAIN netPeers[n] : id # TheNetwork!Dialled(o.to) => P[id] = netPeers[n][id]
    <3> HIDE DEF e
    <3> QED  BY DEF TheNetwork!Put
  <2>8. e \in EntryType /\ EntryOf(n, TheNetwork!Dialled(o.to), e, sockets)
    BY DEF EntryType, EntryOf
  <2> HIDE DEF P, e
  <2>9. TablesName'
    BY <2>1, <2>5, <2>6, <2>7, <2>8, TablesChange
  <2>10. \A l : TheNetwork!DialledFrom(l) # TheNetwork!Dialled(o.to)
    BY DEF TheNetwork!DialledFrom, TheNetwork!Dialled
  <2>11. \A m \in Nodes : \A l \in DOMAIN sockets : TheNetwork!DialledFrom(l) \in DOMAIN netPeers'[m] <=> TheNetwork!DialledFrom(l) \in DOMAIN netPeers[m]
    BY <2>6, <2>7, <2>10
  <2>12. TheNetwork!IncomingIsOpen'
    BY <2>5, <2>6, <2>11, IncomingSame
  <2> QED  BY <2>4, <2>9, <2>12 DEF NetworkInv
<1>9. ASSUME NEW k \in DOMAIN sockets, TheNetwork!HandleDisconnection(k) PROVE NetworkInv'
  <2> DEFINE o == sockets[k]
             n == o.to
             g == [o EXCEPT !.server = "CLOSED", !.up = <<>>]
             P == TheNetwork!Drop(netPeers[n], {TheNetwork!DialledFrom(k)})
  <2>1. o \in SocketType /\ n \in Nodes /\ <<>> \in Seq(MessageType)
    BY <1>0, SocketIs
  <2>2. /\ sockets' = [sockets EXCEPT ![k] = g] /\ netPeers' = [netPeers EXCEPT ![n] = P]
        /\ UNCHANGED <<netRunning, netSent, netPings, netReceived>>
    BY <1>9 DEF TheNetwork!HandleDisconnection
  <2>3. g \in SocketType /\ g.from = o.from /\ g.to = o.to /\ g.server = "CLOSED" /\ g.up = <<>>
    <3> HIDE DEF o
    <3> QED  BY <2>1 DEF SocketType
  <2> HIDE DEF g
  <2>4. SocketsTyped' /\ SendsTyped' /\ InFlight' /\ FlightsOnce' /\ ReceivedOnce'
    BY <2>2, <2>3, SocketGoesOn
  <2>5. /\ DOMAIN sockets' = DOMAIN sockets /\ sockets'[k] = g
        /\ \A l \in DOMAIN sockets : sockets'[l].from = sockets[l].from /\ sockets'[l].to = sockets[l].to
        /\ \A l \in DOMAIN sockets : l # k => sockets'[l] = sockets[l]
    BY <1>0, <2>2, <2>3, SocketChanged
  <2>6. /\ DOMAIN netPeers' = Nodes /\ netPeers'[n] = P /\ \A m \in Nodes : m # n => netPeers'[m] = netPeers[m]
    BY <1>0, <2>1, <2>2 DEF TablesName
  <2>7. DOMAIN P = DOMAIN netPeers[n] \ {TheNetwork!DialledFrom(k)} /\ \A id \in DOMAIN P : P[id] = netPeers[n][id]
    BY DEF TheNetwork!Drop
  <2> HIDE DEF P
  <2>8. TablesName'
    BY <2>1, <2>5, <2>6, <2>7, TablesChange
  <2>9. TheNetwork!IncomingIsOpen'
    <3>1. \A m \in Nodes : \A l \in DOMAIN sockets :
             TheNetwork!DialledFrom(l) \in DOMAIN netPeers[m] <=> sockets[l].to = m /\ sockets[l].server = "OPEN"
      BY <1>0 DEF TheNetwork!IncomingIsOpen
    <3>2. \A l \in DOMAIN sockets : TheNetwork!DialledFrom(l) = TheNetwork!DialledFrom(k) => l = k
      BY DEF TheNetwork!DialledFrom
    <3>3. ASSUME NEW m \in Nodes, NEW l \in DOMAIN sockets
          PROVE  TheNetwork!DialledFrom(l) \in DOMAIN netPeers'[m] <=> sockets'[l].to = m /\ sockets'[l].server = "OPEN"
      <4>1. CASE l = k
        BY <2>3, <2>5, <2>6, <2>7, <3>1, <4>1
      <4>2. CASE l # k
        BY <2>5, <2>6, <2>7, <3>1, <3>2, <4>2
      <4> QED  BY <4>1, <4>2
    <3> QED  BY <2>5, <3>3 DEF TheNetwork!IncomingIsOpen, TheNetwork!DialledFrom
  <2> QED  BY <2>4, <2>8, <2>9 DEF NetworkInv
<1>10. ASSUME NEW k \in DOMAIN sockets, TheNetwork!HandleMessage(k) PROVE NetworkInv'
  BY <1>10, HandleStep
<1>11. CASE UNCHANGED TheNetwork!netVars
  <2>1. UNCHANGED <<netRunning, sockets, netPeers, netSent, netPings, netReceived>>
    BY <1>11 DEF TheNetwork!netVars
  <2>2. SocketsTyped' /\ SendsTyped'
    <3>1. SocketType' = SocketType
      BY DEF SocketType, MessageType
    <3> QED  BY <1>0, <2>1, <3>1 DEF SocketsTyped, SendsTyped
  <2>3. TablesName' /\ TheNetwork!IncomingIsOpen'
    <3>1. EntryType' = EntryType
      BY <2>1 DEF EntryType
    <3>2. \A n, id, e : EntryOf(n, id, e, sockets') <=> EntryOf(n, id, e, sockets)
      BY <2>1
    <3> QED  BY <1>0, <2>1, <3>1, <3>2 DEF TablesName, TheNetwork!IncomingIsOpen
  <2>4. InFlight' /\ FlightsOnce' /\ ReceivedOnce'
    <3>1. \A k, i : Carries(sockets', k, i) <=> Carries(sockets, k, i)
      BY <2>1
    <3>2. \A k, i : Delivery(sockets', k, i) = Delivery(sockets, k, i)
      BY <2>1
    <3> QED  BY <1>0, <2>1, <3>1, <3>2 DEF InFlight, FlightsOnce, ReceivedOnce
  <2> QED  BY <2>2, <2>3, <2>4 DEF NetworkInv
<1> QED  BY <1>1, <1>2, <1>3, <1>4, <1>6, <1>7, <1>8, <1>9, <1>10, <1>11 DEF TheNetwork!Next

LEMMA NetworkInvSays == NetworkInv => TheNetwork!TypeOK /\ TheNetwork!IncomingIsOpen /\ TheNetwork!HeardOneWay
<1> SUFFICES ASSUME NetworkInv PROVE TheNetwork!TypeOK /\ TheNetwork!HeardOneWay
  BY DEF NetworkInv
<1>0. SocketsTyped /\ SendsTyped /\ TablesName /\ ReceivedOnce
  BY DEF NetworkInv
<1>1. ASSUME NEW k \in DOMAIN sockets
      PROVE  /\ sockets[k].from \in Nodes /\ sockets[k].to \in Nodes
             /\ sockets[k].client \in {"CONNECTING", "OPEN", "CLOSING", "CLOSED"}
             /\ sockets[k].server \in {"NONE", "OPEN", "CLOSING", "CLOSED"}
  BY <1>0, SocketIs DEF SocketType
<1>2. ASSUME NEW n \in Nodes, NEW id \in DOMAIN netPeers[n]
      PROVE  /\ id \in {TheNetwork!Dialled(m) : m \in Nodes} \cup {TheNetwork!DialledFrom(k) : k \in DOMAIN sockets}
             /\ netPeers[n][id] \in [socket : DOMAIN sockets, seen : BOOLEAN] /\ ~netPeers[n][id].seen
  <2> DEFINE e == netPeers[n][id]
  <2>1. e \in EntryType /\ EntryOf(n, id, e, sockets)
    BY <1>0 DEF TablesName
  <2> HIDE DEF e
  <2>2. e.socket \in DOMAIN sockets /\ e.seen = FALSE /\ e \in [socket : DOMAIN sockets, seen : BOOLEAN]
    BY <2>1 DEF EntryType
  <2>3. id = TheNetwork!DialledFrom(e.socket) \/ id = TheNetwork!Dialled(sockets[e.socket].to)
    BY <2>1 DEF EntryOf
  <2>4. sockets[e.socket].to \in Nodes
    BY <1>1, <2>2
  <2> QED  BY <2>2, <2>3, <2>4 DEF e
<1>3. TheNetwork!TypeOK
  <2>1. TheNetwork!IsMap(netReceived, [node : Nodes, tx : DOMAIN netSent], Nat)
    BY <1>0 DEF ReceivedOnce, TheNetwork!IsMap
  <2>2. \A n \in Nodes : TheNetwork!IsMap(netPeers[n], {TheNetwork!Dialled(m) : m \in Nodes} \cup {TheNetwork!DialledFrom(k) : k \in DOMAIN sockets},
                              [socket : DOMAIN sockets, seen : BOOLEAN])
    BY <1>2 DEF TheNetwork!IsMap
  <2> QED  BY <1>0, <1>1, <2>1, <2>2 DEF TheNetwork!TypeOK, SendsTyped
<1>4. TheNetwork!HeardOneWay
  BY <1>0, <1>2 DEF TheNetwork!HeardOneWay, ReceivedOnce
<1> QED  BY <1>3, <1>4

-----------------------------------------------------------------------------
\* What the services are configured with: a limit of failed attempts there is, roles
\* are given permissions, limits are numbers and those of requests and of the cache
\* positive, workers are finitely many, a task is tried once at least, a pool begins
\* within its limit.
ServiceConstants ==
    /\ AccessConstants /\ PermissionsConstants /\ RBACConstants /\ RateConstants /\ ProcessorConstants
    /\ RetriesConstants /\ PlansConstants
    /\ ReportingConstants /\ ShardsConstants /\ DatabaseConstants /\ AMLConstants /\ KYCConstants
    /\ CacheConstants /\ MonitorConstants /\ HealthConstants /\ NetworkConstants

\* Of AccessControl: what a user may do is what the roles it has allow, and it is locked
\* by the failed attempts alone, for every number of accounts, roles and sessions.
THEOREM AccessSpecHolds ==
    ASSUME AccessConstants
    PROVE  TheAccess!Spec => [](/\ TheAccess!TypeOK
                                /\ TheAccess!PermissionsMatchRoles
                                /\ TheAccess!LockedByAttempts)
<1>1. TheAccess!Init => AccessInv
  BY AccessInit
<1>2. AccessInv /\ [TheAccess!Next]_TheAccess!accessVars => AccessInv'
  BY AccessStep
<1>3. AccessInv => /\ TheAccess!TypeOK
                   /\ TheAccess!PermissionsMatchRoles
                   /\ TheAccess!LockedByAttempts
  BY AccessInvSays
<1> QED  BY <1>1, <1>2, <1>3, PTL DEF TheAccess!Spec

\* Of PermissionManager: a user is allowed what a role it was given says.
THEOREM GrantsSpecHolds ==
    ASSUME PermissionsConstants
    PROVE  ThePermissions!Spec => [](ThePermissions!TypeOK /\ ThePermissions!AuthorityIsGranted)
<1>1. ThePermissions!Init => PermissionsInv
  BY PermissionsInit
<1>2. PermissionsInv /\ [ThePermissions!Next]_ThePermissions!pmVars => PermissionsInv'
  BY PermissionsStep
<1>3. PermissionsInv => ThePermissions!TypeOK /\ ThePermissions!AuthorityIsGranted
  BY PermissionsInvSays
<1> QED  BY <1>1, <1>2, <1>3, PTL DEF ThePermissions!Spec

\* Of RBACManager: the cache of permissions says what the roles say.
THEOREM RolesSpecHolds ==
    ASSUME RBACConstants
    PROVE  TheRBAC!Spec => [](TheRBAC!TypeOK /\ TheRBAC!CacheFollowsRoles)
<1>1. TheRBAC!Init => RBACInv
  BY RBACInit
<1>2. RBACInv /\ [TheRBAC!Next]_TheRBAC!rbacVars => RBACInv'
  BY RBACStep
<1>3. RBACInv => TheRBAC!TypeOK /\ TheRBAC!CacheFollowsRoles
  BY RBACInvSays
<1> QED  BY <1>1, <1>2, <1>3, PTL DEF TheRBAC!Spec

\* AuthorityKept, of every instance: what a user may do follows from the roles
\* given in each copy of it, and a user is locked by the failed attempts alone.
THEOREM AuthorityAlwaysKept ==
    ASSUME ServiceConstants
    PROVE  TheAccess!Spec /\ ThePermissions!Spec /\ TheRBAC!Spec => []AuthorityKept
<1>1. AccessConstants /\ PermissionsConstants /\ RBACConstants
  BY DEF ServiceConstants
<1>2. TheAccess!Init => AccessInv
  BY <1>1, AccessInit
<1>3. AccessInv /\ [TheAccess!Next]_TheAccess!accessVars => AccessInv'
  BY <1>1, AccessStep
<1>4. ThePermissions!Init => PermissionsInv
  BY <1>1, PermissionsInit
<1>5. PermissionsInv /\ [ThePermissions!Next]_ThePermissions!pmVars => PermissionsInv'
  BY <1>1, PermissionsStep
<1>6. TheRBAC!Init => RBACInv
  BY <1>1, RBACInit
<1>7. RBACInv /\ [TheRBAC!Next]_TheRBAC!rbacVars => RBACInv'
  BY <1>1, RBACStep
<1>8. AccessInv /\ PermissionsInv /\ RBACInv => AuthorityKept
  BY <1>1, AccessInvSays, PermissionsInvSays, RBACInvSays DEF AuthorityKept
<1> QED  BY <1>2, <1>3, <1>4, <1>5, <1>6, <1>7, <1>8, PTL DEF TheAccess!Spec, ThePermissions!Spec, TheRBAC!Spec

\* Of ComplianceReporting: the dashboard counts every request and alert at once, and a
\* report on transactions never has a score, of every number of them filed.
THEOREM ReportsSpecHolds ==
    ASSUME ReportingConstants
    PROVE  TheReporting!Spec => [](/\ TheReporting!TypeOK
                                   /\ TheReporting!DashboardCountsAll
                                   /\ TheReporting!TransactionsUnscored)
<1>1. TheReporting!Init => ReportingInv
  BY ReportingInit
<1>2. ReportingInv /\ [TheReporting!Next]_TheReporting!complianceVars => ReportingInv'
  BY ReportingStep
<1>3. ReportingInv => /\ TheReporting!TypeOK
                      /\ TheReporting!DashboardCountsAll
                      /\ TheReporting!TransactionsUnscored
  BY ReportingInvSays
<1> QED  BY <1>1, <1>2, <1>3, PTL DEF TheReporting!Spec

\* Of AMLSystem, of every threshold and limit of the history: a user's history is the tail
\* of the analyses kept of it, an account over the threshold is closed for the hour, and
\* nothing blocked is kept.
THEOREM AnalysesSpecHolds ==
    ASSUME AMLConstants
    PROVE  TheAML!Spec => [](/\ TheAML!TypeOK
                             /\ TheAML!HistoryIsAnalysed
                             /\ TheAML!FrequencyCloses
                             /\ TheAML!NothingBlockedKept)
<1>1. TheAML!Init => AMLInv
  BY AMLInit
<1>2. AMLInv /\ [TheAML!Next]_TheAML!amlVars => AMLInv'
  BY AMLStep
<1>3. AMLInv => /\ TheAML!TypeOK
                /\ TheAML!HistoryIsAnalysed
                /\ TheAML!FrequencyCloses
                /\ TheAML!NothingBlockedKept
  BY AMLInvSays
<1> QED  BY <1>1, <1>2, <1>3, PTL DEF TheAML!Spec

\* Of KYCSystem: a request that is not written by hand has the status of its verification, and
\* nobody of high value or high risk is verified but by hand.
THEOREM VerificationsSpecHolds ==
    ASSUME KYCConstants
    PROVE  TheKYC!Spec => [](TheKYC!TypeOK /\ TheKYC!PipelineDecides /\ TheKYC!LimitAppliesByHandOnly)
<1>1. TheKYC!Init => KYCInv
  BY KYCInit
<1>2. KYCInv /\ [TheKYC!Next]_TheKYC!kycVars => KYCInv'
  BY KYCStep
<1>3. KYCInv => TheKYC!TypeOK /\ TheKYC!PipelineDecides /\ TheKYC!LimitAppliesByHandOnly
  BY KYCInvSays
<1> QED  BY <1>1, <1>2, <1>3, PTL DEF TheKYC!Spec

\* Of CacheLayer, of every size: eviction keeps the cache to its size and its own record to
\* the cache until it is reconfigured, and the order never has a key that is not cached.
THEOREM CacheSpecHolds ==
    ASSUME CacheConstants
    PROVE  TheCache!Spec => [](TheCache!TypeOK /\ TheCache!EvictionKeepsUp /\ TheCache!OrderHasNoStrays)
<1>1. TheCache!Init => CacheInv
  BY CacheInit
<1>2. CacheInv /\ [TheCache!Next]_TheCache!cacheVars => CacheInv'
  BY CacheStep
<1>3. CacheInv => TheCache!TypeOK /\ TheCache!EvictionKeepsUp /\ TheCache!OrderHasNoStrays
  BY CacheInvSays
<1> QED  BY <1>1, <1>2, <1>3, PTL DEF TheCache!Spec

\* Of PerformanceMonitor: alerts are looked for only while records are taken, and a
\* profile's summary is of samples it had.
THEOREM RecordsSpecHolds ==
    ASSUME MonitorConstants
    PROVE  TheMonitor!Spec => [](/\ TheMonitor!TypeOK
                                 /\ TheMonitor!AlertsWatchRecords
                                 /\ TheMonitor!SummaryIsOfSamples)
<1>1. TheMonitor!Init => MonitorInv
  BY MonitorInit
<1>2. MonitorInv /\ [TheMonitor!Next]_TheMonitor!monitorVars => MonitorInv'
  BY MonitorStep
<1>3. MonitorInv => /\ TheMonitor!TypeOK
                    /\ TheMonitor!AlertsWatchRecords
                    /\ TheMonitor!SummaryIsOfSamples
  BY MonitorInvSays
<1> QED  BY <1>1, <1>2, <1>3, PTL DEF TheMonitor!Spec

\* Of ValidatorHealthMonitor, of every set of validators and number of calls: a run of
\* failures that is long enough has an alert that says so.
THEOREM FailuresSpecHolds ==
    ASSUME HealthConstants
    PROVE  TheHealth!Spec => [](TheHealth!TypeOK /\ TheHealth!FailuresAreAlerted)
<1>1. TheHealth!Init => HealthInv
  BY HealthInit
<1>2. HealthInv /\ [TheHealth!Next]_TheHealth!healthVars => HealthInv'
  BY HealthStep
<1>3. HealthInv => TheHealth!TypeOK /\ TheHealth!FailuresAreAlerted
  BY HealthInvSays
<1> QED  BY <1>1, <1>2, <1>3, PTL DEF TheHealth!Spec

\* Of NetworkManager, of every number of nodes, sockets and broadcasts: a node's entries
\* of those that dialled it are the sockets open at its end, and a transaction comes once
\* and from a node that dialled.
THEOREM PeersSpecHolds ==
    ASSUME NetworkConstants
    PROVE  TheNetwork!Spec => [](TheNetwork!TypeOK /\ TheNetwork!IncomingIsOpen /\ TheNetwork!HeardOneWay)
<1>1. TheNetwork!Init => NetworkInv
  BY NetworkInit
<1>2. NetworkInv /\ [TheNetwork!Next]_TheNetwork!netVars => NetworkInv'
  BY NetworkStep
<1>3. NetworkInv => TheNetwork!TypeOK /\ TheNetwork!IncomingIsOpen /\ TheNetwork!HeardOneWay
  BY NetworkInvSays
<1> QED  BY <1>1, <1>2, <1>3, PTL DEF TheNetwork!Spec

\* TheProcessor!EachTaskOnce and TheProcessor!WaitingIsQueued, of every number of
\* workers, tasks, retries and restarts: a task is in one place only, and while
\* the processor is not stopped no waiting task is forgotten.
THEOREM TasksInOnePlace ==
    ASSUME ProcessorConstants
    PROVE  TheProcessor!Spec => [](TheProcessor!EachTaskOnce /\ TheProcessor!WaitingIsQueued)
<1>1. TheProcessor!Init => ProcessorInv
  BY ProcessorInit
<1>2. ProcessorInv /\ [TheProcessor!Next]_TheProcessor!processorVars => ProcessorInv'
  BY ProcessorStep
<1>3. ProcessorInv => TheProcessor!EachTaskOnce /\ TheProcessor!WaitingIsQueued
  BY ProcessorInvSays
<1> QED  BY <1>1, <1>2, <1>3, PTL DEF TheProcessor!Spec

\* Of ShardingManager, of every number of shards, nodes and sweeps under way: a node is routed
\* to a shard that has it, a shard marked as rebalancing is waited for, and among as
\* many shards as divide 256 a byte is routed to the shard with its range.
THEOREM RoutesSpecHolds ==
    ASSUME ShardsConstants
    PROVE  TheShards!Spec => [](/\ TheShards!TypeOK
                                /\ TheShards!RoutedIsMember
                                /\ TheShards!RebalancingEnds
                                /\ TheShards!RangesAreRoutes)
<1> DEFINE Inv == ShardsInv /\ stopped \in BOOLEAN
<1>1. TheShards!Init => Inv
  BY ShardsInit DEF TheShards!Init
<1>2. Inv /\ [TheShards!Next]_TheShards!shardVars => Inv'
  <2> SUFFICES ASSUME Inv, [TheShards!Next]_TheShards!shardVars PROVE Inv'
    OBVIOUS
  <2>1. ShardsInv'
    BY ShardsStep
  <2>2. stopped' = stopped \/ stopped' = TRUE
    BY DEF TheShards!Next, TheShards!shardVars, TheShards!AddNodeToShard, TheShards!RemoveNodeFromShard, TheShards!Report,
           TheShards!HealthCheck, TheShards!StopSharding, TheShards!RebalanceShards, TheShards!ShardRebalanced
  <2> QED  BY <2>1, <2>2
<1>3. Inv => /\ TheShards!TypeOK
             /\ TheShards!RoutedIsMember
             /\ TheShards!RebalancingEnds
             /\ TheShards!RangesAreRoutes
  BY ShardsInvSays
<1> HIDE DEF Inv
<1> QED  BY <1>1, <1>2, <1>3, PTL DEF TheShards!Spec

\* Of DatabaseOptimizer, of every pool, set of queries and of indexes: no two queries share a
\* connection, and only reading queries have a result kept, with a plan over their own tables.
THEOREM PlansSpecHolds ==
    ASSUME DatabaseConstants, PlansConstants
    PROVE  TheDatabase!Spec => [](TheDatabase!TypeOK /\ TheDatabase!ConnectionsExclusive /\ TheDatabase!CacheReads)
<1> DEFINE Inv == DatabaseInv /\ PlansInv
<1>1. TheDatabase!Init => Inv
  BY DatabaseInit, PlansInit
<1>2. Inv /\ [TheDatabase!Next]_TheDatabase!dbVars => Inv'
  BY DatabaseStep, PlansStep
<1>3. Inv => TheDatabase!TypeOK /\ TheDatabase!ConnectionsExclusive /\ TheDatabase!CacheReads
  BY PlansInvSays DEF DatabaseInv
<1> HIDE DEF Inv
<1> QED  BY <1>1, <1>2, <1>3, PTL DEF TheDatabase!Spec

\* Of ParallelProcessor, of every number of workers, tasks and retries: a task has the retries
\* it may have, and there are no more retry delays than retries counted.
THEOREM RetriesSpecHolds ==
    ASSUME ProcessorConstants, RetriesConstants
    PROVE  TheProcessor!Spec => []TheProcessor!TypeOK
<1> DEFINE Inv == ProcessorInv /\ RetriesInv
<1>1. TheProcessor!Init => Inv
  BY ProcessorInit, RetriesInit
<1>2. Inv /\ [TheProcessor!Next]_TheProcessor!processorVars => Inv'
  BY ProcessorStep, RetriesStep
<1>3. Inv => TheProcessor!TypeOK
  BY RetriesInvSays
<1> HIDE DEF Inv
<1> QED  BY <1>1, <1>2, <1>3, PTL DEF TheProcessor!Spec

LEMMA RateKept ==
    ASSUME RBACConstants, RateConstants
    PROVE  TheRBAC!Spec => []TheRBAC!RateIsLimited
<1> DEFINE Inv == RBACInv /\ RateInv
<1>1. TheRBAC!Init => Inv
  BY RBACInit, RateInit
<1>2. Inv /\ [TheRBAC!Next]_TheRBAC!rbacVars => Inv'
  BY RBACStep, RateStep
<1>3. Inv => TheRBAC!RateIsLimited
  BY DEF RateInv
<1> HIDE DEF Inv
<1> QED  BY <1>1, <1>2, <1>3, PTL DEF TheRBAC!Spec

\* FinishedForGood: a task that ended stays ended, however workers fail and are
\* replaced.
LEMMA FinishedKept ==
    ASSUME ProcessorConstants
    PROVE  TheProcessor!Spec => TheProcessor!FinishedForGood
<1> DEFINE Stays == \A t \in DOMAIN tasks : tasks[t].status \in TheProcessor!Finished => tasks'[t].status = tasks[t].status
<1>1. TheProcessor!Init => ProcessorInv
  BY ProcessorInit
<1>2. ProcessorInv /\ [TheProcessor!Next]_TheProcessor!processorVars => ProcessorInv'
  BY ProcessorStep
<1>3. ProcessorInv /\ [TheProcessor!Next]_TheProcessor!processorVars => Stays
  BY ProcessorStep DEF StayFinished
<1> QED  BY <1>1, <1>2, <1>3, PTL DEF TheProcessor!Spec, TheProcessor!FinishedForGood

\* AccessEndsOnce: a lock is final, and a session over is over for good.
LEMMA AccessEndedKept ==
    ASSUME AccessConstants
    PROVE  TheAccess!Spec => TheAccess!AccessEndsOnce
<1> DEFINE Stays == /\ \A u \in DOMAIN users : users[u].isLocked => users'[u].isLocked
                    /\ \A s \in DOMAIN sessions : ~TheAccess!Valid(s) => ~(sessions'[s].isActive /\ time' <= sessions'[s].expiresAt)
<1>1. TheAccess!Init => AccessInv
  BY AccessInit
<1>2. AccessInv /\ [TheAccess!Next]_TheAccess!accessVars => AccessInv'
  BY AccessStep
<1>3. AccessInv /\ [TheAccess!Next]_TheAccess!accessVars => Stays
  BY AccessStep DEF Over, LocksLast
<1> QED  BY <1>1, <1>2, <1>3, PTL DEF TheAccess!Spec, TheAccess!AccessEndsOnce

\* ApprovalSticks: a report once approved remains so and says what it said.
LEMMA ApprovedKept ==
    ASSUME ReportingConstants
    PROVE  TheReporting!Spec => TheReporting!ApprovalSticks
<1> DEFINE Stays == \A i \in DOMAIN reports :
                       /\ reports[i].approved => reports'[i].approved
                       /\ reports'[i].score = reports[i].score /\ reports'[i].violations = reports[i].violations
<1>1. TheReporting!Init => ReportingInv
  BY ReportingInit
<1>2. ReportingInv /\ [TheReporting!Next]_TheReporting!complianceVars => ReportingInv'
  BY ReportingStep
<1>3. ReportingInv /\ [TheReporting!Next]_TheReporting!complianceVars => Stays
  BY ReportingStep DEF KeptReports, ReportKept
<1> QED  BY <1>1, <1>2, <1>3, PTL DEF TheReporting!Spec, TheReporting!ApprovalSticks

=============================================================================
