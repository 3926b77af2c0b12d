----------------------- MODULE ProofOfAuthority_proofs -----------------------
(***************************************************************************)
(* Theorems about ProofOfAuthority, for every list of validators, any number *)
(* of nodes and blocks, and any order in which the votes arrive.             *)
(*                                                                         *)
(* TypeOK needs that a list names nobody twice, which is stated by indices   *)
(* here and by cardinality there.                                           *)
(***************************************************************************)
EXTENDS ProofOfAuthority, FiniteSetTheorems, SequenceTheorems, TLAPS

Distinct(s) == \A i, j \in DOMAIN s : s[i] = s[j] => i = j

TypeInv ==
    /\ validatorSet \in [Nodes -> Seq(Voters)]
    /\ \A n \in Nodes : Distinct(validatorSet[n])
    /\ currentValidator \in [Nodes -> Nat \cup {NaN}]
    /\ pendingVotes \in [Nodes -> [Hashes -> [yes : Nat, no : Nat]]]
    /\ cast \in SUBSET Vote /\ IsFiniteSet(cast)
    /\ received \in [Nodes -> SUBSET Vote]
    /\ decisions \in [Nodes -> Seq(Decision)]
    /\ edits \in 0 .. MaxEdits

-----------------------------------------------------------------------------
\* A list that names nobody twice has as many members as places.
LEMMA DistinctCardinality ==
    ASSUME NEW s \in Seq(Voters), Distinct(s)
    PROVE  IsFiniteSet(RangeOf(s)) /\ Cardinality(RangeOf(s)) = Len(s)
<1>1. Len(s) \in Nat /\ DOMAIN s = 1 .. Len(s) /\ s \in [1 .. Len(s) -> RangeOf(s)]
  BY DEF RangeOf
<1>2. s \in Bijection(1 .. Len(s), RangeOf(s))
  BY <1>1 DEF Bijection, Injection, IsInjective, Surjection, RangeOf, Distinct
<1>3. ExistsBijection(1 .. Len(s), RangeOf(s))
  BY <1>2 DEF ExistsBijection
<1>4. IsFiniteSet(RangeOf(s))
  BY <1>1, <1>3, FS_NatBijection
<1> QED
  BY <1>1, <1>3, <1>4, FS_CountingElements

\* Appending a name the list does not hold keeps its names distinct.
LEMMA AppendDistinct ==
    ASSUME NEW s \in Seq(Voters), Distinct(s), NEW v \in Voters, v \notin RangeOf(s)
    PROVE  Append(s, v) \in Seq(Voters) /\ Distinct(Append(s, v))
<1>1. /\ Append(s, v) \in Seq(Voters)
      /\ DOMAIN Append(s, v) = 1 .. Len(s) + 1
      /\ \A i \in 1 .. Len(s) : Append(s, v)[i] = s[i]
      /\ Append(s, v)[Len(s) + 1] = v
      /\ DOMAIN s = 1 .. Len(s)
      /\ Len(s) \in Nat
  BY AppendProperties
<1>2. \A i \in 1 .. Len(s) : s[i] # v
  BY <1>1 DEF RangeOf
<1> QED
  BY <1>1, <1>2 DEF Distinct

\* Taking one place out of a list keeps its names distinct.
LEMMA RemoveDistinct ==
    ASSUME NEW s \in Seq(Voters), Distinct(s), NEW i \in DOMAIN s
    PROVE  LET t == SubSeq(s, 1, i - 1) \o SubSeq(s, i + 1, Len(s))
           IN  t \in Seq(Voters) /\ Distinct(t)
<1> DEFINE a == SubSeq(s, 1, i - 1)
           b == SubSeq(s, i + 1, Len(s))
           place(k) == IF k <= i - 1 THEN k ELSE k + 1
<1>1. Len(s) \in Nat /\ DOMAIN s = 1 .. Len(s) /\ i \in 1 .. Len(s)
      /\ \A k \in 1 .. Len(s) : s[k] \in Voters
  BY LenProperties, ElementOfSeq
<1>2. /\ a \in Seq(Voters) /\ Len(a) = i - 1
      /\ \A k \in 1 .. i - 1 : a[k] = s[k]
  <2>1. \A k \in 1 .. i - 1 : s[k] \in Voters
    BY <1>1
  <2>2. /\ a \in Seq(Voters)
        /\ Len(a) = IF 1 <= i - 1 THEN (i - 1) - 1 + 1 ELSE 0
        /\ \A k \in 1 .. (i - 1) - 1 + 1 : a[k] = s[1 + k - 1]
    BY <1>1, <2>1, SubSeqProperties
  <2> QED BY <1>1, <2>2
<1>3. /\ b \in Seq(Voters) /\ Len(b) = Len(s) - i
      /\ \A k \in 1 .. Len(s) - i : b[k] = s[i + k]
  <2>1. \A k \in i + 1 .. Len(s) : s[k] \in Voters
    BY <1>1
  <2>2. /\ b \in Seq(Voters)
        /\ Len(b) = IF i + 1 <= Len(s) THEN Len(s) - (i + 1) + 1 ELSE 0
        /\ \A k \in 1 .. Len(s) - (i + 1) + 1 : b[k] = s[i + 1 + k - 1]
    BY <1>1, <2>1, SubSeqProperties
  <2> HIDE DEF b
  <2>3. \A k \in 1 .. Len(s) - i : i + 1 + k - 1 = i + k /\ k \in 1 .. Len(s) - (i + 1) + 1
    BY <1>1
  <2>4. Len(b) = Len(s) - i
    BY <1>1, <2>2
  <2> QED BY <2>2, <2>3, <2>4
<1> HIDE DEF a, b
<1>4. /\ a \o b \in Seq(Voters)
      /\ Len(a \o b) = Len(s) - 1
      /\ DOMAIN (a \o b) = 1 .. Len(s) - 1
      /\ \A k \in 1 .. Len(s) - 1 : (a \o b)[k] = IF k <= i - 1 THEN a[k] ELSE b[k - (i - 1)]
  <2>1. /\ a \o b \in Seq(Voters)
        /\ Len(a \o b) = Len(a) + Len(b)
        /\ \A k \in 1 .. Len(a) + Len(b) : (a \o b)[k] = IF k <= Len(a) THEN a[k] ELSE b[k - Len(a)]
    BY <1>2, <1>3, ConcatProperties
  <2>2. DOMAIN (a \o b) = 1 .. Len(a \o b)
    BY <2>1, LenProperties
  <2>3. Len(a) + Len(b) = Len(s) - 1
    BY <1>1, <1>2, <1>3
  <2> QED
    BY <1>2, <2>1, <2>2, <2>3
<1>5. ASSUME NEW k \in 1 .. Len(s) - 1
      PROVE  place(k) \in 1 .. Len(s) /\ (a \o b)[k] = s[place(k)]
  <2>1. CASE k <= i - 1
    <3>1. k \in 1 .. i - 1 /\ place(k) = k
      BY <1>1, <2>1
    <3>2. (a \o b)[k] = a[k]
      BY <1>4, <2>1
    <3> QED BY <1>1, <1>2, <3>1, <3>2
  <2>2. CASE ~(k <= i - 1)
    <3>1. k - (i - 1) \in 1 .. Len(s) - i /\ i + (k - (i - 1)) = k + 1
      BY <1>1, <2>2
    <3>2. place(k) = k + 1 /\ place(k) \in 1 .. Len(s)
      BY <1>1, <2>2
    <3>3. (a \o b)[k] = b[k - (i - 1)]
      BY <1>4, <2>2
    <3> HIDE DEF place
    <3> QED BY <1>3, <3>1, <3>2, <3>3
  <2> QED BY <2>1, <2>2
<1>6. \A k, m \in 1 .. Len(s) - 1 : place(k) = place(m) => k = m
  BY <1>1
<1> HIDE DEF place
<1>7. Distinct(a \o b)
  <2> SUFFICES ASSUME NEW k \in 1 .. Len(s) - 1, NEW m \in 1 .. Len(s) - 1,
                      (a \o b)[k] = (a \o b)[m]
               PROVE  k = m
    BY <1>4 DEF Distinct
  <2>1. place(k) = place(m)
    BY <1>1, <1>5 DEF Distinct
  <2> QED BY <1>6, <2>1
<1> QED
  BY <1>4, <1>7 DEF a, b

-----------------------------------------------------------------------------
LEMMA InitTypeInv == Init => TypeInv
<1> SUFFICES ASSUME Init PROVE TypeInv
  OBVIOUS
<1> USE DEF Init
<1>1. \A n \in Nodes : validatorSet[n] = Validators
  OBVIOUS
<1>2. pendingVotes \in [Nodes -> [Hashes -> [yes : Nat, no : Nat]]]
  BY DEF NoVotes
<1>3. decisions \in [Nodes -> Seq(Decision)]
  BY EmptySeq
<1>4. currentValidator \in [Nodes -> Nat \cup {NaN}] /\ received \in [Nodes -> SUBSET Vote]
  OBVIOUS
<1> QED
  BY <1>1, <1>2, <1>3, <1>4, FS_EmptySet, ValidatorsAssumption, BoundsAssumption DEF TypeInv, Distinct

LEMMA NextTypeInv == TypeInv /\ [Next]_vars => TypeInv'
<1> SUFFICES ASSUME TypeInv, [Next]_vars PROVE TypeInv'
  OBVIOUS
<1>1. ASSUME NEW n \in Voters, NEW h \in Hashes, NEW approve \in BOOLEAN, VoteOnBlock(n, h, approve)
      PROVE  TypeInv'
  <2> DEFINE nth == Cardinality({v \in cast : v.by = n /\ v.hash = h}) + 1
  <2>1. nth <= VotesPerNode /\ cast' = cast \cup {[by |-> n, hash |-> h, approve |-> approve, nth |-> nth]}
    BY <1>1 DEF VoteOnBlock
  <2>2. Cardinality({v \in cast : v.by = n /\ v.hash = h}) \in Nat
    BY FS_Subset, FS_CardinalityType DEF TypeInv
  <2>3. nth \in 1 .. VotesPerNode
    BY <2>1, <2>2, BoundsAssumption
  <2> HIDE DEF nth
  <2>4. [by |-> n, hash |-> h, approve |-> approve, nth |-> nth] \in Vote
    BY <2>3 DEF Vote
  <2>5. cast' \in SUBSET Vote /\ IsFiniteSet(cast')
    BY <2>1, <2>4, FS_AddElement DEF TypeInv
  <2> QED
    BY <1>1, <2>5 DEF TypeInv, VoteOnBlock
<1>2. ASSUME NEW n \in Nodes, NEW v \in Vote, AddVote(n, v)
      PROVE  TypeInv'
  <2>1. Tally(n, v) \in [yes : Nat, no : Nat]
    BY DEF TypeInv, Tally, Vote
  <2>2. pendingVotes' \in [Nodes -> [Hashes -> [yes : Nat, no : Nat]]]
    BY <1>2, <2>1 DEF TypeInv, AddVote, NoVotes, Vote
  <2>3. decisions' \in [Nodes -> Seq(Decision)]
    <3>1. \A o : [hash |-> v.hash, approved |-> o = "approve"] \in Decision
      BY DEF Decision, Vote
    <3> QED
      BY <1>2, <3>1, AppendProperties DEF TypeInv, AddVote
  <2>4. received' \in [Nodes -> SUBSET Vote]
    BY <1>2 DEF TypeInv, AddVote
  <2> QED
    BY <1>2, <2>2, <2>3, <2>4 DEF TypeInv, AddVote, Distinct
<1>3. ASSUME NEW n \in Nodes, GetNextValidator(n)
      PROVE  TypeInv'
  <2>1. ASSUME validatorSet[n] # <<>>, currentValidator[n] # NaN
        PROVE  (currentValidator[n] + 1) % Len(validatorSet[n]) \in Nat
    <3>1. Len(validatorSet[n]) \in Nat \ {0} /\ currentValidator[n] + 1 \in Nat
      BY <2>1, EmptySeq DEF TypeInv
    <3> QED BY <3>1
  <2>2. currentValidator' \in [Nodes -> Nat \cup {NaN}]
    BY <1>3, <2>1 DEF TypeInv, GetNextValidator
  <2> QED
    BY <1>3, <2>2 DEF TypeInv, GetNextValidator, Distinct
<1>4. ASSUME NEW n \in Nodes, NEW v \in Voters, AddValidator(n, v)
      PROVE  TypeInv'
  <2>1. Append(validatorSet[n], v) \in Seq(Voters) /\ Distinct(Append(validatorSet[n], v))
    BY <1>4, AppendDistinct DEF TypeInv, AddValidator
  <2> QED
    BY <1>4, <2>1, BoundsAssumption DEF TypeInv, AddValidator
<1>5. ASSUME NEW n \in Nodes, NEW i \in DOMAIN validatorSet[n], RemoveValidator(n, i)
      PROVE  TypeInv'
  <2> DEFINE t == SubSeq(validatorSet[n], 1, i - 1)
                    \o SubSeq(validatorSet[n], i + 1, Len(validatorSet[n]))
  <2>1. t \in Seq(Voters) /\ Distinct(t)
    BY RemoveDistinct DEF TypeInv
  <2>2. /\ validatorSet' = [validatorSet EXCEPT ![n] = t]
        /\ edits < MaxEdits /\ edits' = edits + 1
        /\ UNCHANGED <<currentValidator, pendingVotes, cast, received, decisions>>
    BY <1>5 DEF RemoveValidator
  <2> HIDE DEF t
  <2> QED
    BY <2>1, <2>2, BoundsAssumption DEF TypeInv
<1>6. CASE UNCHANGED vars
  BY <1>6 DEF vars, TypeInv, Distinct
<1> QED
  BY <1>1, <1>2, <1>3, <1>4, <1>5, <1>6 DEF Next
\* The state of every node stays well typed, and no edit makes a list name a
\* node twice: addValidator searches the list, removeValidator takes one place.
THEOREM TypeCorrect == Spec => []TypeOK
<1>1. TypeInv => TypeOK
  BY DistinctCardinality DEF TypeInv, TypeOK
<1> QED
  BY <1>1, InitTypeInv, NextTypeInv, PTL DEF Spec

-----------------------------------------------------------------------------
\* Until the first edit every node has the configured list, and its turn is a
\* place of it.
UneditedInv ==
    edits = 0 => \A n \in Nodes :
        /\ validatorSet[n] = Validators
        /\ Validators # <<>> => currentValidator[n] \in 0 .. Len(Validators) - 1

LEMMA UneditedKept ==
    /\ Init => UneditedInv
    /\ TypeInv /\ UneditedInv /\ [Next]_vars => UneditedInv'
<1>1. Init => UneditedInv
  <2>1. Validators # <<>> => 0 \in 0 .. Len(Validators) - 1
    BY ValidatorsAssumption, EmptySeq
  <2> QED BY <2>1 DEF Init, UneditedInv
<1>2. TypeInv /\ UneditedInv /\ [Next]_vars => UneditedInv'
  <2> SUFFICES ASSUME TypeInv, UneditedInv, [Next]_vars, edits' = 0 PROVE UneditedInv'
    BY DEF UneditedInv
  <2>1. ASSUME NEW n \in Voters, NEW h \in Hashes, NEW approve \in BOOLEAN, VoteOnBlock(n, h, approve)
        PROVE  UneditedInv'
    BY <2>1 DEF UneditedInv, VoteOnBlock
  <2>2. ASSUME NEW n \in Nodes, NEW v \in Vote, AddVote(n, v)
        PROVE  UneditedInv'
    BY <2>2 DEF UneditedInv, AddVote
  <2>3. ASSUME NEW n \in Nodes, GetNextValidator(n)
        PROVE  UneditedInv'
    <3>1. edits = 0
      BY <2>3 DEF GetNextValidator
    <3>2. ASSUME Validators # <<>>
          PROVE  /\ currentValidator[n] # NaN /\ validatorSet[n] = Validators
                 /\ (currentValidator[n] + 1) % Len(validatorSet[n]) \in 0 .. Len(Validators) - 1
      <4>1. Len(Validators) \in Nat \ {0}
        BY <3>2, ValidatorsAssumption, EmptySeq
      <4>2. currentValidator[n] \in 0 .. Len(Validators) - 1 /\ validatorSet[n] = Validators
        BY <3>1, <3>2 DEF UneditedInv
      <4> QED BY <4>1, <4>2 DEF NaN
    <3> QED
      BY <2>3, <3>1, <3>2 DEF UneditedInv, GetNextValidator, TypeInv
  <2>4. ASSUME NEW n \in Nodes, NEW v \in Voters, AddValidator(n, v)
        PROVE  FALSE
    BY <2>4 DEF AddValidator, TypeInv
  <2>5. ASSUME NEW n \in Nodes, NEW i \in DOMAIN validatorSet[n], RemoveValidator(n, i)
        PROVE  FALSE
    BY <2>5 DEF RemoveValidator, TypeInv
  <2>6. CASE UNCHANGED vars
    BY <2>6 DEF vars, UneditedInv
  <2> QED
    BY <2>1, <2>2, <2>3, <2>4, <2>5, <2>6 DEF Next
<1> QED
  BY <1>1, <1>2

\* Until an edit the turn names a validator of the list, however often
\* getNextValidator is called: the index wraps at the length of the list.
THEOREM TurnCorrect == Spec => []TurnNamesValidator
<1>1. TypeInv /\ UneditedInv => TurnNamesValidator
  <2> SUFFICES ASSUME TypeInv, UneditedInv, edits = 0, Validators # <<>>, NEW n \in Nodes
               PROVE  Author(n) # ""
    BY DEF TurnNamesValidator
  <2>1. currentValidator[n] \in 0 .. Len(Validators) - 1 /\ validatorSet[n] = Validators
    BY DEF UneditedInv
  <2>2. /\ Len(Validators) \in Nat /\ DOMAIN Validators = 1 .. Len(Validators)
        /\ \A i \in 1 .. Len(Validators) : Validators[i] \in Voters
    BY ValidatorsAssumption, LenProperties, ElementOfSeq
  <2>3. currentValidator[n] + 1 \in 1 .. Len(Validators)
    BY <2>1, <2>2
  <2> QED
    BY <2>1, <2>2, <2>3, NamesAssumption DEF Author
<1> QED
  BY <1>1, InitTypeInv, NextTypeInv, UneditedKept, PTL DEF Spec

-----------------------------------------------------------------------------
\* Every validator is asked once per block, and the channel delivers each vote
\* at most once to a node.
OnceEach == VotesPerNode = 1 /\ ~Repeats

Quorum == Len(Validators) \div 2 + 1

\* The votes on a block, for or against, among the votes R.
VotesFor(R, h, approve) == {v \in R : v.hash = h /\ v.approve = approve}
DecidedAny(n, h) == \E approve \in BOOLEAN : Decided(n, h, approve)

\* Votes are of configured validators, one per block each, and what a node has
\* received was cast.
VotesInv ==
    /\ \A v \in cast : v.by \in RangeOf(Validators)
    /\ \A v, w \in cast : v.by = w.by /\ v.hash = w.hash => v = w
    /\ \A n \in Nodes : received[n] \subseteq cast

\* Votes are counted once.  A decision uses up a quorum of them, which no later
\* count of the same block gets back.
TallyInv ==
    edits = 0 => \A n \in Nodes, h \in Hashes :
        /\ ~DecidedAny(n, h) =>
              /\ pendingVotes[n][h].yes <= Cardinality(VotesFor(received[n], h, TRUE))
              /\ pendingVotes[n][h].no <= Cardinality(VotesFor(received[n], h, FALSE))
        /\ DecidedAny(n, h) =>
              pendingVotes[n][h].yes + pendingVotes[n][h].no + Quorum
                <= Cardinality(VotesFor(received[n], h, TRUE)) + Cardinality(VotesFor(received[n], h, FALSE))
        /\ \A approve \in BOOLEAN :
              Decided(n, h, approve) => Cardinality(VotesFor(received[n], h, approve)) >= Quorum

IInv == TypeInv /\ UneditedInv /\ VotesInv /\ TallyInv /\ DecideOnce

\* Two sets of cast votes on a block without a vote in common have no more
\* votes together than there are validators.
LEMMA OneVoteEach ==
    ASSUME TypeInv, VotesInv, NEW h \in Hashes, NEW S \in SUBSET cast, NEW T \in SUBSET cast,
           S \cap T = {}, \A v \in S \cup T : v.hash = h
    PROVE  /\ IsFiniteSet(S) /\ IsFiniteSet(T)
           /\ Cardinality(S) \in Nat /\ Cardinality(T) \in Nat
           /\ Cardinality(S) + Cardinality(T) <= Len(Validators)
<1> DEFINE voter == [v \in S \cup T |-> v.by]
<1>1. IsFiniteSet(S) /\ IsFiniteSet(T)
  BY FS_Subset DEF TypeInv
<1>2. Cardinality(S) \in Nat /\ Cardinality(T) \in Nat
  BY <1>1, FS_CardinalityType
<1>3. IsFiniteSet(RangeOf(Validators)) /\ Cardinality(RangeOf(Validators)) = Len(Validators)
  BY DistinctCardinality, ValidatorsAssumption DEF Distinct
<1>4. voter \in Injection(S \cup T, RangeOf(Validators))
  BY DEF Injection, IsInjective, VotesInv
<1>5. Cardinality(S \cup T) <= Len(Validators)
  BY <1>3, <1>4, FS_Injection
<1>6. Cardinality(S \cup T) = Cardinality(S) + Cardinality(T) - Cardinality(S \cap T)
  BY <1>1, FS_Union
<1>7. Cardinality(S \cap T) = 0
  BY FS_EmptySet
<1> QED
  BY <1>1, <1>2, <1>5, <1>6, <1>7

\* The cast votes on a block, for and against.
LEMMA CountsBounded ==
    ASSUME TypeInv, VotesInv, NEW R \in SUBSET cast, NEW h \in Hashes
    PROVE  /\ \A a \in BOOLEAN : IsFiniteSet(VotesFor(R, h, a)) /\ Cardinality(VotesFor(R, h, a)) \in Nat
           /\ Cardinality(VotesFor(R, h, TRUE)) + Cardinality(VotesFor(R, h, FALSE)) <= Len(Validators)
<1>1. VotesFor(R, h, TRUE) \in SUBSET cast /\ VotesFor(R, h, FALSE) \in SUBSET cast
  BY DEF VotesFor
<1>2. /\ VotesFor(R, h, TRUE) \cap VotesFor(R, h, FALSE) = {}
      /\ \A v \in VotesFor(R, h, TRUE) \cup VotesFor(R, h, FALSE) : v.hash = h
  BY DEF VotesFor
<1>3. /\ IsFiniteSet(VotesFor(R, h, TRUE)) /\ IsFiniteSet(VotesFor(R, h, FALSE))
      /\ Cardinality(VotesFor(R, h, TRUE)) \in Nat /\ Cardinality(VotesFor(R, h, FALSE)) \in Nat
      /\ Cardinality(VotesFor(R, h, TRUE)) + Cardinality(VotesFor(R, h, FALSE)) <= Len(Validators)
  BY <1>1, <1>2, OneVoteEach
<1> QED
  BY <1>3

\* One vote more counts in its own tally only.
LEMMA OneMore ==
    ASSUME TypeInv, VotesInv, NEW R \in SUBSET cast, NEW v \in cast, v \notin R,
           v.hash \in Hashes, v.approve \in BOOLEAN
    PROVE  \A h \in Hashes, a \in BOOLEAN :
             Cardinality(VotesFor(R \cup {v}, h, a)) =
               Cardinality(VotesFor(R, h, a)) + (IF h = v.hash /\ a = v.approve THEN 1 ELSE 0)
<1> SUFFICES ASSUME NEW h \in Hashes, NEW a \in BOOLEAN
             PROVE  Cardinality(VotesFor(R \cup {v}, h, a)) =
                      Cardinality(VotesFor(R, h, a)) + (IF h = v.hash /\ a = v.approve THEN 1 ELSE 0)
  OBVIOUS
<1>1. IsFiniteSet(VotesFor(R, h, a)) /\ Cardinality(VotesFor(R, h, a)) \in Nat
  BY CountsBounded
<1>2. CASE h = v.hash /\ a = v.approve
  <2>1. VotesFor(R \cup {v}, h, a) = VotesFor(R, h, a) \cup {v} /\ v \notin VotesFor(R, h, a)
    BY <1>2 DEF VotesFor
  <2>2. Cardinality(VotesFor(R, h, a) \cup {v}) = Cardinality(VotesFor(R, h, a)) + 1
    BY <1>1, <2>1, FS_AddElement
  <2> QED BY <1>1, <1>2, <2>1, <2>2
<1>3. CASE ~(h = v.hash /\ a = v.approve)
  <2>1. VotesFor(R \cup {v}, h, a) = VotesFor(R, h, a)
    BY <1>3 DEF VotesFor
  <2> QED BY <1>1, <1>3, <2>1
<1> QED
  BY <1>2, <1>3

LEMMA QuorumSize == Quorum \in Nat /\ Quorum > 0 /\ 2 * Quorum > Len(Validators)
<1>1. Len(Validators) \in Nat
  BY ValidatorsAssumption
<1> QED BY <1>1 DEF Quorum

\* An event is among the decisions after one is emitted, when it was before or
\* is the one.
LEMMA AppendMember ==
    ASSUME NEW s \in Seq(Decision), NEW d \in Decision
    PROVE  /\ DOMAIN Append(s, d) = 1 .. Len(s) + 1 /\ DOMAIN s = 1 .. Len(s) /\ Len(s) \in Nat
           /\ \A i \in 1 .. Len(s) : Append(s, d)[i] = s[i]
           /\ Append(s, d)[Len(s) + 1] = d
           /\ \A e : (\E i \in DOMAIN Append(s, d) : Append(s, d)[i] = e)
                      <=> e = d \/ \E i \in DOMAIN s : s[i] = e
<1>1. /\ DOMAIN Append(s, d) = 1 .. Len(s) + 1 /\ DOMAIN s = 1 .. Len(s) /\ Len(s) \in Nat
      /\ \A i \in 1 .. Len(s) : Append(s, d)[i] = s[i]
      /\ Append(s, d)[Len(s) + 1] = d
  BY AppendProperties
<1>2. 1 .. Len(s) + 1 = (1 .. Len(s)) \cup {Len(s) + 1}
  BY <1>1
<1> HIDE DEF Decision
<1> QED
  BY <1>1, <1>2

\* A block without a decision is no event's block.
LEMMA UndecidedHasNoEvent ==
    ASSUME TypeInv, NEW n \in Nodes, NEW h \in Hashes, ~DecidedAny(n, h)
    PROVE  \A i \in DOMAIN decisions[n] : decisions[n][i].hash # h
<1>1. \A i \in DOMAIN decisions[n] : decisions[n][i] \in Decision
  BY ElementOfSeq, LenProperties DEF TypeInv
<1>2. ASSUME NEW i \in DOMAIN decisions[n], decisions[n][i].hash = h
      PROVE  \E a \in BOOLEAN : decisions[n][i] = [hash |-> h, approved |-> a]
  BY <1>1, <1>2 DEF Decision
<1> QED
  BY <1>2 DEF DecidedAny, Decided

-----------------------------------------------------------------------------
\* A node that is asked once on a block casts a vote no earlier one resembles.
LEMMA VoteOnBlockKeeps ==
    ASSUME OnceEach, TypeInv, VotesInv, TallyInv, DecideOnce,
           NEW n \in Voters, NEW h \in Hashes, NEW approve \in BOOLEAN, VoteOnBlock(n, h, approve)
    PROVE  VotesInv' /\ TallyInv' /\ DecideOnce'
<1> DEFINE earlier == {v \in cast : v.by = n /\ v.hash = h}
           vote == [by |-> n, hash |-> h, approve |-> approve, nth |-> Cardinality(earlier) + 1]
<1>1. IsFiniteSet(earlier) /\ Cardinality(earlier) \in Nat
  BY FS_Subset, FS_CardinalityType DEF TypeInv
<1>2. Cardinality(earlier) + 1 <= 1 /\ cast' = cast \cup {vote} /\ n \in RangeOf(Validators)
  BY DEF VoteOnBlock, OnceEach, IsValidator
<1>3. earlier = {}
  BY <1>1, <1>2, FS_EmptySet
<1>4. VotesInv'
  <2>1. UNCHANGED received
    BY DEF VoteOnBlock
  <2>2. \A v \in cast : ~(v.by = n /\ v.hash = h)
    BY <1>3
  <2>3. vote.by = n /\ vote.hash = h
    OBVIOUS
  <2> HIDE DEF vote
  <2> QED
    BY <1>2, <2>1, <2>2, <2>3 DEF VotesInv
<1>5. UNCHANGED <<received, decisions, pendingVotes, edits>>
  BY DEF VoteOnBlock
<1>6. TallyInv' /\ DecideOnce'
  BY <1>5 DEF TallyInv, DecideOnce, Decided, DecidedAny
<1> QED
  BY <1>4, <1>6

\* One vote more in the tally of its block at one node; a decision is emitted
\* only for a block that has none.
LEMMA AddVoteKeeps ==
    ASSUME OnceEach, TypeInv, UneditedInv, VotesInv, TallyInv, DecideOnce,
           NEW n \in Nodes, NEW v \in Vote, AddVote(n, v), TypeInv'
    PROVE  VotesInv' /\ TallyInv' /\ DecideOnce'
<1> DEFINE h == v.hash
           t == Tally(n, v)
           o == Outcome(n, t)
           d == [hash |-> h, approved |-> o = "approve"]
<1>1. /\ v \in cast /\ v \notin received[n]
      /\ received' = [received EXCEPT ![n] = @ \cup {v}]
      /\ pendingVotes' = [pendingVotes EXCEPT ![n][h] = IF o = "open" THEN t ELSE NoVotes]
      /\ decisions' = IF o = "open" THEN decisions ELSE [decisions EXCEPT ![n] = Append(@, d)]
      /\ UNCHANGED <<validatorSet, cast, edits>>
  BY DEF AddVote, OnceEach
<1>2. VotesInv'
  BY <1>1 DEF VotesInv, TypeInv
<1>3. h \in Hashes /\ v.approve \in BOOLEAN /\ d \in Decision
  BY DEF Vote, Decision
<1>4. CASE edits # 0
  BY <1>1, <1>2, <1>4 DEF TallyInv, DecideOnce
<1>5. CASE edits = 0
  <2> DEFINE R == received[n]
             yes == Cardinality(VotesFor(R, h, TRUE))
             no == Cardinality(VotesFor(R, h, FALSE))
             yesNow == Cardinality(VotesFor(R \cup {v}, h, TRUE))
             noNow == Cardinality(VotesFor(R \cup {v}, h, FALSE))
             old == pendingVotes[n][h]
  <2>1. R \in SUBSET cast /\ R \cup {v} \in SUBSET cast /\ received'[n] = R \cup {v}
    BY <1>1 DEF VotesInv, TypeInv
  <2>2. /\ yes \in Nat /\ no \in Nat
        /\ yesNow + noNow <= Len(Validators) /\ Len(Validators) \in Nat
        /\ yesNow = yes + (IF v.approve THEN 1 ELSE 0)
        /\ noNow = no + (IF v.approve THEN 0 ELSE 1)
    <3>1. yes \in Nat /\ no \in Nat
      BY <1>3, <2>1, CountsBounded
    <3>2. yesNow + noNow <= Len(Validators) /\ Len(Validators) \in Nat
      <4>1. yesNow + noNow <= Len(Validators)
        BY <1>3, <2>1, CountsBounded
      <4> QED BY <4>1, ValidatorsAssumption, LenProperties
    <3>3. \A k \in Hashes, a \in BOOLEAN :
             Cardinality(VotesFor(R \cup {v}, k, a)) =
               Cardinality(VotesFor(R, k, a)) + (IF k = h /\ a = v.approve THEN 1 ELSE 0)
      BY <1>1, <1>3, <2>1, OneMore
    <3>4. yesNow = yes + (IF TRUE = v.approve THEN 1 ELSE 0) /\ noNow = no + (IF FALSE = v.approve THEN 1 ELSE 0)
      BY <1>3, <3>3
    <3> HIDE DEF yes, no, yesNow, noNow, R, h
    <3> QED BY <1>3, <3>1, <3>2, <3>4
  <2>3. /\ old.yes \in Nat /\ old.no \in Nat /\ t.yes \in Nat /\ t.no \in Nat
        /\ t.yes = old.yes + (IF v.approve THEN 1 ELSE 0)
        /\ t.no = old.no + (IF v.approve THEN 0 ELSE 1)
    BY <1>3 DEF TypeInv, Tally
  <2>4. o = IF t.yes >= Quorum THEN "approve" ELSE IF t.no >= Quorum THEN "reject" ELSE "open"
    BY <1>5 DEF Outcome, RequiredVotes, Quorum, UneditedInv
  <2>5. /\ ~DecidedAny(n, h) => old.yes <= yes /\ old.no <= no
        /\ DecidedAny(n, h) => old.yes + old.no + Quorum <= yes + no
        /\ Decided(n, h, TRUE) => yes >= Quorum
        /\ Decided(n, h, FALSE) => no >= Quorum
    BY <1>3, <1>5 DEF TallyInv, DecidedAny
  <2>6. ASSUME NEW m \in Nodes, NEW k \in Hashes, m # n \/ k # h
        PROVE  /\ pendingVotes'[m][k] = pendingVotes[m][k]
               /\ \A a \in BOOLEAN : Cardinality(VotesFor(received'[m], k, a))
                                      = Cardinality(VotesFor(received[m], k, a))
    <3>1. pendingVotes'[m][k] = pendingVotes[m][k]
      BY <1>1, <1>3, <2>6 DEF TypeInv
    <3>2. CASE m # n
      BY <1>1, <3>1, <3>2 DEF TypeInv
    <3>3. CASE m = n /\ k # h
      <4>1. \A a \in BOOLEAN : Cardinality(VotesFor(R \cup {v}, k, a)) = Cardinality(VotesFor(R, k, a)) + 0
        BY <1>1, <1>3, <2>1, <3>3, OneMore
      <4>2. \A a \in BOOLEAN : Cardinality(VotesFor(R, k, a)) \in Nat
        BY <2>1, CountsBounded
      <4>3. \A a \in BOOLEAN : Cardinality(VotesFor(R \cup {v}, k, a)) = Cardinality(VotesFor(R, k, a))
        BY <4>1, <4>2
      <4> HIDE DEF R
      <4>4. R = received[m] /\ R \cup {v} = received'[m]
        BY <2>1, <3>3 DEF R
      <4> QED BY <3>1, <4>3, <4>4
    <3> QED BY <2>6, <3>2, <3>3
  <2>7. \A m \in Nodes, k \in Hashes, a \in BOOLEAN :
            Decided(m, k, a)' <=> \/ Decided(m, k, a)
                                  \/ o # "open" /\ m = n /\ k = h /\ a = (o = "approve")
    <3>1. CASE o = "open"
      BY <1>1, <3>1 DEF Decided
    <3>2. CASE o # "open"
      <4>1. \A m \in Nodes : decisions'[m] = IF m = n THEN Append(decisions[n], d) ELSE decisions[m]
        BY <1>1, <3>2 DEF TypeInv
      <4>2. \A e : (\E i \in DOMAIN decisions'[n] : decisions'[n][i] = e)
                   <=> e = d \/ \E i \in DOMAIN decisions[n] : decisions[n][i] = e
        <5>1. decisions[n] \in Seq(Decision) /\ decisions'[n] = Append(decisions[n], d)
          BY <4>1 DEF TypeInv
        <5> HIDE DEF d
        <5>2. \A e : (\E i \in DOMAIN Append(decisions[n], d) : Append(decisions[n], d)[i] = e)
                     <=> e = d \/ \E i \in DOMAIN decisions[n] : decisions[n][i] = e
          BY <1>3, <5>1, AppendMember
        <5> QED BY <5>1, <5>2, Zenon
      <4>3. \A k, a : [hash |-> k, approved |-> a] = d <=> k = h /\ a = (o = "approve")
        OBVIOUS
      <4> HIDE DEF d
      <4> QED BY <3>2, <4>1, <4>2, <4>3 DEF Decided
    <3> QED BY <3>1, <3>2
  <2>8. pendingVotes'[n][h] = IF o = "open" THEN t ELSE NoVotes
    BY <1>1, <1>3 DEF TypeInv
  <2>9. \A a \in BOOLEAN : Cardinality(VotesFor(received'[n], h, a)) = IF a THEN yesNow ELSE noNow
    BY <2>1
  <2>10. v.approve \in BOOLEAN
    BY <1>3
  <2> HIDE DEF yes, no, yesNow, noNow, old, t, o, R
  <2>11. /\ yes \in Nat /\ no \in Nat /\ old.yes \in Nat /\ old.no \in Nat
         /\ t.yes \in Nat /\ t.no \in Nat /\ yesNow \in Nat /\ noNow \in Nat
         /\ yesNow + noNow <= Len(Validators) /\ Len(Validators) \in Nat
         /\ yesNow >= yes /\ noNow >= no
         /\ yesNow + noNow = yes + no + 1 /\ t.yes + t.no = old.yes + old.no + 1
         /\ old.yes <= yes => t.yes <= yesNow
         /\ old.no <= no => t.no <= noNow
    <3>1. CASE v.approve
      BY <2>2, <2>3, <3>1
    <3>2. CASE ~v.approve
      BY <2>2, <2>3, <3>2
    <3> QED BY <3>1, <3>2
  <2>12. DecidedAny(n, h) => o = "open"
    <3>1. DecidedAny(n, h) => t.yes + t.no + Quorum <= Len(Validators)
      <4> SUFFICES ASSUME DecidedAny(n, h) PROVE t.yes + t.no + Quorum <= Len(Validators)
        OBVIOUS
      <4>1. old.yes + old.no + Quorum <= yes + no
        BY <2>5
      <4> QED BY <2>11, <4>1, QuorumSize
    <3>2. DecidedAny(n, h) => t.yes < Quorum /\ t.no < Quorum
      BY <2>2, <2>3, <3>1, QuorumSize
    <3> QED BY <2>3, <2>4, <3>2, QuorumSize
  <2>13. ASSUME NEW m \in Nodes, NEW k \in Hashes
         PROVE  /\ ~DecidedAny(m, k)' =>
                      /\ pendingVotes'[m][k].yes <= Cardinality(VotesFor(received'[m], k, TRUE))
                      /\ pendingVotes'[m][k].no <= Cardinality(VotesFor(received'[m], k, FALSE))
                /\ DecidedAny(m, k)' =>
                      pendingVotes'[m][k].yes + pendingVotes'[m][k].no + Quorum
                        <= Cardinality(VotesFor(received'[m], k, TRUE)) + Cardinality(VotesFor(received'[m], k, FALSE))
                /\ \A a \in BOOLEAN :
                      Decided(m, k, a)' => Cardinality(VotesFor(received'[m], k, a)) >= Quorum
    <3>1. CASE m # n \/ k # h
      <4>1. DecidedAny(m, k)' <=> DecidedAny(m, k)
        BY <2>7, <3>1 DEF DecidedAny
      <4>2. \A a \in BOOLEAN : Decided(m, k, a)' <=> Decided(m, k, a)
        BY <2>7, <3>1
      <4> QED BY <1>5, <2>6, <3>1, <4>1, <4>2 DEF TallyInv
    <3>2. CASE m = n /\ k = h
      <4>1. CASE o = "open"
        <5>1. \A a \in BOOLEAN : Decided(n, h, a)' <=> Decided(n, h, a)
          BY <1>3, <2>7, <4>1
        <5>2. DecidedAny(n, h)' <=> DecidedAny(n, h)
          BY <5>1 DEF DecidedAny
        <5>3. pendingVotes'[n][h] = t
          BY <2>8, <4>1
        <5>4. /\ ~DecidedAny(n, h) => t.yes <= yesNow /\ t.no <= noNow
              /\ DecidedAny(n, h) => t.yes + t.no + Quorum <= yesNow + noNow
              /\ Decided(n, h, TRUE) => yesNow >= Quorum
              /\ Decided(n, h, FALSE) => noNow >= Quorum
          <6>1. ASSUME DecidedAny(n, h) PROVE t.yes + t.no + Quorum <= yesNow + noNow
            <7>1. old.yes + old.no + Quorum <= yes + no
              BY <2>5, <6>1
            <7> QED BY <2>11, <7>1, QuorumSize
          <6>2. (~DecidedAny(n, h) => t.yes <= yesNow /\ t.no <= noNow)
            BY <2>5, <2>11
          <6>3. /\ Decided(n, h, TRUE) => yesNow >= Quorum
                /\ Decided(n, h, FALSE) => noNow >= Quorum
            <7>1. /\ Decided(n, h, TRUE) => yes >= Quorum
                  /\ Decided(n, h, FALSE) => no >= Quorum
              BY <2>5
            <7>2. (yes >= Quorum => yesNow >= Quorum) /\ (no >= Quorum => noNow >= Quorum)
              BY <2>11, QuorumSize
            <7> QED BY <7>1, <7>2
          <6> QED BY <6>1, <6>2, <6>3
        <5> QED BY <2>9, <3>2, <5>1, <5>2, <5>3, <5>4
      <4>2. CASE o # "open"
        <5>1. \A a \in BOOLEAN : Decided(n, h, a)' <=> a = (o = "approve")
          BY <1>3, <2>7, <2>12, <4>2 DEF DecidedAny
        <5>2. DecidedAny(n, h)'
          BY <5>1 DEF DecidedAny
        <5>3. pendingVotes'[n][h].yes = 0 /\ pendingVotes'[n][h].no = 0
          BY <2>8, <4>2 DEF NoVotes
        <5>4. IF o = "approve" THEN yesNow >= Quorum ELSE noNow >= Quorum
          BY <2>2, <2>3, <2>4, <2>5, <2>10, <2>12, <4>2, QuorumSize
        <5>5. 0 + 0 + Quorum <= yesNow + noNow
          BY <2>2, <2>10, <5>4, QuorumSize
        <5> QED BY <2>9, <3>2, <5>1, <5>2, <5>3, <5>4, <5>5
      <4> QED BY <4>1, <4>2
    <3> QED BY <3>1, <3>2
  <2>14. TallyInv'
    BY <2>13 DEF TallyInv
  <2>15. DecideOnce'
    <3>1. CASE o = "open"
      BY <1>1, <3>1 DEF DecideOnce
    <3>2. CASE o # "open"
      <4> DEFINE s == decisions[n]
      <4>1. s \in Seq(Decision) /\ \A i \in DOMAIN s : s[i].hash # h
        BY <1>3, <2>12, <3>2, UndecidedHasNoEvent DEF TypeInv
      <4>2. \A m \in Nodes : decisions'[m] = IF m = n THEN Append(s, d) ELSE decisions[m]
        BY <1>1, <3>2 DEF TypeInv
      <4>3. d.hash = h
        OBVIOUS
      <4>4. \A m \in Nodes : \A i, j \in DOMAIN decisions[m] :
               decisions[m][i].hash = decisions[m][j].hash => i = j
        BY <1>5 DEF DecideOnce
      <4> HIDE DEF s, d, h
      <4>5. /\ DOMAIN Append(s, d) = 1 .. Len(s) + 1 /\ DOMAIN s = 1 .. Len(s) /\ Len(s) \in Nat
            /\ \A i \in 1 .. Len(s) : Append(s, d)[i] = s[i]
            /\ Append(s, d)[Len(s) + 1] = d
        BY <1>3, <4>1, AppendMember
      <4>6. \A i, j \in DOMAIN Append(s, d) : Append(s, d)[i].hash = Append(s, d)[j].hash => i = j
        <5>1. \A i, j \in DOMAIN s : s[i].hash = s[j].hash => i = j
          BY <4>4 DEF s
        <5> SUFFICES ASSUME NEW i \in 1 .. Len(s) + 1, NEW j \in 1 .. Len(s) + 1,
                            Append(s, d)[i].hash = Append(s, d)[j].hash
                     PROVE  i = j
          BY <4>5
        <5>2. CASE i \in 1 .. Len(s) /\ j \in 1 .. Len(s)
          BY <4>5, <5>1, <5>2
        <5>3. CASE i = Len(s) + 1 /\ j = Len(s) + 1
          BY <5>3
        <5>4. CASE i = Len(s) + 1 /\ j \in 1 .. Len(s)
          BY <4>1, <4>3, <4>5, <5>4
        <5>5. CASE i \in 1 .. Len(s) /\ j = Len(s) + 1
          BY <4>1, <4>3, <4>5, <5>5
        <5> QED BY <4>5, <5>2, <5>3, <5>4, <5>5
      <4> QED BY <4>2, <4>4, <4>6 DEF DecideOnce
    <3> QED BY <3>1, <3>2
  <2> QED
    BY <1>2, <2>14, <2>15
<1> QED
  BY <1>4, <1>5
LEMMA InitIInv == Init => IInv
<1> SUFFICES ASSUME Init PROVE IInv
  OBVIOUS
<1>1. VotesInv
  BY DEF Init, VotesInv
<1>2. \A n \in Nodes, h \in Hashes, a \in BOOLEAN : ~Decided(n, h, a)
  BY DEF Init, Decided
<1>3. ASSUME NEW n \in Nodes, NEW h \in Hashes, NEW a \in BOOLEAN
      PROVE  Cardinality(VotesFor(received[n], h, a)) = 0
  BY FS_EmptySet DEF Init, VotesFor
<1>4. \A n \in Nodes, h \in Hashes : pendingVotes[n][h].yes = 0 /\ pendingVotes[n][h].no = 0
  BY DEF Init, NoVotes
<1>5. TallyInv
  <2>1. ASSUME NEW n \in Nodes, NEW h \in Hashes
        PROVE  /\ ~DecidedAny(n, h)
               /\ pendingVotes[n][h].yes <= Cardinality(VotesFor(received[n], h, TRUE))
               /\ pendingVotes[n][h].no <= Cardinality(VotesFor(received[n], h, FALSE))
    <3>1. ~DecidedAny(n, h)
      BY <1>2 DEF DecidedAny
    <3>2. 0 <= Cardinality(VotesFor(received[n], h, TRUE)) /\ 0 <= Cardinality(VotesFor(received[n], h, FALSE))
      <4>1. Cardinality(VotesFor(received[n], h, TRUE)) = 0 /\ Cardinality(VotesFor(received[n], h, FALSE)) = 0
        BY <1>3
      <4>2. 0 <= 0
        OBVIOUS
      <4> QED BY <4>1, <4>2, Zenon
    <3> QED BY <1>4, <3>1, <3>2
  <2> QED
    BY <1>2, <2>1 DEF TallyInv
<1>6. DecideOnce
  BY DEF Init, DecideOnce
<1> QED
  BY <1>1, <1>5, <1>6, InitTypeInv, UneditedKept DEF IInv

LEMMA NextIInv == OnceEach /\ IInv /\ [Next]_vars => IInv'
<1> SUFFICES ASSUME OnceEach, IInv, [Next]_vars PROVE IInv'
  OBVIOUS
<1> USE DEF IInv
<1>1. TypeInv' /\ UneditedInv'
  BY NextTypeInv, UneditedKept
<1>2. ASSUME NEW n \in Voters, NEW h \in Hashes, NEW approve \in BOOLEAN, VoteOnBlock(n, h, approve)
      PROVE  IInv'
  BY <1>1, <1>2, VoteOnBlockKeeps
<1>3. ASSUME NEW n \in Nodes, NEW v \in Vote, AddVote(n, v)
      PROVE  IInv'
  BY <1>1, <1>3, AddVoteKeeps
<1>4. ASSUME UNCHANGED <<pendingVotes, cast, received, decisions>>, edits' = 0 => edits = 0
      PROVE  IInv'
  <2>1. VotesInv'
    BY <1>4 DEF VotesInv
  <2>2. TallyInv' /\ DecideOnce'
    BY <1>4 DEF TallyInv, DecideOnce, Decided, DecidedAny
  <2> QED
    BY <1>1, <2>1, <2>2
<1>5. ASSUME NEW n \in Nodes, GetNextValidator(n)
      PROVE  IInv'
  BY <1>4, <1>5 DEF GetNextValidator
<1>6. ASSUME NEW n \in Nodes, NEW v \in Voters, AddValidator(n, v)
      PROVE  IInv'
  BY <1>4, <1>6 DEF AddValidator, TypeInv
<1>7. ASSUME NEW n \in Nodes, NEW i \in DOMAIN validatorSet[n], RemoveValidator(n, i)
      PROVE  IInv'
  BY <1>4, <1>7 DEF RemoveValidator, TypeInv
<1>8. CASE UNCHANGED vars
  BY <1>4, <1>8 DEF vars
<1> HIDE DEF IInv
<1> QED
  BY <1>2, <1>3, <1>5, <1>6, <1>7, <1>8 DEF Next

\* When every validator is asked once per block and no vote is delivered twice,
\* a node emits consensusReached at most once per block until an edit: a
\* decision deletes the entry, and the votes that come later are too few.
THEOREM DecidesOnce ==
    ASSUME OnceEach
    PROVE  Spec => []DecideOnce
<1>1. IInv => DecideOnce
  BY DEF IInv
<1>2. IInv /\ [Next]_vars => IInv'
  BY NextIInv
<1> QED
  BY <1>1, <1>2, InitIInv, PTL DEF Spec

\* Under the same conditions no block is approved by one node and rejected by
\* another: each decision rests on a quorum of one-vote-each validators, and
\* two quorums have more votes than there are validators.
THEOREM AgreementHolds ==
    ASSUME OnceEach
    PROVE  Spec => []Agreement
<1>1. IInv => Agreement
  <2> SUFFICES ASSUME IInv, edits = 0, NEW n \in Nodes, NEW m \in Nodes, NEW h \in Hashes,
                      Decided(n, h, TRUE), Decided(m, h, FALSE)
               PROVE  FALSE
    BY DEF Agreement
  <2> DEFINE S == VotesFor(received[n], h, TRUE)
             T == VotesFor(received[m], h, FALSE)
  <2>1. Cardinality(S) >= Quorum /\ Cardinality(T) >= Quorum
    BY DEF IInv, TallyInv
  <2>2. S \in SUBSET cast /\ T \in SUBSET cast /\ S \cap T = {} /\ \A v \in S \cup T : v.hash = h
    BY DEF IInv, VotesInv, VotesFor
  <2> HIDE DEF S, T
  <2>3. /\ Cardinality(S) \in Nat /\ Cardinality(T) \in Nat
        /\ Cardinality(S) + Cardinality(T) <= Len(Validators)
    BY <2>2, OneVoteEach DEF IInv
  <2>4. Len(Validators) \in Nat
    BY ValidatorsAssumption
  <2> QED
    BY <2>1, <2>3, <2>4, QuorumSize
<1>2. IInv /\ [Next]_vars => IInv'
  BY NextIInv
<1> QED
  BY <1>1, <1>2, InitIInv, PTL DEF Spec
=============================================================================
