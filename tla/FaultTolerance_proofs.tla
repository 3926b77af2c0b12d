------------------------- MODULE FaultTolerance_proofs -------------------------
(***************************************************************************)
(* Theorems about the parts of core/consensus that watch over a network of    *)
(* validators, each for every value of its constants.  As in the repository   *)
(* nothing connects the parts, and each is an instance with variables of its   *)
(* own.                                                                      *)
(***************************************************************************)
EXTENDS MCFaultTolerance, FiniteSetTheorems, SequenceTheorems, WellFoundedInduction, TLAPS

-----------------------------------------------------------------------------
\* AutomaticFailover.  Every callback maps the record Now to the one it leaves, so
\* the lemmas are about records, and Sound is what every operation keeps of them.
FailoverFields == {"nodes", "status", "failures", "priority", "flagged", "leader", "failover", "timers"}
WatchShaped(s) == DOMAIN s = FailoverFields /\ s = [f \in FailoverFields |-> s[f]]

Watched(s) == {s.nodes[i] : i \in DOMAIN s.nodes}

\* Nothing is assumed of the choices of an election but that priorities are
\* bounded, as the sum of a role's weight, a reputation and a chance of ten is.
FailoverConstants ==
    /\ Watcher \in Nodes /\ RetryAttempts \in Int
    /\ \E bound \in Nat : \A n \in Nodes : Priorities[n] # {} /\ Priorities[n] \subseteq 0 .. bound

\* A check asks for at least one active node.
ActiveNeeded == \A c \in Configs : c.minActive \in Nat \ {0}

NodesTyped(s) ==
    /\ s.nodes \in Seq(Nodes)
    /\ s.status \in [Nodes -> TheFailover!Status]
    /\ s.failures \in [Nodes -> Nat]
    /\ DOMAIN s.priority = Nodes /\ \A n \in Nodes : s.priority[n] \in Priorities[n]

LeaderTyped(s) == s.leader \in Nodes \cup {None} /\ s.failover \in BOOLEAN

FailoverTimersTyped(s) == TheFailover!IsABag(s.timers) /\ DOMAIN s.timers \subseteq TheFailover!Kinds \X Nodes

WatchTyped(s) == WatchShaped(s) /\ NodesTyped(s) /\ LeaderTyped(s) /\ FailoverTimersTyped(s)

OneFlag(s) ==
    /\ s.flagged \subseteq Watched(s)
    /\ \A m, n \in s.flagged : m = n
    /\ \A n \in s.flagged : s.leader \in {n, None}

RecoveriesPending(s) == \A n \in Watched(s) : s.status[n] = "RECOVERING" => <<"recovered", n>> \in DOMAIN s.timers

Sound(s) == WatchTyped(s) /\ OneFlag(s) /\ RecoveriesPending(s)

\* What the watch over the nodes tells apart is the same, but that more is pending.
SameWatch(s, t) ==
    /\ t.nodes = s.nodes /\ t.status = s.status /\ t.failures = s.failures /\ t.priority = s.priority
    /\ DOMAIN s.timers \subseteq DOMAIN t.timers

\* The least of a set of numbers: induction over a list is an argument about the
\* least length at which it fails.
LEMMA LessThanWellFounded ==
    \E R : IsWellFoundedOn(R, Nat) /\ \A j, k \in Nat : j < k => <<j, k>> \in R
<1> DEFINE R == OpToRel(<, Nat)
<1>1. IsWellFoundedOn(R, Nat)
  BY NatLessThanWellFounded
<1>2. \A j, k \in Nat : j < k => <<j, k>> \in R
  BY DEF OpToRel
<1> HIDE DEF R
<1> QED  BY <1>1, <1>2, Zenon

LEMMA LeastNatural ==
    ASSUME NEW T, T \subseteq Nat, T # {}
    PROVE  \E m \in T : \A k \in T : m <= k
<1>1. PICK R : IsWellFoundedOn(R, Nat) /\ \A j, k \in Nat : j < k => <<j, k>> \in R
  BY LessThanWellFounded
<1>2. IsWellFoundedOn(R, Nat)
  BY <1>1
<1>3. PICK m \in T : \A k \in T : ~ (<<k, m>> \in R)
  BY <1>2, WFMin
<1>4. \A j, k \in Nat : j < k => <<j, k>> \in R
  BY <1>1, Zenon
<1>5. ASSUME NEW k \in T PROVE m <= k
  <2>1. ~(k < m)
    BY <1>3, <1>4
  <2> QED  BY <2>1
<1> QED  BY <1>5

\* Its bag of timers.
LEMMA FailoverBags ==
    ASSUME NEW B, TheFailover!IsABag(B), NEW x, NEW S
    PROVE  /\ TheFailover!IsABag(TheFailover!BagRemove(B, x))
           /\ DOMAIN TheFailover!BagRemove(B, x) \subseteq DOMAIN B
           /\ DOMAIN B \ {x} \subseteq DOMAIN TheFailover!BagRemove(B, x)
           /\ TheFailover!IsABag(TheFailover!(+)(B, TheFailover!SetToBag(S)))
           /\ DOMAIN TheFailover!(+)(B, TheFailover!SetToBag(S)) = DOMAIN B \cup S
<1>1. \A e \in DOMAIN B : B[e] \in Nat /\ B[e] > 0
  BY DEF TheFailover!IsABag
<1>2. TheFailover!IsABag(TheFailover!BagRemove(B, x))
  BY <1>1 DEF TheFailover!IsABag, TheFailover!BagRemove
<1>3. /\ DOMAIN TheFailover!BagRemove(B, x) \subseteq DOMAIN B
      /\ DOMAIN B \ {x} \subseteq DOMAIN TheFailover!BagRemove(B, x)
  BY DEF TheFailover!BagRemove
<1>4. TheFailover!IsABag(TheFailover!(+)(B, TheFailover!SetToBag(S)))
  BY <1>1 DEF TheFailover!IsABag, TheFailover!(+), TheFailover!SetToBag
<1> QED  BY <1>2, <1>3, <1>4 DEF TheFailover!(+), TheFailover!SetToBag

\* The operations on a record, field by field.
LEMMA ScheduleKeeps ==
    ASSUME NEW s, WatchTyped(s), NEW kind \in TheFailover!Kinds, NEW S, S \subseteq Nodes
    PROVE  LET t == TheFailover!Schedule(s, kind, S)
           IN  /\ WatchTyped(t) /\ SameWatch(s, t)
               /\ t.flagged = s.flagged /\ t.leader = s.leader /\ t.failover = s.failover
               /\ DOMAIN t.timers = DOMAIN s.timers \cup ({kind} \X S)
<1> DEFINE t == TheFailover!Schedule(s, kind, S)
           added == TheFailover!(+)(s.timers, TheFailover!SetToBag({kind} \X S))
<1>1. t = [s EXCEPT !.timers = added]
  BY DEF TheFailover!Schedule
<1>2. TheFailover!IsABag(added) /\ DOMAIN added = DOMAIN s.timers \cup ({kind} \X S)
  BY FailoverBags DEF WatchTyped, FailoverTimersTyped
<1> HIDE DEF added, t
<1>3. /\ WatchShaped(t) /\ t.timers = added
      /\ t.nodes = s.nodes /\ t.status = s.status /\ t.failures = s.failures /\ t.priority = s.priority
      /\ t.flagged = s.flagged /\ t.leader = s.leader /\ t.failover = s.failover
  BY <1>1 DEF WatchTyped, WatchShaped, FailoverFields
<1>4. WatchTyped(t)
  BY <1>2, <1>3 DEF WatchTyped, NodesTyped, LeaderTyped, FailoverTimersTyped
<1> QED  BY <1>2, <1>3, <1>4 DEF SameWatch, t

LEMMA FailsKeeps ==
    ASSUME NEW s, WatchTyped(s), NEW n \in Nodes, RetryAttempts \in Int
    PROVE  LET t == TheFailover!Fails(s, n)
           IN  /\ WatchTyped(t) /\ t.nodes = s.nodes /\ t.status = s.status /\ t.timers = s.timers
               /\ t.flagged = s.flagged /\ t.leader = s.leader /\ t.failover = s.failover
               /\ t.priority = s.priority
<1> DEFINE t == TheFailover!Fails(s, n)
           k == s.failures[n]
           more == IF k < 3 \/ k < RetryAttempts THEN k + 1 ELSE k
<1>1. t = [s EXCEPT !.failures[n] = more]
  BY DEF TheFailover!Fails
<1>2. more \in Nat
  BY DEF WatchTyped, NodesTyped
<1> HIDE DEF more, t
<1>3. /\ WatchShaped(t) /\ t.failures = [s.failures EXCEPT ![n] = more]
      /\ t.nodes = s.nodes /\ t.status = s.status /\ t.timers = s.timers /\ t.priority = s.priority
      /\ t.flagged = s.flagged /\ t.leader = s.leader /\ t.failover = s.failover
  BY <1>1 DEF WatchTyped, WatchShaped, FailoverFields
<1>4. WatchTyped(t)
  BY <1>2, <1>3 DEF WatchTyped, NodesTyped, LeaderTyped, FailoverTimersTyped
<1> QED  BY <1>3, <1>4 DEF t

LEMMA InWatched == \A s, st : TheFailover!In(s, st) = {n \in Watched(s) : s.status[n] = st}
BY DEF TheFailover!In, TheFailover!ToSet, Watched

LEMMA WatchedNodes ==
    ASSUME NEW s, NodesTyped(s)
    PROVE  Watched(s) \subseteq Nodes
BY DEF NodesTyped, Watched

\* An election among active nodes has a winner: priorities are bounded, so one is
\* the highest.
LEMMA SomeoneWins ==
    ASSUME FailoverConstants, NEW s, WatchTyped(s), TheFailover!In(s, "ACTIVE") # {}
    PROVE  \E n \in TheFailover!In(s, "ACTIVE") :
              \A m \in TheFailover!In(s, "ACTIVE") : s.priority[n] >= s.priority[m]
<1> DEFINE Running == TheFailover!In(s, "ACTIVE")
           T == {b \in Nat : \A n \in Running : s.priority[n] <= b}
<1>1. Running \subseteq Nodes
  BY InWatched, WatchedNodes DEF WatchTyped
<1>2. PICK bound \in Nat : \A n \in Nodes : Priorities[n] \subseteq 0 .. bound
  BY DEF FailoverConstants
<1>3. \A n \in Running : s.priority[n] \in 0 .. bound
  BY <1>1, <1>2 DEF WatchTyped, NodesTyped
<1> HIDE DEF Running
<1>4. bound \in T
  BY <1>3
<1>5. PICK b \in T : \A k \in T : b <= k
  <2> HIDE DEF T
  <2>1. T \subseteq Nat
    BY DEF T
  <2> QED  BY <1>4, <2>1, LeastNatural
<1>6. b \in Nat /\ \A n \in Running : s.priority[n] <= b
  OBVIOUS
<1>7. CASE b = 0
  BY <1>3, <1>6, <1>7 DEF Running
<1>8. CASE b # 0
  <2>1. b - 1 \in Nat /\ b - 1 \notin T
    BY <1>5, <1>6, <1>8
  <2>2. PICK n \in Running : ~(s.priority[n] <= b - 1)
    BY <2>1
  <2>3. s.priority[n] \in Int /\ s.priority[n] >= b
    BY <1>3, <1>6, <2>1, <2>2
  <2>4. \A m \in Running : s.priority[n] >= s.priority[m]
    BY <1>3, <1>6, <2>3
  <2> QED  BY <2>4 DEF Running
<1> QED  BY <1>7, <1>8

LEMMA ElectKeeps ==
    ASSUME FailoverConstants, NEW s, WatchTyped(s)
    PROVE  LET t == TheFailover!Elect(s)
           IN  /\ WatchTyped(t) /\ SameWatch(s, t) /\ t.timers = s.timers
               /\ \/ t = s /\ TheFailover!In(s, "ACTIVE") = {}
                  \/ \E w \in TheFailover!In(s, "ACTIVE") : t.flagged = {w} /\ t.leader = w
<1> DEFINE t == TheFailover!Elect(s)
           w == CHOOSE n \in TheFailover!In(s, "ACTIVE") :
                   \A m \in TheFailover!In(s, "ACTIVE") : s.priority[n] >= s.priority[m]
<1>1. CASE TheFailover!In(s, "ACTIVE") = {}
  <2>1. t = s
    BY <1>1 DEF TheFailover!Elect
  <2> HIDE DEF t
  <2>2. WatchTyped(t) /\ SameWatch(s, t) /\ t.timers = s.timers
    BY <2>1 DEF SameWatch
  <2> QED  BY <1>1, <2>1, <2>2 DEF t
<1>2. CASE TheFailover!In(s, "ACTIVE") # {}
  <2>1. t = [s EXCEPT !.flagged = {w}, !.leader = w, !.failover = FALSE]
    BY <1>2 DEF TheFailover!Elect
  <2>2. w \in TheFailover!In(s, "ACTIVE")
    <3> DEFINE Highest(n) == \A m \in TheFailover!In(s, "ACTIVE") : s.priority[n] >= s.priority[m]
    <3>1. \E n \in TheFailover!In(s, "ACTIVE") : Highest(n)
      BY <1>2, SomeoneWins
    <3>2. w = CHOOSE n \in TheFailover!In(s, "ACTIVE") : Highest(n)
      OBVIOUS
    <3> HIDE DEF Highest, w
    <3> QED  BY <3>1, <3>2
  <2> HIDE DEF t, w
  <2>3. /\ WatchShaped(t) /\ t.flagged = {w} /\ t.leader = w /\ t.failover = FALSE /\ t.timers = s.timers
        /\ t.nodes = s.nodes /\ t.status = s.status /\ t.failures = s.failures /\ t.priority = s.priority
    BY <2>1 DEF WatchTyped, WatchShaped, FailoverFields
  <2>4. w \in Nodes
    BY <2>2, InWatched, WatchedNodes DEF WatchTyped
  <2>5. WatchTyped(t) /\ SameWatch(s, t)
    BY <2>3, <2>4 DEF WatchTyped, NodesTyped, LeaderTyped, FailoverTimersTyped, SameWatch
  <2> QED  BY <2>2, <2>3, <2>5 DEF t
<1> QED  BY <1>1, <1>2

\* An election gives the flag to one node, and to nobody else.
LEMMA ElectFlags ==
    ASSUME FailoverConstants, NEW s, WatchTyped(s), OneFlag(s)
    PROVE  OneFlag(TheFailover!Elect(s))
<1> DEFINE t == TheFailover!Elect(s)
<1> HIDE DEF t
<1>1. /\ SameWatch(s, t)
      /\ \/ t = s
         \/ \E w \in TheFailover!In(s, "ACTIVE") : t.flagged = {w} /\ t.leader = w
  BY ElectKeeps DEF t
<1>2. Watched(t) = Watched(s)
  BY <1>1 DEF SameWatch, Watched
<1>3. ASSUME NEW w \in TheFailover!In(s, "ACTIVE"), t.flagged = {w}, t.leader = w PROVE OneFlag(t)
  BY <1>2, <1>3, InWatched DEF OneFlag
<1> QED  BY <1>1, <1>3 DEF t

\* More timers and the same statuses: every recovery still ends.
LEMMA RecoveriesLast ==
    ASSUME NEW s, NEW t, SameWatch(s, t), RecoveriesPending(s)
    PROVE  RecoveriesPending(t)
BY DEF SameWatch, RecoveriesPending, Watched

LEMMA FailoverKeeps ==
    ASSUME FailoverConstants, NEW s, WatchTyped(s)
    PROVE  LET t == TheFailover!Failover(s)
           IN  /\ WatchTyped(t) /\ SameWatch(s, t) /\ t.failover = TRUE
               /\ t.flagged = s.flagged /\ t.leader = s.leader
<1> DEFINE t == TheFailover!Failover(s)
           on == [s EXCEPT !.failover = TRUE]
           failed == TheFailover!In(s, "FAILED")
<1>1. CASE s.failover = TRUE
  BY <1>1 DEF TheFailover!Failover, SameWatch
<1>2. CASE s.failover = FALSE
  <2>1. t = TheFailover!Schedule(on, "attempt", failed)
    BY <1>2 DEF TheFailover!Failover
  <2> HIDE DEF t, on
  <2>2. /\ WatchShaped(on) /\ on.failover = TRUE /\ on.timers = s.timers
        /\ on.nodes = s.nodes /\ on.status = s.status /\ on.failures = s.failures /\ on.priority = s.priority
        /\ on.flagged = s.flagged /\ on.leader = s.leader
    BY DEF on, WatchTyped, WatchShaped, FailoverFields
  <2>3. WatchTyped(on) /\ SameWatch(s, on)
    BY <2>2 DEF WatchTyped, NodesTyped, LeaderTyped, FailoverTimersTyped, SameWatch
  <2>4. failed \subseteq Nodes
    BY <2>3, InWatched, WatchedNodes DEF WatchTyped
  <2> HIDE DEF failed
  <2>5. /\ WatchTyped(t) /\ SameWatch(on, t) /\ t.failover = on.failover
        /\ t.flagged = on.flagged /\ t.leader = on.leader
    BY <2>1, <2>3, <2>4, ScheduleKeeps DEF TheFailover!Kinds
  <2>6. SameWatch(s, t)
    BY <2>3, <2>5 DEF SameWatch
  <2> QED  BY <2>2, <2>5, <2>6 DEF t
<1> QED  BY <1>1, <1>2 DEF WatchTyped, LeaderTyped

\* checkFailoverConditions and handleNodeStatusChange leave the watch as it is.
LEMMA CheckConditionsKeeps ==
    ASSUME FailoverConstants, NEW s, WatchTyped(s), OneFlag(s)
    PROVE  LET t == TheFailover!CheckConditions(s)
           IN  WatchTyped(t) /\ OneFlag(t) /\ SameWatch(s, t)
<1> DEFINE t == TheFailover!CheckConditions(s)
<1>1. t \in {s, TheFailover!Elect(s), TheFailover!Failover(s)}
  BY DEF TheFailover!CheckConditions
<1> HIDE DEF t
<1>2. CASE t = s
  BY <1>2 DEF SameWatch, t
<1>3. CASE t = TheFailover!Elect(s)
  BY <1>3, ElectKeeps, ElectFlags DEF t
<1>4. CASE t = TheFailover!Failover(s)
  <2>1. WatchTyped(t) /\ SameWatch(s, t) /\ t.flagged = s.flagged /\ t.leader = s.leader
    BY <1>4, FailoverKeeps
  <2> QED  BY <2>1 DEF OneFlag, SameWatch, Watched, t
<1> QED  BY <1>1, <1>2, <1>3, <1>4

LEMMA StatusChangedKeeps ==
    ASSUME FailoverConstants, NEW s, WatchTyped(s), OneFlag(s), NEW n
    PROVE  LET t == TheFailover!StatusChanged(s, n)
           IN  WatchTyped(t) /\ OneFlag(t) /\ SameWatch(s, t)
<1> DEFINE orphaned == [s EXCEPT !.leader = None]
           elected == TheFailover!Elect(orphaned)
           t == TheFailover!StatusChanged(s, n)
<1>1. t = TheFailover!CheckConditions(IF n \in s.flagged /\ s.status[n] = "FAILED" THEN elected ELSE s)
  BY DEF TheFailover!StatusChanged
<1>2. /\ WatchShaped(orphaned) /\ orphaned.leader = None /\ orphaned.failover = s.failover
      /\ orphaned.timers = s.timers /\ orphaned.flagged = s.flagged
      /\ orphaned.nodes = s.nodes /\ orphaned.status = s.status /\ orphaned.failures = s.failures
      /\ orphaned.priority = s.priority
  BY DEF WatchTyped, WatchShaped, FailoverFields
<1> HIDE DEF t, orphaned
<1>3. WatchTyped(orphaned) /\ OneFlag(orphaned) /\ SameWatch(s, orphaned)
  BY <1>2 DEF WatchTyped, NodesTyped, LeaderTyped, FailoverTimersTyped, SameWatch, OneFlag, Watched
<1>4. WatchTyped(elected) /\ OneFlag(elected) /\ SameWatch(s, elected)
  <2>1. WatchTyped(elected) /\ SameWatch(orphaned, elected) /\ OneFlag(elected)
    BY <1>3, ElectKeeps, ElectFlags
  <2> HIDE DEF elected
  <2> QED  BY <1>3, <2>1 DEF SameWatch
<1> HIDE DEF elected
<1>5. CASE t = TheFailover!CheckConditions(s)
  BY <1>5, CheckConditionsKeeps DEF t
<1>6. CASE t = TheFailover!CheckConditions(elected)
  <2>1. WatchTyped(t) /\ OneFlag(t) /\ SameWatch(elected, t)
    BY <1>4, <1>6, CheckConditionsKeeps
  <2> QED  BY <1>4, <2>1 DEF SameWatch, t
<1> QED  BY <1>1, <1>5, <1>6

\* Setting the status of one node to anything but RECOVERING.
LEMMA SetStatusKeeps ==
    ASSUME NEW s, Sound(s), NEW n \in Nodes, NEW st \in TheFailover!Status \ {"RECOVERING"}
    PROVE  LET t == [s EXCEPT !.status[n] = st]
           IN  /\ Sound(t) /\ t.status = [s.status EXCEPT ![n] = st] /\ t.nodes = s.nodes
               /\ t.failures = s.failures /\ t.timers = s.timers
<1> DEFINE t == [s EXCEPT !.status[n] = st]
<1> HIDE DEF t
<1>1. /\ WatchShaped(t) /\ t.status = [s.status EXCEPT ![n] = st] /\ t.timers = s.timers
      /\ t.nodes = s.nodes /\ t.failures = s.failures /\ t.priority = s.priority
      /\ t.flagged = s.flagged /\ t.leader = s.leader /\ t.failover = s.failover
  BY DEF t, Sound, WatchTyped, WatchShaped, FailoverFields
<1>2. WatchTyped(t)
  BY <1>1 DEF Sound, WatchTyped, NodesTyped, LeaderTyped, FailoverTimersTyped
<1>3. OneFlag(t)
  BY <1>1 DEF Sound, OneFlag, Watched
<1>4. RecoveriesPending(t)
  BY <1>1 DEF Sound, RecoveriesPending, Watched, WatchTyped, NodesTyped
<1> QED  BY <1>1, <1>2, <1>3, <1>4 DEF Sound, t

LEMMA FailsSound ==
    ASSUME NEW s, Sound(s), NEW n \in Nodes, RetryAttempts \in Int
    PROVE  Sound(TheFailover!Fails(s, n))
<1> DEFINE t == TheFailover!Fails(s, n)
<1>1. /\ WatchTyped(t) /\ t.nodes = s.nodes /\ t.status = s.status /\ t.timers = s.timers
      /\ t.flagged = s.flagged /\ t.leader = s.leader
  BY FailsKeeps DEF Sound
<1> HIDE DEF t
<1>2. OneFlag(t) /\ RecoveriesPending(t)
  BY <1>1 DEF Sound, OneFlag, RecoveriesPending, Watched
<1> QED  BY <1>1, <1>2 DEF Sound, t

LEMMA StatusChangedSound ==
    ASSUME FailoverConstants, NEW s, Sound(s), NEW n
    PROVE  Sound(TheFailover!StatusChanged(s, n)) /\ TheFailover!StatusChanged(s, n).nodes = s.nodes
<1> DEFINE t == TheFailover!StatusChanged(s, n)
<1>1. WatchTyped(t) /\ OneFlag(t) /\ SameWatch(s, t)
  BY StatusChangedKeeps DEF Sound
<1> HIDE DEF t
<1> QED  BY <1>1, RecoveriesLast DEF Sound, SameWatch, t

\* One node's turn, and then all turns, one after the other.
LEMMA TurnSound ==
    ASSUME FailoverConstants, NEW s, Sound(s), NEW n \in Nodes, NEW silent
    PROVE  Sound(TheFailover!Turn(s, n, silent)) /\ TheFailover!Turn(s, n, silent).nodes = s.nodes
<1> DEFINE suspect == [s EXCEPT !.status[n] = "SUSPECTED"]
           t == TheFailover!Fails(suspect, n)
           failed == [t EXCEPT !.status[n] = "FAILED"]
<1>0. RetryAttempts \in Int
  BY DEF FailoverConstants
<1>1. TheFailover!Turn(s, n, silent) \in {s, t, TheFailover!StatusChanged(failed, n)}
  BY DEF TheFailover!Turn, TheFailover!Timeout
<1>2. Sound(suspect) /\ suspect.nodes = s.nodes
  BY SetStatusKeeps DEF TheFailover!Status
<1> HIDE DEF suspect
<1>3. Sound(t) /\ t.nodes = s.nodes
  BY <1>0, <1>2, FailsSound, FailsKeeps DEF Sound
<1> HIDE DEF t
<1>4. Sound(failed) /\ failed.nodes = s.nodes
  BY <1>3, SetStatusKeeps DEF TheFailover!Status
<1> HIDE DEF failed
<1>5. Sound(TheFailover!StatusChanged(failed, n)) /\ TheFailover!StatusChanged(failed, n).nodes = s.nodes
  BY <1>4, StatusChangedSound
<1> QED  BY <1>1, <1>3, <1>5

LEMMA AfterTurnsSound ==
    ASSUME FailoverConstants, Sound(TheFailover!Now), NEW silent
    PROVE  Sound(TheFailover!AfterTurns(silent))
<1> DEFINE now0 == TheFailover!Now
           last == Len(fNodes)
           Made(f, k) == f = [i \in 0 .. k |-> IF i = 0 THEN now0 ELSE TheFailover!Turn(f[i - 1], fNodes[i], silent)]
           Missing == {k \in Nat : ~ \E f : Made(f, k)}
           after == CHOOSE f : Made(f, last)
           Unsound == {k \in 0 .. last : ~ (Sound(after[k]) /\ after[k].nodes = fNodes)}
<1>1. TheFailover!AfterTurns(silent) = after[last]
  BY DEF TheFailover!AfterTurns
<1>2. now0.nodes = fNodes
  BY DEF TheFailover!Now
<1>3. fNodes \in Seq(Nodes)
  BY <1>2 DEF Sound, WatchTyped, NodesTyped
<1>4. last \in Nat /\ \A i \in 1 .. last : fNodes[i] \in Nodes
  BY <1>3
<1> HIDE DEF now0, last
\* The states between the turns exist, for a list of any length.
<1>5. Missing = {}
  <2> SUFFICES ASSUME Missing # {} PROVE FALSE
    OBVIOUS
  <2> HIDE DEF Made
  <2>1. PICK m \in Missing : \A k \in Missing : m <= k
    BY LeastNatural
  <2>2. m \in Nat /\ ~ \E f : Made(f, m)
    OBVIOUS
  <2>3. m # 0
    <3>1. Made([i \in 0 .. 0 |-> now0], 0)
      BY DEF Made
    <3> QED  BY <2>2, <3>1
  <2>4. m - 1 \in Nat /\ m - 1 \notin Missing
    BY <2>1, <2>2, <2>3
  <2>5. PICK g : Made(g, m - 1)
    BY <2>4
  <2> DEFINE f == [i \in 0 .. m |-> IF i = m THEN TheFailover!Turn(g[m - 1], fNodes[m], silent) ELSE g[i]]
  <2>6. Made(f, m)
    <3>1. \A i \in 0 .. m - 1 : g[i] = IF i = 0 THEN now0 ELSE TheFailover!Turn(g[i - 1], fNodes[i], silent)
      BY <2>5, <2>2 DEF Made
    <3>2. \A i \in 0 .. m :
             f[i] = IF i = 0 THEN now0 ELSE TheFailover!Turn(f[i - 1], fNodes[i], silent)
      <4> TAKE i \in 0 .. m
      <4>1. CASE i = m
        BY <2>2, <2>3, <4>1
      <4>2. CASE i # m
        BY <2>2, <3>1, <4>2
      <4> QED  BY <4>1, <4>2
    <3> HIDE DEF f
    <3>3. f = [i \in 0 .. m |-> f[i]]
      BY DEF f
    <3> QED  BY <3>2, <3>3 DEF Made
  <2> QED  BY <2>2, <2>6
<1>6. Made(after, last)
  <2> HIDE DEF Made
  <2>1. \E f : Made(f, last)
    BY <1>4, <1>5
  <2> QED  BY <2>1
<1>7. \A i \in 0 .. last : after[i] = IF i = 0 THEN now0 ELSE TheFailover!Turn(after[i - 1], fNodes[i], silent)
  BY <1>6
<1> HIDE DEF Made, after
\* And each is left by a turn as the one before it was.
<1>8. Unsound = {}
  <2> SUFFICES ASSUME Unsound # {} PROVE FALSE
    OBVIOUS
  <2>1. Unsound \subseteq Nat
    BY <1>4
  <2> HIDE DEF Unsound
  <2>2. PICK m \in Unsound : \A k \in Unsound : m <= k
    BY <2>1, LeastNatural
  <2>3. m \in 0 .. last /\ ~ (Sound(after[m]) /\ after[m].nodes = fNodes)
    BY DEF Unsound
  <2>4. m # 0
    BY <1>2, <1>7, <2>3 DEF now0
  <2>5. m - 1 \in 0 .. last /\ m - 1 \notin Unsound
    BY <1>4, <2>1, <2>2, <2>3, <2>4
  <2>6. Sound(after[m - 1]) /\ after[m - 1].nodes = fNodes
    BY <2>5 DEF Unsound
  <2>7. after[m] = TheFailover!Turn(after[m - 1], fNodes[m], silent) /\ fNodes[m] \in Nodes
    BY <1>4, <1>7, <2>3, <2>4
  <2>8. Sound(after[m]) /\ after[m].nodes = after[m - 1].nodes
    BY <2>6, <2>7, TurnSound
  <2> QED  BY <2>3, <2>6, <2>8
<1>9. Sound(after[last])
  BY <1>4, <1>8
<1> QED  BY <1>1, <1>9

\* The invariant: the record the next callback begins with is sound.
FailoverInv == Sound(TheFailover!Now) /\ config \in Configs /\ running \in BOOLEAN

\* Whatever sound record a callback leaves is the next state.
LEMMA WatchBecomes ==
    ASSUME FailoverInv, NEW s, Sound(s), TheFailover!Become(s)
    PROVE  FailoverInv'
<1>1. TheFailover!Now' = s
  <2>1. s = [f \in FailoverFields |-> s[f]]
    BY DEF Sound, WatchTyped, WatchShaped
  <2>2. /\ fNodes' = s.nodes /\ fStatus' = s.status /\ fFailures' = s.failures
        /\ priority' = s.priority /\ flagged' = s.flagged /\ leader' = s.leader
        /\ failover' = s.failover /\ fTimers' = s.timers
    BY DEF TheFailover!Become
  <2> QED  BY <2>1, <2>2 DEF TheFailover!Now, FailoverFields
<1>2. config' = config /\ running' = running
  BY DEF TheFailover!Become
<1> QED  BY <1>1, <1>2 DEF FailoverInv

LEMMA CheckConditionsSound ==
    ASSUME FailoverConstants, NEW s, Sound(s)
    PROVE  Sound(TheFailover!CheckConditions(s))
<1> DEFINE t == TheFailover!CheckConditions(s)
<1>1. WatchTyped(t) /\ OneFlag(t) /\ SameWatch(s, t)
  BY CheckConditionsKeeps DEF Sound
<1> HIDE DEF t
<1> QED  BY <1>1, RecoveriesLast DEF Sound, t

LEMMA ElectSound ==
    ASSUME FailoverConstants, NEW s, Sound(s)
    PROVE  Sound(TheFailover!Elect(s))
<1> DEFINE t == TheFailover!Elect(s)
<1>1. WatchTyped(t) /\ OneFlag(t) /\ SameWatch(s, t)
  BY ElectKeeps, ElectFlags DEF Sound
<1> HIDE DEF t
<1> QED  BY <1>1, RecoveriesLast DEF Sound, t

LEMMA FailoverSound ==
    ASSUME FailoverConstants, NEW s, Sound(s)
    PROVE  Sound(TheFailover!Failover(s))
<1> DEFINE t == TheFailover!Failover(s)
<1>1. WatchTyped(t) /\ SameWatch(s, t) /\ t.flagged = s.flagged /\ t.leader = s.leader
  BY FailoverKeeps DEF Sound
<1> HIDE DEF t
<1>2. OneFlag(t) /\ RecoveriesPending(t)
  BY <1>1, RecoveriesLast DEF Sound, OneFlag, SameWatch, Watched
<1> QED  BY <1>1, <1>2 DEF Sound, t

LEMMA ScheduleSound ==
    ASSUME NEW s, Sound(s), NEW kind \in TheFailover!Kinds, NEW n \in Nodes
    PROVE  Sound(TheFailover!Schedule(s, kind, {n}))
<1> DEFINE t == TheFailover!Schedule(s, kind, {n})
<1>1. WatchTyped(t) /\ SameWatch(s, t) /\ t.flagged = s.flagged /\ t.leader = s.leader
  BY ScheduleKeeps DEF Sound
<1> HIDE DEF t
<1>2. OneFlag(t) /\ RecoveriesPending(t)
  BY <1>1, RecoveriesLast DEF Sound, OneFlag, SameWatch, Watched
<1> QED  BY <1>1, <1>2 DEF Sound, t

\* A node is set to RECOVERING and its timer in the same callback.
LEMMA BeginRecovery ==
    ASSUME NEW s, Sound(s), NEW n \in Nodes, NEW u, WatchTyped(u),
           u.status = [s.status EXCEPT ![n] = "RECOVERING"], u.nodes = s.nodes, u.timers = s.timers,
           u.flagged = s.flagged, u.leader = s.leader
    PROVE  Sound(TheFailover!Schedule(u, "recovered", {n}))
<1> DEFINE t == TheFailover!Schedule(u, "recovered", {n})
<1>1. "recovered" \in TheFailover!Kinds
  BY DEF TheFailover!Kinds
<1>2. /\ WatchTyped(t) /\ SameWatch(u, t) /\ t.flagged = u.flagged /\ t.leader = u.leader
      /\ DOMAIN t.timers = DOMAIN u.timers \cup ({"recovered"} \X {n})
  BY <1>1, ScheduleKeeps
<1> HIDE DEF t
<1>3. OneFlag(t)
  BY <1>2 DEF Sound, OneFlag, SameWatch, Watched
<1>4. RecoveriesPending(t)
  <2>1. \A m \in Nodes \ {n} : t.status[m] = s.status[m]
    BY <1>2 DEF SameWatch, Sound, WatchTyped, NodesTyped
  <2>2. <<"recovered", n>> \in DOMAIN t.timers /\ DOMAIN s.timers \subseteq DOMAIN t.timers
    BY <1>2
  <2>3. Watched(t) = Watched(s) /\ Watched(s) \subseteq Nodes
    BY <1>2, WatchedNodes DEF SameWatch, Watched, Sound, WatchTyped
  <2> QED  BY <2>1, <2>2, <2>3 DEF Sound, RecoveriesPending
<1> QED  BY <1>2, <1>3, <1>4 DEF Sound, t

\* The state a callback begins with: its timer has been taken.
LEMMA FireKeeps ==
    ASSUME Sound(TheFailover!Now), NEW kind, NEW n
    PROVE  LET s == TheFailover!Fire(kind, n)
           IN  /\ WatchTyped(s) /\ OneFlag(s)
               /\ s.nodes = fNodes /\ s.status = fStatus
               /\ \A m \in Watched(s) \ {n} : s.status[m] = "RECOVERING" => <<"recovered", m>> \in DOMAIN s.timers
               /\ kind # "recovered" => Sound(s)
<1> DEFINE left == TheFailover!BagRemove(fTimers, <<kind, n>>)
           s == TheFailover!Fire(kind, n)
           was == TheFailover!Now
<1>1. /\ WatchShaped(was) /\ was.nodes = fNodes /\ was.status = fStatus /\ was.failures = fFailures
      /\ was.priority = priority /\ was.flagged = flagged /\ was.leader = leader
      /\ was.failover = failover /\ was.timers = fTimers
  BY DEF Sound, WatchTyped, TheFailover!Now
<1>2. s = [was EXCEPT !.timers = left]
  BY <1>1 DEF TheFailover!Fire
<1>3. /\ TheFailover!IsABag(left) /\ DOMAIN left \subseteq DOMAIN fTimers
      /\ DOMAIN fTimers \ {<<kind, n>>} \subseteq DOMAIN left
  BY <1>1, FailoverBags DEF Sound, WatchTyped, FailoverTimersTyped
<1> HIDE DEF left, s, was
<1>4. /\ WatchShaped(s) /\ s.timers = left
      /\ s.nodes = was.nodes /\ s.status = was.status /\ s.failures = was.failures /\ s.priority = was.priority
      /\ s.flagged = was.flagged /\ s.leader = was.leader /\ s.failover = was.failover
  BY <1>1, <1>2 DEF WatchShaped, FailoverFields
<1>5. Sound(was)
  BY DEF was
<1>6. WatchTyped(s)
  BY <1>1, <1>3, <1>4, <1>5 DEF Sound, WatchTyped, NodesTyped, LeaderTyped, FailoverTimersTyped
<1>7. OneFlag(s) /\ Watched(s) = Watched(was)
  BY <1>4, <1>5 DEF Sound, OneFlag, Watched
<1>8. \A m \in Watched(s) : s.status[m] = "RECOVERING" => <<"recovered", m>> \in DOMAIN fTimers
  BY <1>1, <1>4, <1>5, <1>7 DEF Sound, RecoveriesPending
<1>9. \A m : <<"recovered", m>> = <<kind, n>> => kind = "recovered" /\ m = n
  OBVIOUS
<1>10. \A m \in Watched(s) \ {n} : s.status[m] = "RECOVERING" => <<"recovered", m>> \in DOMAIN s.timers
  BY <1>3, <1>4, <1>8, <1>9
<1>11. kind # "recovered" => RecoveriesPending(s)
  BY <1>3, <1>4, <1>8, <1>9 DEF RecoveriesPending
<1> QED  BY <1>1, <1>4, <1>6, <1>7, <1>10, <1>11 DEF Sound, s

\* Its failure count may start again.
LEMMA ResetKeeps ==
    ASSUME NEW s, WatchTyped(s), NEW n \in Nodes
    PROVE  LET t == [s EXCEPT !.failures[n] = 0]
           IN  /\ WatchTyped(t) /\ t.nodes = s.nodes /\ t.status = s.status /\ t.timers = s.timers
               /\ t.flagged = s.flagged /\ t.leader = s.leader
<1> DEFINE t == [s EXCEPT !.failures[n] = 0]
<1> HIDE DEF t
<1>1. /\ WatchShaped(t) /\ t.failures = [s.failures EXCEPT ![n] = 0]
      /\ t.nodes = s.nodes /\ t.status = s.status /\ t.timers = s.timers /\ t.priority = s.priority
      /\ t.flagged = s.flagged /\ t.leader = s.leader /\ t.failover = s.failover
  BY DEF t, WatchTyped, WatchShaped, FailoverFields
<1>2. WatchTyped(t)
  BY <1>1 DEF WatchTyped, NodesTyped, LeaderTyped, FailoverTimersTyped
<1> QED  BY <1>1, <1>2 DEF t

LEMMA HealthCheckKeeps ==
    ASSUME FailoverConstants, FailoverInv, NEW silent, TheFailover!HealthCheck(silent)
    PROVE  FailoverInv'
<1> DEFINE turned == TheFailover!AfterTurns(silent)
           checked == TheFailover!CheckConditions(turned)
<1>1. TheFailover!Become(checked)
  BY DEF TheFailover!HealthCheck
<1>2. Sound(turned)
  BY AfterTurnsSound DEF FailoverInv
<1> HIDE DEF turned
<1>3. Sound(checked)
  BY <1>2, CheckConditionsSound
<1> HIDE DEF checked
<1> QED  BY <1>1, <1>3, WatchBecomes

\* updateNodeHealth: what it sets for the report, and what handleNodeStatusChange makes of it.
LEMMA UpdateNodeHealthKeeps ==
    ASSUME FailoverConstants, FailoverInv, NEW n \in Nodes, NEW health, TheFailover!UpdateNodeHealth(n, health)
    PROVE  FailoverInv'
<1> DEFINE was == TheFailover!Now
           set(st) == [was EXCEPT !.status[n] = st]
           recovering == [set("RECOVERING") EXCEPT !.failures[n] = 0]
           t == CASE health = "FAILED" -> TheFailover!Fails(set("FAILED"), n)
                  [] health = "SUSPECTED" /\ fStatus[n] = "ACTIVE" -> set("SUSPECTED")
                  [] health = "ACTIVE" /\ fStatus[n] \in {"FAILED", "SUSPECTED"} ->
                       TheFailover!Schedule(recovering, "recovered", {n})
                  [] health = "ACTIVE" /\ fStatus[n] \notin {"FAILED", "SUSPECTED"} ->
                       [was EXCEPT !.failures[n] = 0]
                  [] OTHER -> was
           next == IF t.status[n] # fStatus[n] THEN TheFailover!StatusChanged(t, n) ELSE t
<1>1. TheFailover!Become(next)
  BY DEF TheFailover!UpdateNodeHealth
<1>2. /\ t \in {TheFailover!Fails(set("FAILED"), n), set("SUSPECTED"),
                TheFailover!Schedule(recovering, "recovered", {n}), [was EXCEPT !.failures[n] = 0], was}
      /\ next \in {t, TheFailover!StatusChanged(t, n)}
  OBVIOUS
<1>3. Sound(was) /\ RetryAttempts \in Int
  BY DEF FailoverInv, FailoverConstants
<1> HIDE DEF was, t, next
<1>4. ASSUME t = TheFailover!Fails(set("FAILED"), n) PROVE Sound(t)
  <2>1. Sound(set("FAILED"))
    BY <1>3, SetStatusKeeps DEF TheFailover!Status
  <2> QED  BY <1>3, <1>4, <2>1, FailsSound
<1>5. ASSUME t = set("SUSPECTED") PROVE Sound(t)
  BY <1>3, <1>5, SetStatusKeeps DEF TheFailover!Status
<1>6. ASSUME t = TheFailover!Schedule(recovering, "recovered", {n}) PROVE Sound(t)
  <2> DEFINE u == set("RECOVERING")
  <2> HIDE DEF u
  <2>1. /\ WatchShaped(u) /\ u.status = [was.status EXCEPT ![n] = "RECOVERING"] /\ u.timers = was.timers
        /\ u.nodes = was.nodes /\ u.failures = was.failures /\ u.priority = was.priority
        /\ u.flagged = was.flagged /\ u.leader = was.leader /\ u.failover = was.failover
    BY <1>3 DEF u, Sound, WatchTyped, WatchShaped, FailoverFields
  <2>2. WatchTyped(u)
    BY <1>3, <2>1 DEF Sound, WatchTyped, NodesTyped, LeaderTyped, FailoverTimersTyped, TheFailover!Status
  <2>3. t = TheFailover!Schedule([u EXCEPT !.failures[n] = 0], "recovered", {n})
    BY <1>6 DEF u
  <2> DEFINE v == [u EXCEPT !.failures[n] = 0]
  <2>4. /\ WatchTyped(v) /\ v.nodes = u.nodes /\ v.status = u.status /\ v.timers = u.timers
        /\ v.flagged = u.flagged /\ v.leader = u.leader
    BY <2>2, ResetKeeps
  <2> HIDE DEF v
  <2>5. Sound(TheFailover!Schedule(v, "recovered", {n}))
    BY <1>3, <2>1, <2>4, BeginRecovery
  <2> QED  BY <2>3, <2>5 DEF v
<1>7. ASSUME t = [was EXCEPT !.failures[n] = 0] PROVE Sound(t)
  <2>1. /\ WatchTyped(t) /\ t.nodes = was.nodes /\ t.status = was.status /\ t.timers = was.timers
        /\ t.flagged = was.flagged /\ t.leader = was.leader
    BY <1>3, <1>7, ResetKeeps DEF Sound
  <2> QED  BY <1>3, <2>1 DEF Sound, OneFlag, RecoveriesPending, Watched
<1>8. Sound(t)
  BY <1>2, <1>3, <1>4, <1>5, <1>6, <1>7
<1>9. Sound(next)
  BY <1>2, <1>8, StatusChangedSound
<1> QED  BY <1>1, <1>9, WatchBecomes

LEMMA MarkNodeRecoveredKeeps ==
    ASSUME FailoverConstants, FailoverInv, NEW n \in Nodes, TheFailover!MarkNodeRecovered(n)
    PROVE  FailoverInv'
<1> DEFINE s == TheFailover!Fire("recovered", n)
           settled == [s EXCEPT !.status[n] = "ACTIVE"]
<1>1. /\ WatchTyped(s) /\ OneFlag(s) /\ s.nodes = fNodes /\ s.status = fStatus
      /\ \A m \in Watched(s) \ {n} : s.status[m] = "RECOVERING" => <<"recovered", m>> \in DOMAIN s.timers
  BY FireKeeps DEF FailoverInv
<1>2. \/ n \in TheFailover!ToSet(fNodes) /\ fStatus[n] = "RECOVERING"
         /\ TheFailover!Become(TheFailover!CheckConditions(settled))
      \/ ~ (n \in TheFailover!ToSet(fNodes) /\ fStatus[n] = "RECOVERING") /\ TheFailover!Become(s)
  BY DEF TheFailover!MarkNodeRecovered
<1> HIDE DEF s, settled
<1>3. /\ WatchShaped(settled) /\ settled.status = [s.status EXCEPT ![n] = "ACTIVE"] /\ settled.timers = s.timers
      /\ settled.nodes = s.nodes /\ settled.failures = s.failures /\ settled.priority = s.priority
      /\ settled.flagged = s.flagged /\ settled.leader = s.leader /\ settled.failover = s.failover
  BY <1>1 DEF settled, WatchTyped, WatchShaped, FailoverFields
<1>4. WatchTyped(settled)
  BY <1>1, <1>3 DEF WatchTyped, NodesTyped, LeaderTyped, FailoverTimersTyped, TheFailover!Status
<1>5. Watched(settled) = Watched(s) /\ Watched(s) \subseteq Nodes
  BY <1>1, <1>3, WatchedNodes DEF Watched, WatchTyped
<1>6. OneFlag(settled)
  BY <1>1, <1>3, <1>5 DEF OneFlag
<1>7. RecoveriesPending(settled)
  BY <1>1, <1>3, <1>5 DEF RecoveriesPending, WatchTyped, NodesTyped
<1>8. Sound(settled)
  BY <1>4, <1>6, <1>7 DEF Sound
<1>9. CASE TheFailover!Become(TheFailover!CheckConditions(settled))
  BY <1>8, <1>9, CheckConditionsSound, WatchBecomes
<1>10. CASE ~ (n \in TheFailover!ToSet(fNodes) /\ fStatus[n] = "RECOVERING") /\ TheFailover!Become(s)
  <2>1. n \notin Watched(s) \/ s.status[n] # "RECOVERING"
    BY <1>1, <1>10 DEF TheFailover!ToSet, Watched
  <2>2. Sound(s)
    BY <1>1, <2>1 DEF Sound, RecoveriesPending
  <2> QED  BY <1>10, <2>2, WatchBecomes
<1> QED  BY <1>2, <1>9, <1>10

LEMMA AttemptsKeep ==
    ASSUME FailoverConstants, FailoverInv, NEW n \in Nodes,
           TheFailover!AttemptNodeRecovery(n) \/ TheFailover!AttemptSucceeds(n)
             \/ TheFailover!AttemptFails(n) \/ TheFailover!OrphanEnds(n)
    PROVE  FailoverInv'
<1>0. RetryAttempts \in Int /\ {"recovered", "attempt", "outcome"} \subseteq TheFailover!Kinds
  BY DEF FailoverConstants, TheFailover!Kinds
<1>1. CASE TheFailover!AttemptNodeRecovery(n)
  <2> DEFINE s == TheFailover!Fire("attempt", n)
             again == TheFailover!Schedule(s, "outcome", {n})
  <2>1. Sound(s)
    BY FireKeeps DEF FailoverInv
  <2>2. TheFailover!Become(again) \/ TheFailover!Become(s)
    BY <1>1 DEF TheFailover!AttemptNodeRecovery
  <2> HIDE DEF s
  <2>3. Sound(again)
    BY <1>0, <2>1, ScheduleSound
  <2> HIDE DEF again
  <2> QED  BY <2>1, <2>2, <2>3, WatchBecomes
<1>2. CASE TheFailover!AttemptSucceeds(n)
  <2> DEFINE s == TheFailover!Fire("outcome", n)
             u == [s EXCEPT !.status[n] = "RECOVERING"]
             next == TheFailover!Schedule(u, "recovered", {n})
  <2>1. Sound(s)
    BY FireKeeps DEF FailoverInv
  <2>2. TheFailover!Become(next)
    BY <1>2 DEF TheFailover!AttemptSucceeds
  <2> HIDE DEF s, u
  <2>3. /\ WatchShaped(u) /\ u.status = [s.status EXCEPT ![n] = "RECOVERING"] /\ u.timers = s.timers
        /\ u.nodes = s.nodes /\ u.failures = s.failures /\ u.priority = s.priority
        /\ u.flagged = s.flagged /\ u.leader = s.leader /\ u.failover = s.failover
    BY <2>1 DEF u, Sound, WatchTyped, WatchShaped, FailoverFields
  <2>4. WatchTyped(u)
    BY <2>1, <2>3 DEF Sound, WatchTyped, NodesTyped, LeaderTyped, FailoverTimersTyped, TheFailover!Status
  <2>5. Sound(next)
    BY <2>1, <2>3, <2>4, BeginRecovery
  <2> HIDE DEF next
  <2> QED  BY <2>2, <2>5, WatchBecomes
<1>3. CASE TheFailover!AttemptFails(n)
  <2> DEFINE s == TheFailover!Fails(TheFailover!Fire("outcome", n), n)
             again == TheFailover!Schedule(s, "attempt", {n})
  <2>1. Sound(TheFailover!Fire("outcome", n))
    BY FireKeeps DEF FailoverInv
  <2>2. Sound(s)
    BY <1>0, <2>1, FailsSound
  <2>3. TheFailover!Become(again) \/ TheFailover!Become(s)
    BY <1>3 DEF TheFailover!AttemptFails
  <2> HIDE DEF s
  <2>4. Sound(again)
    BY <1>0, <2>2, ScheduleSound
  <2> HIDE DEF again
  <2> QED  BY <2>2, <2>3, <2>4, WatchBecomes
<1>4. CASE TheFailover!OrphanEnds(n)
  <2> DEFINE s == TheFailover!Fire("orphan", n)
             recovering == TheFailover!Schedule(s, "recovered", {n})
             again == TheFailover!Schedule(s, "attempt", {n})
  <2>1. Sound(s)
    BY FireKeeps DEF FailoverInv
  <2>2. TheFailover!Become(s) \/ TheFailover!Become(recovering) \/ TheFailover!Become(again)
    BY <1>4 DEF TheFailover!OrphanEnds
  <2> HIDE DEF s
  <2>3. Sound(recovering) /\ Sound(again)
    BY <1>0, <2>1, ScheduleSound
  <2> HIDE DEF recovering, again
  <2> QED  BY <2>1, <2>2, <2>3, WatchBecomes
<1> QED  BY <1>1, <1>2, <1>3, <1>4

\* The object of a node is dropped: the attempts under way turn into orphans, and
\* no timer that ends a recovery is lost.
LEMMA DroppedKeeps ==
    ASSUME NEW s, Sound(s), NEW n \in Nodes
    PROVE  LET t == TheFailover!Dropped(s, n)
           IN  /\ WatchTyped(t) /\ t.nodes = s.nodes /\ t.status = s.status /\ t.leader = s.leader
               /\ t.flagged = s.flagged \ {n}
               /\ \A m \in Nodes : <<"recovered", m>> \in DOMAIN s.timers => <<"recovered", m>> \in DOMAIN t.timers
<1> DEFINE t == TheFailover!Dropped(s, n)
           outcome == <<"outcome", n>>
           kept == TheFailover!BagRemoveAll(s.timers, outcome)
           ids == {<<"orphan", u[2]>> : u \in {outcome} \cap DOMAIN s.timers}
           orphans == [x \in ids |-> s.timers[outcome]]
           bag == TheFailover!(+)(kept, orphans)
<1>1. t = [s EXCEPT !.timers = bag, !.flagged = s.flagged \ {n}]
  BY DEF TheFailover!Dropped
<1>2. \A e \in DOMAIN s.timers : s.timers[e] \in Nat /\ s.timers[e] > 0
  BY DEF Sound, WatchTyped, FailoverTimersTyped, TheFailover!IsABag
<1>3. DOMAIN kept = DOMAIN s.timers \ {outcome} /\ \A e \in DOMAIN kept : kept[e] \in Nat /\ kept[e] > 0
  BY <1>2 DEF TheFailover!BagRemoveAll
<1>4. /\ ids \subseteq {<<"orphan", n>>} /\ DOMAIN orphans = ids
      /\ \A e \in DOMAIN orphans : orphans[e] \in Nat /\ orphans[e] > 0
  <2>1. ids \subseteq {<<"orphan", n>>}
    OBVIOUS
  <2>2. ids # {} => outcome \in DOMAIN s.timers
    OBVIOUS
  <2> HIDE DEF ids, outcome
  <2>3. \A e \in ids : s.timers[outcome] \in Nat /\ s.timers[outcome] > 0
    BY <1>2, <2>2
  <2> QED  BY <2>1, <2>3
<1> HIDE DEF kept, orphans, ids
<1>5. TheFailover!IsABag(bag) /\ DOMAIN bag = DOMAIN kept \cup DOMAIN orphans
  BY <1>3, <1>4 DEF TheFailover!(+), TheFailover!IsABag
<1> HIDE DEF bag, t
<1>6. /\ WatchShaped(t) /\ t.timers = bag /\ t.flagged = s.flagged \ {n}
      /\ t.nodes = s.nodes /\ t.status = s.status /\ t.failures = s.failures /\ t.priority = s.priority
      /\ t.leader = s.leader /\ t.failover = s.failover
  BY <1>1 DEF Sound, WatchTyped, WatchShaped, FailoverFields
<1>7. <<"orphan", n>> \in TheFailover!Kinds \X Nodes
  BY DEF TheFailover!Kinds
<1>8. DOMAIN bag \subseteq TheFailover!Kinds \X Nodes
  BY <1>3, <1>4, <1>5, <1>7 DEF Sound, WatchTyped, FailoverTimersTyped
<1>9. WatchTyped(t)
  BY <1>5, <1>6, <1>8 DEF Sound, WatchTyped, NodesTyped, LeaderTyped, FailoverTimersTyped
<1>10. \A m \in Nodes : <<"recovered", m>> \in DOMAIN s.timers => <<"recovered", m>> \in DOMAIN bag
  BY <1>3, <1>5
<1> QED  BY <1>6, <1>9, <1>10 DEF t

\* What addNode and removeNode leave: a list with the same nodes but n, and n active.
LEMMA ReplacedSound ==
    ASSUME NEW s, Sound(s), NEW n \in Nodes, NEW t, WatchTyped(t),
           t.status = [s.status EXCEPT ![n] = "ACTIVE"],
           t.flagged = s.flagged \ {n}, t.leader \in {s.leader, None},
           Watched(t) \subseteq Watched(s) \cup {n}, Watched(s) \ {n} \subseteq Watched(t),
           \A m \in Nodes : <<"recovered", m>> \in DOMAIN s.timers => <<"recovered", m>> \in DOMAIN t.timers
    PROVE  Sound(t)
<1>1. OneFlag(t)
  BY DEF Sound, OneFlag
<1>2. Watched(t) \subseteq Nodes
  BY WatchedNodes DEF WatchTyped
<1>3. \A m \in Nodes : t.status[m] = IF m = n THEN "ACTIVE" ELSE s.status[m]
  BY DEF Sound, WatchTyped, NodesTyped
<1>4. RecoveriesPending(t)
  BY <1>2, <1>3 DEF Sound, RecoveriesPending
<1> QED  BY <1>1, <1>4 DEF Sound

LEMMA AddNodeKeeps ==
    ASSUME FailoverConstants, FailoverInv, NEW n \in Nodes, TheFailover!AddNode(n)
    PROVE  FailoverInv'
<1> DEFINE was == TheFailover!Now
           s == TheFailover!Dropped(was, n)
           list == IF n \in TheFailover!ToSet(s.nodes) THEN s.nodes ELSE Append(s.nodes, n)
           t(p) == [s EXCEPT !.nodes = list, !.status[n] = "ACTIVE", !.failures[n] = 0, !.priority[n] = p]
<1>1. PICK p \in Priorities[n] : TheFailover!Become(t(p))
  BY DEF TheFailover!AddNode
<1>2. Sound(was)
  BY DEF FailoverInv
<1> HIDE DEF was
<1>3. /\ WatchTyped(s) /\ s.nodes = was.nodes /\ s.status = was.status /\ s.leader = was.leader
      /\ s.flagged = was.flagged \ {n}
      /\ \A m \in Nodes : <<"recovered", m>> \in DOMAIN was.timers => <<"recovered", m>> \in DOMAIN s.timers
  BY <1>2, DroppedKeeps
<1> HIDE DEF s
<1>4. /\ list \in Seq(Nodes)
      /\ {list[i] : i \in DOMAIN list} \subseteq Watched(s) \cup {n}
      /\ Watched(s) \subseteq {list[i] : i \in DOMAIN list}
  <2>1. s.nodes \in Seq(Nodes)
    BY <1>3 DEF WatchTyped, NodesTyped
  <2>2. CASE list = s.nodes
    BY <2>1, <2>2 DEF Watched
  <2>3. CASE list = Append(s.nodes, n)
    <3>1. /\ list \in Seq(Nodes) /\ DOMAIN list = 1 .. Len(s.nodes) + 1 /\ DOMAIN s.nodes = 1 .. Len(s.nodes)
          /\ Len(s.nodes) \in Nat
          /\ \A i \in 1 .. Len(s.nodes) : list[i] = s.nodes[i]
          /\ list[Len(s.nodes) + 1] = n
      BY <2>1, <2>3, AppendProperties
    <3> HIDE DEF list
    <3> QED  BY <3>1 DEF Watched
  <2> QED  BY <2>2, <2>3
<1> HIDE DEF list
<1> DEFINE u == t(p)
<1>5. /\ WatchShaped(u) /\ u.nodes = list /\ u.status = [s.status EXCEPT ![n] = "ACTIVE"]
      /\ u.failures = [s.failures EXCEPT ![n] = 0] /\ u.priority = [s.priority EXCEPT ![n] = p]
      /\ u.timers = s.timers /\ u.flagged = s.flagged /\ u.leader = s.leader /\ u.failover = s.failover
  BY <1>3 DEF WatchTyped, WatchShaped, FailoverFields
<1> HIDE DEF u
<1>6. NodesTyped(u)
  BY <1>3, <1>4, <1>5 DEF WatchTyped, NodesTyped, TheFailover!Status
<1>7. WatchTyped(u)
  BY <1>3, <1>5, <1>6 DEF WatchTyped, LeaderTyped, FailoverTimersTyped
<1>8. Watched(u) \subseteq Watched(was) \cup {n} /\ Watched(was) \ {n} \subseteq Watched(u)
  <2>1. Watched(u) = {list[i] : i \in DOMAIN list}
    BY <1>5 DEF Watched
  <2>2. Watched(s) = Watched(was)
    BY <1>3 DEF Watched
  <2> QED  BY <1>4, <2>1, <2>2
<1>9. Sound(u)
  BY <1>2, <1>3, <1>5, <1>7, <1>8, ReplacedSound
<1> QED  BY <1>1, <1>9, WatchBecomes DEF u

LEMMA RemoveNodeKeeps ==
    ASSUME FailoverConstants, FailoverInv, NEW n \in Nodes, TheFailover!RemoveNode(n)
    PROVE  FailoverInv'
<1> DEFINE was == TheFailover!Now
           d == TheFailover!Dropped(was, n)
           j == CHOOSE i \in DOMAIN d.nodes : d.nodes[i] = n
           list == TheFailover!RemoveAt(d.nodes, j)
           s == [d EXCEPT !.nodes = list, !.status[n] = "ACTIVE", !.failures[n] = 0]
           alone == [s EXCEPT !.leader = None]
<1>1. /\ n \in TheFailover!ToSet(fNodes)
      /\ TheFailover!Become(s) \/ TheFailover!Become(TheFailover!Elect(alone))
  BY DEF TheFailover!RemoveNode
<1>2. Sound(was) /\ was.nodes = fNodes
  BY DEF FailoverInv, TheFailover!Now
<1> HIDE DEF was
<1>3. /\ WatchTyped(d) /\ d.nodes = was.nodes /\ d.status = was.status /\ d.leader = was.leader
      /\ d.flagged = was.flagged \ {n}
      /\ \A m \in Nodes : <<"recovered", m>> \in DOMAIN was.timers => <<"recovered", m>> \in DOMAIN d.timers
  BY <1>2, DroppedKeeps
<1> HIDE DEF d
<1>4. /\ list \in Seq(Nodes)
      /\ {list[i] : i \in DOMAIN list} \subseteq Watched(d)
      /\ Watched(d) \ {n} \subseteq {list[i] : i \in DOMAIN list}
  <2>1. d.nodes \in Seq(Nodes)
    BY <1>3 DEF WatchTyped, NodesTyped
  <2>2. j \in DOMAIN d.nodes /\ d.nodes[j] = n
    BY <1>1, <1>2, <1>3 DEF TheFailover!ToSet
  <2> DEFINE q == d.nodes
             k == Len(q)
             left == SubSeq(q, 1, j - 1)
             right == SubSeq(q, j + 1, k)
  <2>3. list = left \o right
    BY DEF TheFailover!RemoveAt
  <2> HIDE DEF j, list
  <2>4. k \in Nat /\ j \in 1 .. k /\ \A i \in 1 .. k : q[i] \in Nodes
    BY <2>1, <2>2
  <2> HIDE DEF q, k
  <2>5. left \in Seq(Nodes) /\ Len(left) = j - 1 /\ \A i \in 1 .. j - 1 : left[i] = q[i]
    BY <2>4, SubSeqProperties
  <2>6. right \in Seq(Nodes) /\ Len(right) = k - j /\ \A i \in 1 .. k - j : right[i] = q[j + i]
    BY <2>4, SubSeqProperties
  <2> HIDE DEF left, right
  <2>7. /\ list \in Seq(Nodes) /\ DOMAIN list = 1 .. k - 1
        /\ \A i \in 1 .. k - 1 : list[i] = IF i < j THEN q[i] ELSE q[i + 1]
    BY <2>3, <2>4, <2>5, <2>6, ConcatProperties
  <2>8. DOMAIN q = 1 .. k
    BY <2>1 DEF q, k
  <2>9. {list[i] : i \in DOMAIN list} \subseteq {q[i] : i \in DOMAIN q}
    BY <2>4, <2>7, <2>8
  <2>10. ASSUME NEW i \in DOMAIN q, q[i] # n PROVE q[i] \in {list[h] : h \in DOMAIN list}
    <3>1. q[j] = n
      BY <2>2 DEF q
    <3>2. CASE i < j
      BY <2>4, <2>7, <2>8, <3>2
    <3>3. CASE i > j
      <4>1. i - 1 \in 1 .. k - 1 /\ ~(i - 1 < j) /\ (i - 1) + 1 = i
        BY <2>4, <2>8, <3>3
      <4> QED  BY <2>7, <4>1
    <3> QED  BY <2>4, <2>8, <2>10, <3>1, <3>2, <3>3
  <2> QED  BY <2>7, <2>9, <2>10 DEF Watched, q
<1> HIDE DEF list
<1>5. /\ WatchShaped(s) /\ s.nodes = list /\ s.status = [d.status EXCEPT ![n] = "ACTIVE"]
      /\ s.failures = [d.failures EXCEPT ![n] = 0] /\ s.priority = d.priority
      /\ s.timers = d.timers /\ s.flagged = d.flagged /\ s.leader = d.leader /\ s.failover = d.failover
  BY <1>3 DEF WatchTyped, WatchShaped, FailoverFields
<1> HIDE DEF s
<1>6. /\ WatchShaped(alone) /\ alone.nodes = s.nodes /\ alone.status = s.status
      /\ alone.failures = s.failures /\ alone.priority = s.priority
      /\ alone.timers = s.timers /\ alone.flagged = s.flagged /\ alone.leader = None /\ alone.failover = s.failover
  BY <1>5 DEF WatchShaped, FailoverFields
<1> HIDE DEF alone
<1>7. WatchTyped(s)
  BY <1>3, <1>4, <1>5 DEF WatchTyped, NodesTyped, LeaderTyped, FailoverTimersTyped, TheFailover!Status
<1>8. WatchTyped(alone)
  BY <1>6, <1>7 DEF WatchTyped, NodesTyped, LeaderTyped, FailoverTimersTyped
<1>9. /\ Watched(s) \subseteq Watched(was) \cup {n} /\ Watched(was) \ {n} \subseteq Watched(s)
      /\ Watched(alone) = Watched(s)
  <2>1. Watched(s) = {list[i] : i \in DOMAIN list} /\ Watched(alone) = Watched(s)
    BY <1>5, <1>6 DEF Watched
  <2>2. Watched(d) = Watched(was)
    BY <1>3 DEF Watched
  <2> QED  BY <1>4, <2>1, <2>2
<1>10. Sound(s)
  BY <1>2, <1>3, <1>5, <1>7, <1>9, ReplacedSound
<1>11. Sound(alone)
  BY <1>2, <1>3, <1>5, <1>6, <1>8, <1>9, ReplacedSound
<1>12. Sound(TheFailover!Elect(alone))
  BY <1>11, ElectSound
<1> QED  BY <1>1, <1>10, <1>12, WatchBecomes

LEMMA FailoverInit ==
    ASSUME FailoverConstants, TheFailover!Init
    PROVE  FailoverInv
<1> DEFINE s == TheFailover!Now
<1>1. /\ s.nodes = <<Watcher>> /\ s.status = [n \in Nodes |-> "ACTIVE"] /\ s.failures = [n \in Nodes |-> 0]
      /\ s.priority = [n \in Nodes |-> CHOOSE p \in Priorities[n] : TRUE]
      /\ s.flagged = {} /\ s.leader = None /\ s.failover = FALSE /\ s.timers = TheFailover!EmptyBag
  BY DEF TheFailover!Init, TheFailover!Now
<1>2. WatchShaped(s)
  BY DEF TheFailover!Now, WatchShaped, FailoverFields
<1>3. TheFailover!IsABag(TheFailover!EmptyBag) /\ DOMAIN TheFailover!EmptyBag = {}
  BY DEF TheFailover!EmptyBag, TheFailover!SetToBag, TheFailover!IsABag
<1>4. \A n \in Nodes : Priorities[n] # {}
  BY DEF FailoverConstants
<1> HIDE DEF s
<1>5. \A n \in Nodes : s.priority[n] \in Priorities[n]
  <2> TAKE n \in Nodes
  <2>1. s.priority[n] = CHOOSE p \in Priorities[n] : TRUE
    BY <1>1
  <2> QED  BY <1>4, <2>1
<1>6. NodesTyped(s)
  BY <1>1, <1>5 DEF NodesTyped, FailoverConstants, TheFailover!Status
<1>7. WatchTyped(s)
  BY <1>1, <1>2, <1>3, <1>6 DEF WatchTyped, LeaderTyped, FailoverTimersTyped
<1>8. Watched(s) \subseteq Nodes
  BY <1>6, WatchedNodes
<1>9. OneFlag(s) /\ RecoveriesPending(s)
  BY <1>1, <1>8 DEF OneFlag, RecoveriesPending
<1> QED  BY <1>7, <1>9 DEF TheFailover!Init, FailoverInv, Sound, s

LEMMA FailoverStep ==
    ASSUME FailoverConstants, FailoverInv, [TheFailover!Next]_(TheFailover!vars)
    PROVE  FailoverInv'
<1>1. ASSUME NEW silent, TheFailover!HealthCheck(silent) PROVE FailoverInv'
  BY <1>1, HealthCheckKeeps
<1>2. ASSUME NEW n \in Nodes, NEW h, TheFailover!UpdateNodeHealth(n, h) PROVE FailoverInv'
  BY <1>2, UpdateNodeHealthKeeps
<1>3. ASSUME NEW n \in Nodes, TheFailover!MarkNodeRecovered(n) PROVE FailoverInv'
  BY <1>3, MarkNodeRecoveredKeeps
<1>4. ASSUME NEW n \in Nodes,
             \/ TheFailover!AttemptNodeRecovery(n) \/ TheFailover!AttemptSucceeds(n)
             \/ TheFailover!AttemptFails(n) \/ TheFailover!OrphanEnds(n)
      PROVE  FailoverInv'
  BY <1>4, AttemptsKeep
<1>5. ASSUME NEW n \in Nodes, TheFailover!AddNode(n) PROVE FailoverInv'
  BY <1>5, AddNodeKeeps
<1>6. ASSUME NEW n \in Nodes, TheFailover!RemoveNode(n) PROVE FailoverInv'
  BY <1>6, RemoveNodeKeeps
<1>7. ASSUME TheFailover!ForceLeaderElection PROVE FailoverInv'
  BY <1>7, ElectSound, WatchBecomes DEF FailoverInv, TheFailover!ForceLeaderElection
<1>8. ASSUME TheFailover!ForceFailover PROVE FailoverInv'
  BY <1>8, FailoverSound, WatchBecomes DEF FailoverInv, TheFailover!ForceFailover
<1>9. ASSUME TheFailover!StartOrStop PROVE FailoverInv'
  BY <1>9 DEF FailoverInv, TheFailover!StartOrStop, TheFailover!Now
<1>10. ASSUME NEW c \in Configs, TheFailover!UpdateConfig(c) PROVE FailoverInv'
  BY <1>10 DEF FailoverInv, TheFailover!UpdateConfig, TheFailover!Now
<1>11. ASSUME UNCHANGED TheFailover!vars PROVE FailoverInv'
  BY <1>11 DEF FailoverInv, TheFailover!vars, TheFailover!Now
<1> QED  BY <1>1, <1>2, <1>3, <1>4, <1>5, <1>6, <1>7, <1>8, <1>9, <1>10, <1>11 DEF TheFailover!Next

\* Sets of nodes are counted in the same way in both modules.
LEMMA FailoverCardinality == \A S : TheFailover!Cardinality(S) = Cardinality(S)
BY DEF TheFailover!Cardinality, Cardinality

LEMMA FailoverInvSays ==
    ASSUME FailoverInv
    PROVE  TheFailover!TypeOK /\ TheFailover!OneLeader /\ TheFailover!RecoveringEnds
<1> DEFINE s == TheFailover!Now
<1>1. /\ s.nodes = fNodes /\ s.status = fStatus /\ s.failures = fFailures
      /\ s.priority = priority /\ s.flagged = flagged /\ s.leader = leader
      /\ s.failover = failover /\ s.timers = fTimers
  BY DEF TheFailover!Now
<1>2. Sound(s)
  BY DEF FailoverInv
<1> HIDE DEF s
<1>3. TheFailover!ToSet(fNodes) = Watched(s) /\ Watched(s) \subseteq Nodes
  BY <1>1, <1>2, WatchedNodes DEF Watched, TheFailover!ToSet, Sound, WatchTyped
<1>4. TheFailover!TypeOK
  BY <1>1, <1>2, <1>3 DEF FailoverInv, Sound, WatchTyped, NodesTyped, LeaderTyped, FailoverTimersTyped, OneFlag, TheFailover!TypeOK
<1>5. Cardinality(flagged) <= 1
  <2>1. CASE flagged = {}
    BY <2>1, FS_EmptySet
  <2>2. ASSUME NEW n \in flagged PROVE Cardinality(flagged) <= 1
    <3>1. flagged = {n}
      BY <1>1, <1>2 DEF Sound, OneFlag
    <3>2. Cardinality({n}) = 1
      BY FS_Singleton
    <3> QED  BY <3>1, <3>2
  <2> QED  BY <2>1, <2>2
<1>6. TheFailover!OneLeader
  BY <1>1, <1>2, <1>5, FailoverCardinality DEF Sound, OneFlag, TheFailover!OneLeader
<1>7. TheFailover!RecoveringEnds
  BY <1>1, <1>2, InWatched DEF Sound, RecoveriesPending, TheFailover!RecoveringEnds, TheFailover!Pending, TheFailover!BagIn,
     TheFailover!BagToSet, s
<1> QED  BY <1>4, <1>6, <1>7

\* AutomaticFailover keeps at most one leader, the one on record if any is, and a
\* timer for every node that recovers: for any number of nodes, reports, attempts,
\* replacements and elections, in any order.
THEOREM LeaderAlwaysOne ==
    ASSUME FailoverConstants
    PROVE  TheFailover!Spec => [](TheFailover!TypeOK /\ OneLeader /\ TheFailover!RecoveringEnds)
<1>1. TheFailover!Spec => []FailoverInv
  BY FailoverInit, FailoverStep, PTL DEF TheFailover!Spec
<1> QED  BY <1>1, FailoverInvSays, PTL DEF OneLeader

\* A check that ends outside failover mode saw enough active nodes; if the leader
\* was not one of them it held an election, and one of them won.
LEMMA CheckWatches ==
    ASSUME FailoverConstants, ActiveNeeded, FailoverInv, NEW silent, TheFailover!HealthCheck(silent), ~failover'
    PROVE  ~ TheFailover!LeaderInactive(TheFailover!Now)'
<1> DEFINE turned == TheFailover!AfterTurns(silent)
           checked == TheFailover!CheckConditions(turned)
           elected == TheFailover!Elect(turned)
<1>1. TheFailover!Become(checked)
  BY DEF TheFailover!HealthCheck
<1>2. Sound(turned)
  BY AfterTurnsSound DEF FailoverInv
<1>3. checked.failover # TRUE
  BY <1>1 DEF TheFailover!Become
<1>4. TheFailover!LeaderInactive(TheFailover!Now)' => TheFailover!LeaderInactive(checked)
  BY <1>1 DEF TheFailover!Become, TheFailover!LeaderInactive, TheFailover!Now
<1> HIDE DEF turned
<1>5. \/ checked = TheFailover!Failover(turned)
      \/ /\ ~ (TheFailover!Cardinality(TheFailover!In(turned, "ACTIVE")) < config.minActive)
         /\ \/ TheFailover!LeaderInactive(turned) /\ checked = elected
            \/ ~ TheFailover!LeaderInactive(turned) /\ checked = turned
  BY DEF TheFailover!CheckConditions
<1> HIDE DEF checked, elected
<1>6. checked # TheFailover!Failover(turned)
  BY <1>2, <1>3, FailoverKeeps DEF Sound
<1>7. ASSUME ~ (TheFailover!Cardinality(TheFailover!In(turned, "ACTIVE")) < config.minActive), checked = elected
      PROVE  ~ TheFailover!LeaderInactive(checked)
  <2>1. TheFailover!In(turned, "ACTIVE") # {}
    <3>1. config.minActive \in Nat \ {0} /\ Cardinality({}) = 0
      BY FS_EmptySet DEF FailoverInv, ActiveNeeded
    <3>2. TheFailover!Cardinality({}) = 0
      BY <3>1, FailoverCardinality
    <3> QED  BY <1>7, <3>1, <3>2
  <2>2. PICK w \in TheFailover!In(turned, "ACTIVE") : elected.leader = w
    BY <1>2, <2>1, ElectKeeps DEF Sound, elected
  <2>3. elected.status = turned.status
    BY <1>2, ElectKeeps DEF Sound, SameWatch, elected
  <2>4. turned.status[w] = "ACTIVE"
    BY <2>2, InWatched
  <2> QED  BY <1>7, <2>2, <2>3, <2>4 DEF TheFailover!LeaderInactive
<1> QED  BY <1>4, <1>5, <1>6, <1>7

\* No periodic check leaves a leader in charge that is not active, unless it goes
\* into failover mode: whichever nodes fail in the course of it.
THEOREM LeaderAlwaysWatched ==
    ASSUME FailoverConstants, ActiveNeeded
    PROVE  TheFailover!Spec => LeaderWatched
<1>1. ASSUME FailoverInv, TheFailover!LeaderInactive(TheFailover!Now)', ~failover'
      PROVE  ~ \E silent \in SUBSET Nodes : TheFailover!HealthCheck(silent)
  BY <1>1, CheckWatches
<1>2. FailoverInv => [TheFailover!NotLeftByCheck]_(TheFailover!vars)
  BY <1>1 DEF TheFailover!NotLeftByCheck
<1>3. TheFailover!Spec => []FailoverInv
  BY FailoverInit, FailoverStep, PTL DEF TheFailover!Spec
<1> QED  BY <1>2, <1>3, PTL DEF LeaderWatched, TheFailover!LeaderWatched, TheFailover!Spec

-----------------------------------------------------------------------------
\* NetworkPartitionHandler.
PartitionConstants == Watcher \in Members /\ None \notin ThePartition!Partitions

\* Its bag of timers: what scheduling some and firing one leave.
LEMMA ReconnectionBags ==
    ASSUME NEW B, ThePartition!IsABag(B), NEW x, NEW S
    PROVE  /\ ThePartition!IsABag(ThePartition!BagAdd(B, x))
           /\ DOMAIN ThePartition!BagAdd(B, x) = DOMAIN B \cup {x}
           /\ ThePartition!IsABag(ThePartition!BagRemove(B, x))
           /\ DOMAIN ThePartition!BagRemove(B, x) \subseteq DOMAIN B
           /\ DOMAIN B \ {x} \subseteq DOMAIN ThePartition!BagRemove(B, x)
           /\ ThePartition!IsABag(ThePartition!(+)(B, ThePartition!SetToBag(S)))
           /\ DOMAIN ThePartition!(+)(B, ThePartition!SetToBag(S)) = DOMAIN B \cup S
<1>1. \A e \in DOMAIN B : B[e] \in Nat /\ B[e] > 0
  BY DEF ThePartition!IsABag
<1>2. ThePartition!IsABag(ThePartition!BagAdd(B, x))
  BY <1>1 DEF ThePartition!IsABag, ThePartition!BagAdd
<1>3. ThePartition!IsABag(ThePartition!BagRemove(B, x))
  BY <1>1 DEF ThePartition!IsABag, ThePartition!BagRemove
<1>4. /\ DOMAIN ThePartition!BagRemove(B, x) \subseteq DOMAIN B
      /\ DOMAIN B \ {x} \subseteq DOMAIN ThePartition!BagRemove(B, x)
  BY DEF ThePartition!BagRemove
<1>5. ThePartition!IsABag(ThePartition!(+)(B, ThePartition!SetToBag(S)))
  BY <1>1 DEF ThePartition!IsABag, ThePartition!(+), ThePartition!SetToBag
<1>6. DOMAIN ThePartition!(+)(B, ThePartition!SetToBag(S)) = DOMAIN B \cup S
  BY DEF ThePartition!(+), ThePartition!SetToBag
<1> QED  BY <1>2, <1>3, <1>4, <1>5, <1>6 DEF ThePartition!BagAdd

\* The invariant, in the parts that the actions disturb.
StatusTyped == pNodes \subseteq Members /\ pStatus \in [Members -> ThePartition!Status]

PartitionTyped == partition \in ThePartition!Partitions \cup {None}

SideTyped == syncTimer \in BOOLEAN /\ paused \in BOOLEAN

TimersTyped == ThePartition!IsABag(pTimers) /\ DOMAIN pTimers \subseteq ThePartition!Kinds \X Members

SideFollowed == (paused <=> ThePartition!Minority) /\ (syncTimer => ThePartition!Split /\ partition.majority)

Reconnects == ThePartition!Minority => <<"recovery", Watcher>> \in DOMAIN pTimers

RecoveriesEnd == \A n \in pNodes : pStatus[n] = "RECOVERING" => <<"recovered", n>> \in DOMAIN pTimers

PartitionInv ==
    /\ StatusTyped /\ PartitionTyped /\ SideTyped /\ TimersTyped
    /\ SideFollowed /\ Reconnects /\ RecoveriesEnd

LEMMA PartitionInvExact ==
    PartitionInv <=> ThePartition!TypeOK /\ ThePartition!SideKept /\ ThePartition!RecoveringEnds
<1>1. ThePartition!SideKept <=> SideFollowed /\ Reconnects
  BY DEF ThePartition!SideKept, SideFollowed, Reconnects, ThePartition!Pending, ThePartition!BagIn, ThePartition!BagToSet
<1>2. ThePartition!RecoveringEnds <=> RecoveriesEnd
  BY DEF ThePartition!RecoveringEnds, RecoveriesEnd, ThePartition!In, ThePartition!Pending, ThePartition!BagIn, ThePartition!BagToSet
<1>3. ThePartition!TypeOK <=> StatusTyped /\ PartitionTyped /\ SideTyped /\ TimersTyped
  BY DEF ThePartition!TypeOK, StatusTyped, PartitionTyped, SideTyped, TimersTyped
<1> QED  BY <1>1, <1>2, <1>3 DEF PartitionInv

LEMMA PartitionInit ==
    ASSUME PartitionConstants, ThePartition!Init
    PROVE  PartitionInv
<1>1. ThePartition!IsABag(pTimers) /\ DOMAIN pTimers = {}
  BY DEF ThePartition!Init, ThePartition!EmptyBag, ThePartition!SetToBag, ThePartition!IsABag
<1> QED
  BY <1>1 DEF PartitionConstants, ThePartition!Init, PartitionInv, StatusTyped, PartitionTyped, SideTyped,
     TimersTyped, SideFollowed, Reconnects, RecoveriesEnd, ThePartition!Minority, ThePartition!Split, ThePartition!Status

\* resolvePartition, and a check that may come to it: no node starts to recover
\* in it, and the side is left only together with its timer and its pause.
LEMMA ResolutionKeeps ==
    ASSUME PartitionInv, NEW st \in [Members -> ThePartition!Status],
           ThePartition!Resolve(st) \/ ThePartition!CheckResolution(st)
    PROVE  /\ pStatus' \in [Members -> ThePartition!Status] /\ PartitionTyped' /\ SideTyped' /\ SideFollowed'
           /\ partition' \in {partition, None}
           /\ \A n \in Members : pStatus'[n] = "RECOVERING" => st[n] = "RECOVERING"
<1>1. CASE ThePartition!Resolve(st)
  BY <1>1 DEF ThePartition!Resolve, ThePartition!Status, PartitionTyped, SideTyped, SideFollowed,
     ThePartition!Minority, ThePartition!Split
<1>2. CASE pStatus' = st /\ UNCHANGED <<partition, syncTimer, paused>>
  BY <1>2 DEF PartitionInv, PartitionTyped, SideTyped, SideFollowed, ThePartition!Minority, ThePartition!Split
<1> QED  BY <1>1, <1>2 DEF ThePartition!CheckResolution

\* createPartitionInfo, from a node that saw no partition: it was not paused,
\* nor did it synchronise, so what the other side would do is not under way.
LEMMA DetectionKeeps ==
    ASSUME PartitionInv, PartitionConstants, ~ThePartition!Split,
           NEW st \in [Members -> ThePartition!Status], NEW connected,
           ThePartition!Detect(st, connected)
    PROVE  /\ pStatus' = st /\ PartitionTyped' /\ SideTyped' /\ SideFollowed' /\ TimersTyped' /\ Reconnects'
           /\ DOMAIN pTimers \subseteq DOMAIN pTimers'
<1> DEFINE added == ThePartition!BagAdd(pTimers, <<"recovery", Watcher>>)
<1> DEFINE majority == ThePartition!Majority(connected)
<1>0. majority \in BOOLEAN
  BY DEF ThePartition!Majority
<1>1. /\ partition' = [isolated |-> pNodes \ connected, majority |-> majority]
      /\ IF majority THEN syncTimer' = TRUE /\ pTimers' = pTimers /\ paused' = paused
         ELSE paused' = TRUE /\ pTimers' = added /\ syncTimer' = syncTimer
  BY DEF ThePartition!Detect
<1>2. ~paused /\ ~syncTimer
  BY DEF PartitionInv, SideFollowed, ThePartition!Minority
<1>3. pStatus' = st
  BY DEF ThePartition!Detect
<1>5. ThePartition!IsABag(added) /\ DOMAIN added = DOMAIN pTimers \cup {<<"recovery", Watcher>>}
  BY ReconnectionBags DEF PartitionInv, TimersTyped
<1> HIDE DEF added, majority
<1>6. /\ partition' \in ThePartition!Partitions /\ partition' # None
      /\ partition'.majority = majority
  BY <1>0, <1>1 DEF PartitionInv, PartitionConstants, StatusTyped, ThePartition!Partitions
<1>7. ThePartition!Split' /\ (ThePartition!Minority' <=> ~majority)
  BY <1>6 DEF ThePartition!Split, ThePartition!Minority
<1>8. PartitionTyped' /\ SideTyped' /\ SideFollowed'
  BY <1>0, <1>1, <1>2, <1>6, <1>7 DEF PartitionTyped, SideTyped, SideFollowed, PartitionInv
<1>9. <<"recovery", Watcher>> \in ThePartition!Kinds \X Members
  BY DEF PartitionConstants, ThePartition!Kinds
<1>10. TimersTyped' /\ Reconnects' /\ DOMAIN pTimers \subseteq DOMAIN pTimers'
  BY <1>1, <1>5, <1>7, <1>9 DEF PartitionInv, TimersTyped, Reconnects
<1> QED  BY <1>3, <1>8, <1>10

LEMMA CheckKeeps ==
    ASSUME PartitionInv, PartitionConstants, NEW silent, NEW veryLate,
           ThePartition!PartitionCheck(silent, veryLate)
    PROVE  PartitionInv'
<1> DEFINE st == [n \in Members |->
                   CASE n \in silent /\ pStatus[n] = "CONNECTED" -> "SUSPECTED"
                     [] n \in veryLate /\ pStatus[n] = "SUSPECTED" -> "PARTITIONED"
                     [] OTHER -> pStatus[n]]
           connected == ThePartition!In(st, {"CONNECTED"})
<1>1. /\ \/ ~ThePartition!Split /\ ThePartition!Detect(st, connected)
         \/ ThePartition!CheckResolution(st) /\ pTimers' = pTimers
      /\ pNodes' = pNodes
  BY DEF ThePartition!PartitionCheck
<1>2. pStatus \in [Members -> ThePartition!Status] /\ pNodes \subseteq Members
  BY DEF PartitionInv, StatusTyped
<1>3. st \in [Members -> ThePartition!Status]
  BY <1>2 DEF ThePartition!Status
<1>4. \A n \in Members : st[n] = "RECOVERING" => pStatus[n] = "RECOVERING"
  BY <1>2 DEF ThePartition!Status
<1> HIDE DEF st, connected
<1>5. CASE ~ThePartition!Split /\ ThePartition!Detect(st, connected)
  <2>1. /\ pStatus' = st /\ PartitionTyped' /\ SideTyped' /\ SideFollowed' /\ TimersTyped' /\ Reconnects'
        /\ DOMAIN pTimers \subseteq DOMAIN pTimers'
    BY <1>3, <1>5, DetectionKeeps
  <2>2. StatusTyped' /\ RecoveriesEnd'
    BY <1>1, <1>2, <1>3, <1>4, <2>1 DEF PartitionInv, StatusTyped, RecoveriesEnd
  <2> QED  BY <2>1, <2>2 DEF PartitionInv
<1>6. CASE ThePartition!CheckResolution(st) /\ pTimers' = pTimers
  <2>1. /\ pStatus' \in [Members -> ThePartition!Status] /\ PartitionTyped' /\ SideTyped' /\ SideFollowed'
        /\ partition' \in {partition, None}
        /\ \A n \in Members : pStatus'[n] = "RECOVERING" => st[n] = "RECOVERING"
    BY <1>3, <1>6, ResolutionKeeps
  <2>2. StatusTyped' /\ RecoveriesEnd'
    BY <1>1, <1>2, <1>4, <1>6, <2>1 DEF PartitionInv, StatusTyped, RecoveriesEnd
  <2>3. TimersTyped' /\ Reconnects'
    BY <1>6, <2>1 DEF PartitionInv, TimersTyped, Reconnects, ThePartition!Minority, ThePartition!Split
  <2> QED  BY <2>1, <2>2, <2>3 DEF PartitionInv
<1> QED  BY <1>1, <1>5, <1>6

\* updateHeartbeat, also at the end of a reconnection: whoever starts to recover
\* gets the timer that ends it.
LEMMA HearingKeeps ==
    ASSUME PartitionInv, NEW n \in Members, NEW bag,
           ThePartition!IsABag(bag), DOMAIN bag \subseteq DOMAIN pTimers,
           \A x \in DOMAIN pTimers : x[1] # "reconnect" => x \in DOMAIN bag,
           ThePartition!Hear(n, bag) \/ (pTimers' = bag /\ UNCHANGED pStatus),
           UNCHANGED <<pNodes, partition, syncTimer, paused>>
    PROVE  PartitionInv'
<1> DEFINE timer == <<"recovered", n>>
<1>1. timer \in ThePartition!Kinds \X Members
  BY DEF ThePartition!Kinds
<1>2. ThePartition!IsABag(ThePartition!BagAdd(bag, timer)) /\ DOMAIN ThePartition!BagAdd(bag, timer) = DOMAIN bag \cup {timer}
  BY ReconnectionBags
<1>3. \/ /\ pStatus' = [pStatus EXCEPT ![n] = "RECOVERING"]
         /\ pTimers' = ThePartition!BagAdd(bag, timer)
      \/ pTimers' = bag /\ pStatus' = pStatus
  BY DEF ThePartition!Hear
<1> HIDE DEF timer
<1>4. TimersTyped' /\ DOMAIN bag \subseteq DOMAIN pTimers'
  BY <1>1, <1>2, <1>3 DEF PartitionInv, TimersTyped
<1>5. StatusTyped'
  BY <1>3 DEF PartitionInv, StatusTyped, ThePartition!Status
<1>6. Reconnects'
  <2>1. <<"recovery", Watcher>>[1] # "reconnect"
    OBVIOUS
  <2> QED  BY <1>4, <2>1 DEF PartitionInv, Reconnects, ThePartition!Minority, ThePartition!Split
<1>7. RecoveriesEnd'
  <2> SUFFICES ASSUME NEW m \in pNodes', pStatus'[m] = "RECOVERING"
               PROVE  <<"recovered", m>> \in DOMAIN pTimers'
    BY DEF RecoveriesEnd
  <2>1. CASE m = n /\ pTimers' = ThePartition!BagAdd(bag, timer)
    BY <1>2, <2>1 DEF timer
  <2>2. CASE ~(m = n /\ pTimers' = ThePartition!BagAdd(bag, timer))
    <3>1. pStatus[m] = "RECOVERING"
      BY <1>3, <2>2 DEF PartitionInv, StatusTyped
    <3>2. <<"recovered", m>> \in DOMAIN pTimers /\ <<"recovered", m>>[1] # "reconnect"
      BY <3>1 DEF PartitionInv, RecoveriesEnd
    <3> QED  BY <1>4, <3>2
  <2> QED  BY <2>1, <2>2
<1>8. PartitionTyped' /\ SideTyped' /\ SideFollowed'
  BY DEF PartitionInv, PartitionTyped, SideTyped, SideFollowed, ThePartition!Minority, ThePartition!Split
<1> QED  BY <1>4, <1>5, <1>6, <1>7, <1>8 DEF PartitionInv

\* markNodeRecovered takes the timer of n away, and n does not recover any more.
LEMMA MarkingKeeps ==
    ASSUME PartitionInv, NEW n \in Members, ThePartition!MarkNodeRecovered(n)
    PROVE  PartitionInv'
<1> DEFINE st == [pStatus EXCEPT ![n] = "CONNECTED"]
           timer == <<"recovered", n>>
<1>1. /\ pTimers' = ThePartition!BagRemove(pTimers, timer) /\ pNodes' = pNodes
      /\ \/ ThePartition!CheckResolution(st)
         \/ /\ ~(n \in pNodes /\ pStatus[n] \in {"RECOVERING", "SUSPECTED"})
            /\ UNCHANGED <<pStatus, partition, syncTimer, paused>>
  BY DEF ThePartition!MarkNodeRecovered
<1>2. pStatus \in [Members -> ThePartition!Status] /\ pNodes \subseteq Members
  BY DEF PartitionInv, StatusTyped
<1>3. st \in [Members -> ThePartition!Status] /\ st[n] = "CONNECTED" /\ \A m \in Members \ {n} : st[m] = pStatus[m]
  BY <1>2 DEF ThePartition!Status
<1>4. /\ ThePartition!IsABag(pTimers') /\ DOMAIN pTimers' \subseteq DOMAIN pTimers
      /\ DOMAIN pTimers \ {timer} \subseteq DOMAIN pTimers'
  BY <1>1, ReconnectionBags DEF PartitionInv, TimersTyped
<1>5. TimersTyped'
  BY <1>4 DEF PartitionInv, TimersTyped
<1>6. /\ \A m \in Members \ {n} : <<"recovered", m>> \in DOMAIN pTimers => <<"recovered", m>> \in DOMAIN pTimers'
      /\ <<"recovery", Watcher>> \in DOMAIN pTimers => <<"recovery", Watcher>> \in DOMAIN pTimers'
  BY <1>4
<1> HIDE DEF st, timer
<1>7. /\ pStatus' \in [Members -> ThePartition!Status] /\ PartitionTyped' /\ SideTyped' /\ SideFollowed'
      /\ partition' \in {partition, None}
      /\ \A m \in pNodes : pStatus'[m] = "RECOVERING" => m # n /\ pStatus[m] = "RECOVERING"
  <2>1. CASE ThePartition!CheckResolution(st)
    BY <1>2, <1>3, <2>1, ResolutionKeeps
  <2>2. CASE /\ ~(n \in pNodes /\ pStatus[n] \in {"RECOVERING", "SUSPECTED"})
             /\ UNCHANGED <<pStatus, partition, syncTimer, paused>>
    <3>1. PartitionTyped' /\ SideTyped' /\ SideFollowed'
      BY <2>2 DEF PartitionInv, PartitionTyped, SideTyped, SideFollowed, ThePartition!Minority, ThePartition!Split
    <3> QED  BY <1>2, <2>2, <3>1
  <2> QED  BY <1>1, <2>1, <2>2
<1>8. StatusTyped' /\ RecoveriesEnd'
  BY <1>1, <1>2, <1>6, <1>7 DEF PartitionInv, StatusTyped, RecoveriesEnd
<1>9. Reconnects'
  BY <1>6, <1>7 DEF PartitionInv, Reconnects, ThePartition!Minority, ThePartition!Split
<1> QED  BY <1>5, <1>7, <1>8, <1>9 DEF PartitionInv

\* scheduleRecoveryAttempts takes its own timer away only once no partition lasts.
LEMMA RoundKeeps ==
    ASSUME PartitionInv, ThePartition!RecoveryRound
    PROVE  PartitionInv'
<1> DEFINE own == <<"recovery", Watcher>>
           tries == {"reconnect"} \X partition.isolated
<1>1. UNCHANGED <<pNodes, pStatus, partition, syncTimer, paused>>
  BY DEF ThePartition!RecoveryRound
<1>2. CASE ThePartition!Split
  <2>1. pTimers' = ThePartition!(+)(pTimers, ThePartition!SetToBag(tries))
    BY <1>2 DEF ThePartition!RecoveryRound
  <2>2. ThePartition!IsABag(pTimers') /\ DOMAIN pTimers' = DOMAIN pTimers \cup tries
    BY <2>1, ReconnectionBags DEF PartitionInv, TimersTyped
  <2>3. tries \subseteq ThePartition!Kinds \X Members
    BY <1>2 DEF PartitionInv, PartitionTyped, ThePartition!Split, ThePartition!Partitions, ThePartition!Kinds
  <2> HIDE DEF tries
  <2> QED
    BY <1>1, <2>2, <2>3 DEF PartitionInv, StatusTyped, PartitionTyped, SideTyped, TimersTyped, SideFollowed,
       Reconnects, RecoveriesEnd, ThePartition!Minority, ThePartition!Split
<1>3. CASE ~ThePartition!Split
  <2>1. pTimers' = ThePartition!BagRemove(pTimers, own)
    BY <1>3 DEF ThePartition!RecoveryRound
  <2>2. /\ ThePartition!IsABag(pTimers') /\ DOMAIN pTimers' \subseteq DOMAIN pTimers
        /\ DOMAIN pTimers \ {own} \subseteq DOMAIN pTimers'
    BY <2>1, ReconnectionBags DEF PartitionInv, TimersTyped
  <2>3. RecoveriesEnd'
    BY <1>1, <2>2 DEF PartitionInv, RecoveriesEnd
  <2> QED
    BY <1>1, <1>3, <2>2, <2>3 DEF PartitionInv, StatusTyped, PartitionTyped, SideTyped, TimersTyped, SideFollowed,
       Reconnects, ThePartition!Minority, ThePartition!Split
<1> QED  BY <1>2, <1>3

LEMMA PartitionStep ==
    ASSUME PartitionConstants, PartitionInv, [ThePartition!Next]_(ThePartition!vars)
    PROVE  PartitionInv'
<1> USE DEF PartitionInv, StatusTyped, PartitionTyped, SideTyped, TimersTyped, SideFollowed, Reconnects, RecoveriesEnd
<1>1. ASSUME NEW n \in Members, ThePartition!UpdateHeartbeat(n) PROVE PartitionInv'
  BY <1>1, HearingKeeps DEF ThePartition!UpdateHeartbeat
<1>2. ASSUME NEW n \in Members, ThePartition!ReconnectionEnds(n) PROVE PartitionInv'
  <2> DEFINE bag == ThePartition!BagRemove(pTimers, <<"reconnect", n>>)
  <2>1. /\ ThePartition!IsABag(bag) /\ DOMAIN bag \subseteq DOMAIN pTimers
        /\ DOMAIN pTimers \ {<<"reconnect", n>>} \subseteq DOMAIN bag
    BY ReconnectionBags
  <2>2. \A x \in DOMAIN pTimers : x[1] # "reconnect" => x \in DOMAIN bag
    BY <2>1
  <2>3. /\ ThePartition!Hear(n, bag) \/ (pTimers' = bag /\ UNCHANGED pStatus)
        /\ UNCHANGED <<pNodes, partition, syncTimer, paused>>
    BY <1>2 DEF ThePartition!ReconnectionEnds
  <2> HIDE DEF bag, PartitionInv
  <2> QED  BY <2>1, <2>2, <2>3, HearingKeeps
<1>3. ASSUME NEW n \in Members, ThePartition!AddNode(n) \/ ThePartition!RemoveNode(n) PROVE PartitionInv'
  <2>1. StatusTyped' /\ RecoveriesEnd'
    BY <1>3 DEF ThePartition!AddNode, ThePartition!RemoveNode, ThePartition!Status
  <2> QED  BY <1>3, <2>1 DEF ThePartition!AddNode, ThePartition!RemoveNode, ThePartition!Minority, ThePartition!Split
<1>4. CASE ThePartition!SyncRound
  BY <1>4 DEF ThePartition!SyncRound, ThePartition!Minority, ThePartition!Split
<1>5. CASE ThePartition!ForcePartitionResolution
  <2>1. ThePartition!Resolve(pStatus) /\ UNCHANGED <<pNodes, pTimers>>
    BY <1>5 DEF ThePartition!ForcePartitionResolution
  <2>2. /\ pStatus' \in [Members -> ThePartition!Status] /\ PartitionTyped' /\ SideTyped' /\ SideFollowed'
        /\ partition' \in {partition, None}
        /\ \A n \in Members : pStatus'[n] = "RECOVERING" => pStatus[n] = "RECOVERING"
    BY <2>1, ResolutionKeeps
  <2> QED  BY <2>1, <2>2 DEF ThePartition!Minority, ThePartition!Split
<1>6. CASE ThePartition!Stop
  BY <1>6 DEF ThePartition!Stop, ThePartition!Minority, ThePartition!Split
<1>7. CASE UNCHANGED ThePartition!vars
  BY <1>7 DEF ThePartition!vars, ThePartition!Minority, ThePartition!Split
<1> HIDE DEF PartitionInv
<1> QED
  BY <1>1, <1>2, <1>3, <1>4, <1>5, <1>6, <1>7, CheckKeeps, MarkingKeeps, RoundKeeps DEF ThePartition!Next

\* Whatever timers earlier partitions and silences left behind, consensus is
\* paused exactly while the node sees itself in a minority, it then never stops
\* trying to reconnect and only the other side synchronises, and every node that
\* is recovering has the timer that ends it: for every set of nodes.
THEOREM SideAlwaysKept ==
    ASSUME PartitionConstants
    PROVE  ThePartition!Spec => [](ThePartition!TypeOK /\ SideKept /\ ThePartition!RecoveringEnds)
<1>1. ThePartition!Spec => []PartitionInv
  BY PartitionInit, PartitionStep, PTL DEF ThePartition!Spec
<1> QED  BY <1>1, PartitionInvExact, PTL DEF SideKept

-----------------------------------------------------------------------------
\* ConsensusRecovery.  Its bag of timers: what scheduling and firing leave.
LEMMA StageBags ==
    ASSUME NEW B, TheRecovery!IsABag(B), NEW x
    PROVE  /\ TheRecovery!IsABag(TheRecovery!BagAdd(B, x))
           /\ DOMAIN TheRecovery!BagAdd(B, x) = DOMAIN B \cup {x}
           /\ TheRecovery!IsABag(TheRecovery!BagRemove(B, x))
           /\ DOMAIN TheRecovery!BagRemove(B, x) \subseteq DOMAIN B
           /\ DOMAIN B \ {x} \subseteq DOMAIN TheRecovery!BagRemove(B, x)
<1>1. \A e \in DOMAIN B : B[e] \in Nat /\ B[e] > 0
  BY DEF TheRecovery!IsABag
<1>2. TheRecovery!IsABag(TheRecovery!BagAdd(B, x))
  BY <1>1 DEF TheRecovery!IsABag, TheRecovery!BagAdd
<1>3. TheRecovery!IsABag(TheRecovery!BagRemove(B, x))
  BY <1>1 DEF TheRecovery!IsABag, TheRecovery!BagRemove
<1>4. DOMAIN TheRecovery!BagAdd(B, x) = DOMAIN B \cup {x}
  BY DEF TheRecovery!BagAdd
<1> QED  BY <1>2, <1>3, <1>4 DEF TheRecovery!BagRemove

RecoveryConstants == MaxRound \in Nat /\ MaxRecoveryAttempts \in Nat

LEMMA RecoveryInit ==
    ASSUME RecoveryConstants, TheRecovery!Init
    PROVE  TheRecovery!TypeOK /\ TheRecovery!RecoveryCarriedOn
<1>1. TheRecovery!IsABag(rTimers) /\ DOMAIN rTimers = {}
  BY DEF TheRecovery!Init, TheRecovery!EmptyBag, TheRecovery!SetToBag, TheRecovery!IsABag
<1> QED
  BY <1>1 DEF RecoveryConstants, TheRecovery!Init, TheRecovery!TypeOK, TheRecovery!RecoveryCarriedOn

\* A stage or a wait fires and, unless the recovery ends, schedules another.
LEMMA StageFires ==
    ASSUME TheRecovery!TypeOK, NEW from, TheRecovery!Fire(from)
    PROVE  /\ TheRecovery!IsABag(rTimers')
           /\ DOMAIN rTimers' \subseteq DOMAIN rTimers
           /\ DOMAIN rTimers \ {from} \subseteq DOMAIN rTimers'
BY StageBags DEF TheRecovery!TypeOK, TheRecovery!Fire

LEMMA StageMoves ==
    ASSUME TheRecovery!TypeOK, NEW from, NEW to, TheRecovery!Move(from, to)
    PROVE  /\ TheRecovery!IsABag(rTimers')
           /\ DOMAIN rTimers' \subseteq DOMAIN rTimers \cup {to}
           /\ DOMAIN rTimers \ {from} \subseteq DOMAIN rTimers'
           /\ to \in DOMAIN rTimers'
<1> DEFINE fired == TheRecovery!BagRemove(rTimers, from)
<1>1. /\ TheRecovery!IsABag(fired) /\ DOMAIN fired \subseteq DOMAIN rTimers
      /\ DOMAIN rTimers \ {from} \subseteq DOMAIN fired
  BY StageBags DEF TheRecovery!TypeOK
<1>2. rTimers' = TheRecovery!BagAdd(fired, to)
  BY DEF TheRecovery!Move
<1> HIDE DEF fired
<1>3. TheRecovery!IsABag(rTimers') /\ DOMAIN rTimers' = DOMAIN fired \cup {to}
  BY <1>1, <1>2, StageBags
<1> QED  BY <1>1, <1>3

\* Only the wait for a standard recovery, and a completion or an emergency, which
\* leave mode RECOVERY, schedule nothing.
LEMMA RecoveryStep ==
    ASSUME RecoveryConstants, TheRecovery!TypeOK, TheRecovery!RecoveryCarriedOn,
           [TheRecovery!Next]_(TheRecovery!vars)
    PROVE  TheRecovery!TypeOK' /\ TheRecovery!RecoveryCarriedOn'
<1> DEFINE Known == TheRecovery!Stages \cup TheRecovery!Waits
           Carried == mode = "RECOVERY" => \E stage \in TheRecovery!Stages : stage \in DOMAIN rTimers
           StageTyped == /\ mode \in {"NORMAL", "RECOVERY", "EMERGENCY"}
                         /\ target \in 0 .. MaxRound /\ successful \in 0 .. MaxRound
                         /\ attempts \in 0 .. MaxRecoveryAttempts
                         /\ mode = "EMERGENCY" => attempts = MaxRecoveryAttempts
           Timed == TheRecovery!IsABag(rTimers) /\ DOMAIN rTimers \subseteq Known
<1>0. RecoveryConstants /\ StageTyped /\ Timed /\ Carried
  BY DEF TheRecovery!TypeOK, TheRecovery!RecoveryCarriedOn, TheRecovery!BagIn, TheRecovery!BagToSet
<1> SUFFICES StageTyped' /\ Timed' /\ Carried'
  BY DEF TheRecovery!TypeOK, TheRecovery!RecoveryCarriedOn, TheRecovery!BagIn, TheRecovery!BagToSet
<1>1. ASSUME NEW from \in Known, NEW to \in TheRecovery!Stages, TheRecovery!Move(from, to)
      PROVE  Timed' /\ Carried'
  BY <1>0, <1>1, StageMoves
<1>2. ASSUME NEW from \in TheRecovery!Stages, NEW to \in TheRecovery!Stages,
             TheRecovery!Move(from, to), TheRecovery!Keep
      PROVE  StageTyped' /\ Timed' /\ Carried'
  BY <1>0, <1>1, <1>2 DEF TheRecovery!Keep
<1>3. CASE TheRecovery!StartSynchronization
  BY <1>2, <1>3 DEF TheRecovery!StartSynchronization, TheRecovery!Stages
<1>4. CASE TheRecovery!SyncSucceeds
  BY <1>2, <1>4 DEF TheRecovery!SyncSucceeds, TheRecovery!Stages
<1>5. CASE TheRecovery!HandleSyncFailure
  <2>1. Timed' /\ Carried'
    BY <1>1, <1>5 DEF TheRecovery!HandleSyncFailure, TheRecovery!Stages
  <2> QED  BY <2>1, <1>0, <1>5 DEF TheRecovery!HandleSyncFailure, RecoveryConstants
<1>6. CASE TheRecovery!RetrySync
  BY <1>2, <1>6 DEF TheRecovery!RetrySync, TheRecovery!Stages
<1>7. CASE TheRecovery!EnterEmergencyMode
  <2>1. StageTyped' /\ Carried'
    BY <1>0, <1>7 DEF TheRecovery!EnterEmergencyMode, RecoveryConstants
  <2>2. Timed'
    BY <1>0, <1>7, StageFires, StageMoves DEF TheRecovery!EnterEmergencyMode, TheRecovery!Waits
  <2> QED  BY <2>1, <2>2
<1>8. CASE TheRecovery!VerificationFails
  BY <1>2, <1>8 DEF TheRecovery!VerificationFails, TheRecovery!Stages
<1>9. CASE TheRecovery!InconsistenciesFound
  BY <1>2, <1>9 DEF TheRecovery!InconsistenciesFound, TheRecovery!Stages
<1>10. CASE TheRecovery!VerifyResolved
  BY <1>2, <1>10 DEF TheRecovery!VerifyResolved, TheRecovery!Stages
<1>11. CASE TheRecovery!CompleteRecovery
  <2>1. StageTyped' /\ Carried'
    BY <1>0, <1>11 DEF TheRecovery!CompleteRecovery, RecoveryConstants
  <2>2. Timed'
    BY <1>0, <1>11, StageFires DEF TheRecovery!CompleteRecovery
  <2> QED  BY <2>1, <2>2
<1>12. CASE TheRecovery!WaitToStabilize
  <2>1. TheRecovery!Move("stabilize", "standard") /\ TheRecovery!Keep
    BY <1>12 DEF TheRecovery!WaitToStabilize
  <2>2. Timed' /\ DOMAIN rTimers \ {"stabilize"} \subseteq DOMAIN rTimers'
    BY <1>0, <2>1, StageMoves DEF TheRecovery!Waits
  <2> QED  BY <1>0, <2>1, <2>2 DEF TheRecovery!Keep, TheRecovery!Stages
<1>13. ASSUME NEW played \in 0 .. MaxRound, NEW bag, TheRecovery!Enter(played, bag),
              TheRecovery!IsABag(bag), DOMAIN bag \subseteq Known
       PROVE  StageTyped' /\ Timed' /\ Carried'
  <2>1. rTimers' = TheRecovery!BagAdd(bag, "analysis")
    BY <1>13 DEF TheRecovery!Enter
  <2>2. TheRecovery!IsABag(rTimers') /\ DOMAIN rTimers' = DOMAIN bag \cup {"analysis"}
    BY <1>13, <2>1, StageBags
  <2> QED  BY <1>0, <1>13, <2>2 DEF TheRecovery!Enter, TheRecovery!Stages, RecoveryConstants
<1>14. CASE TheRecovery!StandardRecovery
  <2> DEFINE bag == TheRecovery!BagRemove(rTimers, "standard")
  <2>1. /\ TheRecovery!IsABag(bag) /\ DOMAIN bag \subseteq Known
        /\ DOMAIN rTimers \ {"standard"} \subseteq DOMAIN bag
    BY <1>0, StageBags
  <2>2. CASE mode = "NORMAL"
    <3>1. TheRecovery!Enter(target + 1, bag) /\ target' <= MaxRound /\ target' = target + 1
      BY <1>14, <2>2 DEF TheRecovery!StandardRecovery, TheRecovery!Enter
    <3>2. target + 1 \in 0 .. MaxRound
      BY <1>0, <3>1 DEF RecoveryConstants
    <3> HIDE DEF bag
    <3> QED  BY <1>13, <2>1, <3>1, <3>2
  <2>3. CASE mode # "NORMAL"
    <3>1. rTimers' = bag /\ TheRecovery!Keep
      BY <1>14, <2>3 DEF TheRecovery!StandardRecovery
    <3> HIDE DEF bag
    <3> QED  BY <1>0, <2>1, <3>1 DEF TheRecovery!Keep, TheRecovery!Stages
  <2> QED  BY <2>2, <2>3
<1>15. ASSUME NEW played \in 1 .. MaxRound, TheRecovery!StartRecovery(played)
       PROVE  StageTyped' /\ Timed' /\ Carried'
  <2>1. played \in 0 .. MaxRound
    BY DEF RecoveryConstants
  <2> QED  BY <1>0, <1>13, <1>15, <2>1 DEF TheRecovery!StartRecovery
<1>16. CASE TheRecovery!ResetRecoveryState
  BY <1>0, <1>16 DEF TheRecovery!ResetRecoveryState, RecoveryConstants
<1>17. CASE UNCHANGED TheRecovery!vars
  BY <1>0, <1>17 DEF TheRecovery!vars
<1> QED
  BY <1>3, <1>4, <1>5, <1>6, <1>7, <1>8, <1>9, <1>10, <1>11, <1>12, <1>14, <1>15, <1>16, <1>17
     DEF TheRecovery!Next, TheRecovery!Callback

\* A recovery under way always has a stage pending that carries it on, and
\* emergency mode means that the attempts are used up: whatever fails, is
\* retried or is reset, for every number of attempts.
THEOREM RecoveryAlwaysCarriedOn ==
    ASSUME RecoveryConstants
    PROVE  TheRecovery!Spec => [](TheRecovery!TypeOK /\ TheRecovery!RecoveryCarriedOn)
BY RecoveryInit, RecoveryStep, PTL DEF TheRecovery!Spec

-----------------------------------------------------------------------------
\* ByzantineFaultTolerance.
AccusationConstants ==
    /\ Threshold \in Nat /\ EvidenceTimeout \in Int /\ Punishment \in Int
    /\ MaxTime \in Nat /\ MaxAccusations \in Nat

\* The instance counts and compares as the library does.
LEMMA SameCardinality == \A S : TheAccusations!Cardinality(S) = Cardinality(S)
BY DEF Cardinality, TheAccusations!Cardinality

LEMMA LesserOfTwo ==
    ASSUME NEW x \in Int, NEW y \in Int
    PROVE  TheAccusations!Min({x, y}) = IF x <= y THEN x ELSE y
BY DEF TheAccusations!Min

LEMMA GreaterOfTwo ==
    ASSUME NEW x \in Int, NEW y \in Int
    PROVE  TheAccusations!Max({x, y}) = IF x >= y THEN x ELSE y
BY DEF TheAccusations!Max

Claims == [id : TheAccusations!Ids, type : TheAccusations!Types, at : 0 .. MaxTime]

\* Every accusation weighs at least the lightest offence, and all of them at most 100.
LEMMA SlashWeighs ==
    ASSUME AccusationConstants, NEW held, held \subseteq Claims, IsFiniteSet(held)
    PROVE  /\ TheAccusations!SlashAmount(held) \in 0 .. 100
           /\ Cardinality(held) >= Threshold =>
                 TheAccusations!SlashAmount(held) >= TheAccusations!Min({100, 10 * Threshold})
<1> DEFINE D == {a \in held : a.type = "DOUBLE_SIGNING"}
           B == {a \in held : a.type = "INVALID_BLOCK"}
           A == {a \in held : a.type = "NON_PARTICIPATION"}
           d == Cardinality(D)
           b == Cardinality(B)
           a == Cardinality(A)
           sum == 50 * d + 30 * b + 10 * a
<1>1. held = (D \cup B) \cup A /\ D \cap B = {} /\ (D \cup B) \cap A = {}
  BY DEF Claims, TheAccusations!Types
<1>2. TheAccusations!SlashAmount(held) = TheAccusations!Min({100, sum})
  BY SameCardinality DEF TheAccusations!SlashAmount
<1>3. IsFiniteSet(D) /\ IsFiniteSet(B) /\ IsFiniteSet(A)
  BY FS_Subset
<1> HIDE DEF D, B, A
<1>4. d \in Nat /\ b \in Nat /\ a \in Nat
  BY <1>3, FS_CardinalityType
<1>5. IsFiniteSet(D \cup B) /\ Cardinality(D \cup B) = d + b - Cardinality(D \cap B)
  BY <1>3, FS_Union
<1>6. Cardinality(held) = Cardinality(D \cup B) + a - Cardinality((D \cup B) \cap A)
  BY <1>1, <1>3, <1>5, FS_Union
<1>7. Cardinality(D \cap B) = 0 /\ Cardinality((D \cup B) \cap A) = 0
  BY <1>1, FS_EmptySet, Zenon
<1> HIDE DEF d, b, a
<1>8. Cardinality(held) = d + b + a
  BY <1>4, <1>5, <1>6, <1>7
<1>9. sum \in Nat /\ sum >= 10 * Cardinality(held)
  BY <1>4, <1>8
<1> HIDE DEF sum
<1>10. TheAccusations!SlashAmount(held) = IF 100 <= sum THEN 100 ELSE sum
  BY <1>2, <1>9, LesserOfTwo
<1>11. Cardinality(held) \in Nat
  BY FS_CardinalityType
<1>12. Threshold \in Nat /\ 10 * Threshold \in Int
  BY DEF AccusationConstants
<1>13. TheAccusations!Min({100, 10 * Threshold}) = IF 100 <= 10 * Threshold THEN 100 ELSE 10 * Threshold
  BY <1>12, LesserOfTwo
<1> QED  BY <1>9, <1>10, <1>11, <1>12, <1>13

HeldTyped ==
    /\ accusations \in [Suspects -> SUBSET Claims]
    /\ \A v \in Suspects : IsFiniteSet(accusations[v])

RecordsTyped == slashings \in [Suspects -> Seq([amount : 0 .. 100, at : Int, until : Int])]

StandingTyped ==
    /\ DOMAIN jailed \subseteq Suspects /\ DOMAIN reputation \subseteq Suspects
    /\ \A v \in DOMAIN reputation : reputation[v] \in 0 .. 100

EvidenceTyped ==
    /\ now \in 0 .. MaxTime
    /\ DOMAIN evidence \subseteq {<<v>> : v \in Suspects} \cup (Suspects \X Rounds)
    /\ \A k \in DOMAIN evidence :
          evidence[k] \subseteq [block : Blocks, round : Rounds, at : 0 .. MaxTime]

\* A record justifies the term v serves.
Justified(v) ==
    /\ slashings[v] # <<>>
    /\ slashings[v][Len(slashings[v])].until = jailed[v]
    /\ slashings[v][Len(slashings[v])].amount >= TheAccusations!Min({100, 10 * Threshold})

AccusationInv ==
    /\ HeldTyped /\ RecordsTyped /\ StandingTyped /\ EvidenceTyped
    /\ \A v \in DOMAIN jailed : Justified(v)

LEMMA AccusationInvImplies ==
    ASSUME AccusationInv
    PROVE  TheAccusations!TypeOK /\ TheAccusations!JailHasRecord
<1>1. \A v \in Suspects : \A i \in DOMAIN slashings[v] : slashings[v][i].amount \in 0 .. 100
  <2> DEFINE Records == [amount : 0 .. 100, at : Int, until : Int]
  <2>1. \A v \in Suspects : slashings[v] \in Seq(Records)
    BY DEF AccusationInv, RecordsTyped
  <2> HIDE DEF Records
  <2>2. \A v \in Suspects : \A i \in DOMAIN slashings[v] : slashings[v][i] \in Records
    BY <2>1
  <2> QED  BY <2>2 DEF Records
<1>2. \A v \in Suspects :
         accusations[v] \subseteq [id : TheAccusations!Ids, type : TheAccusations!Types, at : 0 .. MaxTime]
  BY DEF AccusationInv, HeldTyped, Claims
<1>3. TheAccusations!TypeOK
  BY <1>1, <1>2 DEF AccusationInv, StandingTyped, EvidenceTyped, TheAccusations!TypeOK
<1>4. TheAccusations!JailHasRecord
  BY DEF AccusationInv, Justified, TheAccusations!JailHasRecord, TheAccusations!Last
<1> QED  BY <1>3, <1>4

LEMMA AccusationInit ==
    ASSUME AccusationConstants, TheAccusations!Init
    PROVE  AccusationInv
<1>1. IsFiniteSet({})
  BY FS_EmptySet
<1> QED
  BY <1>1 DEF AccusationConstants, TheAccusations!Init, TheAccusations!Nothing, AccusationInv, HeldTyped, RecordsTyped,
     StandingTyped, EvidenceTyped, Claims

\* slashValidator, for accusations that reach the threshold: the new record is the
\* last, names the term, and weighs enough.
LEMMA SlashKeeps ==
    ASSUME AccusationConstants, AccusationInv, NEW v \in Suspects,
           NEW held, held \subseteq Claims, IsFiniteSet(held), Cardinality(held) >= Threshold,
           TheAccusations!Slash(v, held)
    PROVE  RecordsTyped' /\ StandingTyped' /\ \A w \in DOMAIN jailed' : Justified(w)'
<1> DEFINE amount == TheAccusations!SlashAmount(held)
           record == [amount |-> amount, at |-> now, until |-> now + Punishment]
           rest == TheAccusations!Max({0, TheAccusations!GetOr(reputation, v, 100) - amount})
           Records == [amount : 0 .. 100, at : Int, until : Int]
<1>1. amount \in 0 .. 100 /\ amount >= TheAccusations!Min({100, 10 * Threshold})
  BY SlashWeighs
<1>2. /\ slashings' = [slashings EXCEPT ![v] = Append(@, record)]
      /\ jailed' = TheAccusations!Set(jailed, v, now + Punishment)
      /\ reputation' = TheAccusations!Set(reputation, v, rest)
  BY DEF TheAccusations!Slash
<1>3. now \in Int /\ Punishment \in Int
  BY DEF AccusationConstants, AccusationInv, EvidenceTyped
<1>4. TheAccusations!GetOr(reputation, v, 100) \in 0 .. 100
  BY DEF AccusationInv, StandingTyped, TheAccusations!GetOr
<1>5. rest \in 0 .. 100
  <2> DEFINE r == TheAccusations!GetOr(reputation, v, 100)
  <2> HIDE DEF amount, r
  <2>1. r \in 0 .. 100 /\ r - amount \in Int /\ r - amount <= 100
    BY <1>1, <1>4 DEF r
  <2>2. rest = IF 0 >= r - amount THEN 0 ELSE r - amount
    BY <2>1, GreaterOfTwo DEF r
  <2> HIDE DEF rest
  <2> QED  BY <2>1, <2>2
<1>6. record \in Records
  BY <1>1, <1>3
<1>7. record.until = now + Punishment /\ record.amount = amount
  OBVIOUS
<1> HIDE DEF amount, record, rest, Records
<1>8. slashings \in [Suspects -> Seq(Records)]
  BY DEF AccusationInv, RecordsTyped, Records
<1>9. /\ Append(slashings[v], record) \in Seq(Records)
      /\ Len(Append(slashings[v], record)) = Len(slashings[v]) + 1
      /\ Append(slashings[v], record)[Len(slashings[v]) + 1] = record
      /\ Append(slashings[v], record) # <<>>
  BY <1>6, <1>8, AppendProperties
<1>10. slashings' \in [Suspects -> Seq(Records)]
  BY <1>2, <1>8, <1>9
<1>11. RecordsTyped'
  BY <1>10 DEF RecordsTyped, Records
<1>12. DOMAIN jailed' = DOMAIN jailed \cup {v} /\ jailed'[v] = now + Punishment
       /\ \A w \in DOMAIN jailed \ {v} : jailed'[w] = jailed[w]
  BY <1>2 DEF TheAccusations!Set
<1>13. StandingTyped'
  BY <1>2, <1>5, <1>12 DEF AccusationInv, StandingTyped, TheAccusations!Set
<1>14. Justified(v)'
  <2>1. slashings'[v] = Append(slashings[v], record)
    BY <1>2, <1>8
  <2> QED  BY <2>1, <1>1, <1>7, <1>9, <1>12 DEF Justified
<1>15. ASSUME NEW w \in DOMAIN jailed \ {v} PROVE Justified(w)'
  <2>1. slashings'[w] = slashings[w] /\ jailed'[w] = jailed[w]
    BY <1>2, <1>8, <1>12 DEF AccusationInv, StandingTyped
  <2>2. Justified(w)
    BY DEF AccusationInv
  <2> QED  BY <2>1, <2>2 DEF Justified
<1> QED  BY <1>11, <1>12, <1>13, <1>14, <1>15

\* createAccusation: the accusation is held, and what it brings about.
LEMMA AccuseKeeps ==
    ASSUME AccusationConstants, AccusationInv, NEW v \in Suspects, NEW type \in TheAccusations!Types,
           TheAccusations!Accuse(v, type), UNCHANGED evidence
    PROVE  AccusationInv'
<1>1. PICK id \in TheAccusations!Ids :
        LET held == accusations[v] \cup {[id |-> id, type |-> type, at |-> now]}
        IN  /\ accusations' = [accusations EXCEPT ![v] = held]
            /\ IF TheAccusations!Cardinality(TheAccusations!Recent(held)) >= Threshold
               THEN TheAccusations!Slash(v, TheAccusations!Recent(held))
               ELSE UNCHANGED <<slashings, jailed, reputation>>
            /\ UNCHANGED now
  BY DEF TheAccusations!Accuse
<1> DEFINE claim == [id |-> id, type |-> type, at |-> now]
           held == accusations[v] \cup {claim}
           recent == TheAccusations!Recent(held)
<1>2. claim \in Claims
  BY DEF AccusationInv, EvidenceTyped, Claims
<1>3. held \subseteq Claims /\ IsFiniteSet(held)
  <2> HIDE DEF claim
  <2> QED  BY <1>2, FS_AddElement DEF AccusationInv, HeldTyped
<1>4. /\ accusations' = [accusations EXCEPT ![v] = held]
      /\ IF TheAccusations!Cardinality(recent) >= Threshold THEN TheAccusations!Slash(v, recent)
         ELSE UNCHANGED <<slashings, jailed, reputation>>
      /\ UNCHANGED now
  BY <1>1
<1> HIDE DEF held
<1>5. HeldTyped'
  BY <1>3, <1>4 DEF AccusationInv, HeldTyped
<1>6. recent \subseteq Claims /\ IsFiniteSet(recent)
  BY <1>3, FS_Subset DEF TheAccusations!Recent
<1> HIDE DEF recent
<1>7. RecordsTyped' /\ StandingTyped' /\ \A w \in DOMAIN jailed' : Justified(w)'
  <2>1. CASE Cardinality(recent) >= Threshold
    BY <1>4, <1>6, <2>1, SameCardinality, SlashKeeps
  <2>2. CASE ~(Cardinality(recent) >= Threshold)
    BY <1>4, <2>2, SameCardinality DEF AccusationInv, RecordsTyped, StandingTyped, Justified
  <2> QED  BY <2>1, <2>2
<1>8. EvidenceTyped'
  BY <1>4 DEF AccusationInv, EvidenceTyped
<1> QED  BY <1>5, <1>7, <1>8 DEF AccusationInv

LEMMA AccusationStep ==
    ASSUME AccusationConstants, AccusationInv, [TheAccusations!Next]_(TheAccusations!vars)
    PROVE  AccusationInv'
<1>0. HeldTyped /\ RecordsTyped /\ StandingTyped /\ EvidenceTyped /\ \A v \in DOMAIN jailed : Justified(v)
  BY DEF AccusationInv
<1> SUFFICES HeldTyped' /\ RecordsTyped' /\ StandingTyped' /\ EvidenceTyped' /\ \A v \in DOMAIN jailed' : Justified(v)'
  BY DEF AccusationInv
<1>1. ASSUME NEW v \in Suspects, NEW block \in Blocks, NEW played \in Rounds,
             TheAccusations!DetectDoubleSigning(v, block, played)
      PROVE  AccusationInv'
  <2> DEFINE key == TheAccusations!KeyWritten(v, played)
             filed == TheAccusations!Filed(v, played) \cup {[block |-> block, round |-> played, at |-> now]}
  <2>1. CASE TheAccusations!Accuse(v, "DOUBLE_SIGNING") /\ UNCHANGED evidence
    BY <2>1, AccuseKeeps DEF TheAccusations!Types
  <2>2. CASE /\ evidence' = TheAccusations!Set(evidence, key, filed)
             /\ UNCHANGED <<now, accusations, slashings, jailed, reputation>>
    <3>1. key = <<v>> /\ filed \subseteq [block : Blocks, round : Rounds, at : 0 .. MaxTime]
      BY <1>0 DEF EvidenceTyped, TheAccusations!KeyWritten, TheAccusations!Filed
    <3> HIDE DEF key, filed
    <3>2. EvidenceTyped'
      BY <1>0, <2>2, <3>1 DEF EvidenceTyped, TheAccusations!Set
    <3> QED
      BY <1>0, <2>2, <3>2 DEF AccusationInv, HeldTyped, RecordsTyped, StandingTyped, Justified
  <2> QED  BY <1>1, <2>1, <2>2 DEF TheAccusations!DetectDoubleSigning
<1>2. ASSUME NEW v \in Suspects, TheAccusations!DetectInvalidBlock(v) \/ TheAccusations!DetectNonParticipation(v)
      PROVE  AccusationInv'
  BY <1>2, AccuseKeeps DEF TheAccusations!DetectInvalidBlock, TheAccusations!DetectNonParticipation, TheAccusations!Types
<1>3. ASSUME NEW v \in Suspects, TheAccusations!ResetValidatorReputation(v)
      PROVE  AccusationInv'
  <2>1. HeldTyped'
    BY <1>0, <1>3, FS_EmptySet DEF HeldTyped, TheAccusations!ResetValidatorReputation
  <2>2. StandingTyped'
    BY <1>0, <1>3 DEF StandingTyped, TheAccusations!ResetValidatorReputation, TheAccusations!Set, TheAccusations!Without
  <2>3. /\ \A w \in DOMAIN jailed' : w \in DOMAIN jailed /\ jailed'[w] = jailed[w]
        /\ UNCHANGED <<now, evidence, slashings>>
    BY <1>3 DEF TheAccusations!ResetValidatorReputation, TheAccusations!Without
  <2> QED  BY <1>0, <2>1, <2>2, <2>3 DEF AccusationInv, RecordsTyped, EvidenceTyped, Justified
<1>4. CASE TheAccusations!ReleaseJailedValidators
  <2>1. /\ \A w \in DOMAIN jailed' : w \in DOMAIN jailed /\ jailed'[w] = jailed[w]
        /\ UNCHANGED <<now, evidence, accusations, slashings, reputation>>
    BY <1>4 DEF TheAccusations!ReleaseJailedValidators, TheAccusations!Without
  <2> QED  BY <1>0, <2>1 DEF AccusationInv, HeldTyped, RecordsTyped, StandingTyped, EvidenceTyped, Justified
<1>5. ASSUME NEW maxAge \in 0 .. MaxTime, TheAccusations!CleanupOldEvidence(maxAge)
      PROVE  AccusationInv'
  <2>1. /\ accusations' = [v \in Suspects |-> {a \in accusations[v] : a.at > now - maxAge}]
        /\ evidence' = [k \in {q \in DOMAIN evidence : \E e \in evidence[q] : e.at > now - maxAge} |->
                           {e \in evidence[k] : e.at > now - maxAge}]
        /\ UNCHANGED <<now, slashings, jailed, reputation>>
    BY <1>5 DEF TheAccusations!CleanupOldEvidence
  <2>2. HeldTyped'
    BY <1>0, <2>1, FS_Subset DEF HeldTyped
  <2>3. EvidenceTyped'
    BY <1>0, <2>1 DEF EvidenceTyped
  <2> QED  BY <1>0, <2>1, <2>2, <2>3 DEF AccusationInv, RecordsTyped, StandingTyped, Justified
<1>6. CASE TheAccusations!Tick
  <2>1. EvidenceTyped'
    BY <1>0, <1>6 DEF EvidenceTyped, TheAccusations!Tick, AccusationConstants
  <2> QED
    BY <1>0, <1>6, <2>1 DEF AccusationInv, HeldTyped, RecordsTyped, StandingTyped, Justified, TheAccusations!Tick
<1>7. CASE UNCHANGED TheAccusations!vars
  BY <1>0, <1>7 DEF AccusationInv, HeldTyped, RecordsTyped, StandingTyped, EvidenceTyped, Justified, TheAccusations!vars
<1> QED
  BY <1>1, <1>2, <1>3, <1>4, <1>5, <1>6, <1>7 DEF TheAccusations!Next, AccusationInv

\* A validator in jail serves the term of its last slashing, and that slashing
\* weighed what the threshold asks for: through clean-ups, releases and resets,
\* for every threshold and every set of validators.
THEOREM JailAlwaysHasRecord ==
    ASSUME AccusationConstants
    PROVE  TheAccusations!Spec => [](TheAccusations!TypeOK /\ JailHasRecord)
<1>1. TheAccusations!Spec => []AccusationInv
  BY AccusationInit, AccusationStep, PTL DEF TheAccusations!Spec
<1> QED  BY <1>1, AccusationInvImplies, PTL DEF JailHasRecord
-----------------------------------------------------------------------------
\* No order of reports, attempts, replacements, heartbeats and timers strands one.
THEOREM RecoveriesAlwaysCarriedOn ==
    ASSUME FailoverConstants, PartitionConstants, RecoveryConstants
    PROVE  TheFailover!Spec /\ ThePartition!Spec /\ TheRecovery!Spec => []RecoveriesCarriedOn
BY LeaderAlwaysOne, SideAlwaysKept, RecoveryAlwaysCarriedOn, PTL DEF RecoveriesCarriedOn

-----------------------------------------------------------------------------
\* FaultTolerantConsensus.  Each handler maps the record Now to the state it
\* leaves, so the lemmas are about records.  The heart of the argument: a
\* validator's failures only grow and its status follows their number, so the set
\* of active validators only shrinks and a partition once detected never
\* resolves; the check that finds it never ends a recovery without starting a
\* round.

\* A record with the fields of Now; it is all the prover needs to compute EXCEPT.
Fields == {"round", "phase", "proposer", "status", "failures", "detected", "recoveryMode",
           "failedRounds", "consecutiveTimeouts", "roundTimer", "stray", "advance", "recovery"}
Shaped(s) == DOMAIN s = Fields /\ s = [f \in Fields |-> s[f]]

SameHealth(s, t) ==
    /\ t.status = s.status /\ t.failures = s.failures /\ t.detected = s.detected

Counters(s) == s.stray \in Nat /\ s.advance \in Nat /\ s.recovery \in Nat
Loop(s) == s.roundTimer = TRUE \/ s.stray > 0 \/ s.advance > 0

LEMMA AdvanceGoesOn ==
    ASSUME NEW s, Shaped(s), Counters(s)
    PROVE  /\ Shaped(Advance(s)) /\ Counters(Advance(s)) /\ SameHealth(s, Advance(s))
           /\ Advance(s).recoveryMode = s.recoveryMode /\ Advance(s).round = s.round
           /\ Loop(Advance(s))
<1>1. Shaped(Advance(s)) /\ SameHealth(s, Advance(s))
  BY DEF Shaped, Fields, Advance, SameHealth
<1>2. /\ Advance(s).recoveryMode = s.recoveryMode /\ Advance(s).round = s.round
      /\ Advance(s).advance = s.advance + 1 /\ Advance(s).stray = s.stray
      /\ Advance(s).recovery = s.recovery
  BY DEF Shaped, Fields, Advance
<1> QED  BY <1>1, <1>2 DEF Counters, Loop

LEMMA EnterRecoveryRecovers ==
    ASSUME NEW s, Shaped(s), Counters(s)
    PROVE  /\ Shaped(EnterRecovery(s)) /\ Counters(EnterRecovery(s)) /\ SameHealth(s, EnterRecovery(s))
           /\ EnterRecovery(s).recoveryMode = TRUE /\ EnterRecovery(s).round = s.round
<1>1. Shaped(EnterRecovery(s)) /\ SameHealth(s, EnterRecovery(s))
  BY DEF Shaped, Fields, EnterRecovery, SameHealth
<1>2. /\ EnterRecovery(s).recoveryMode = TRUE /\ EnterRecovery(s).round = s.round
      /\ EnterRecovery(s).recovery = s.recovery + 1 /\ EnterRecovery(s).stray = s.stray
      /\ EnterRecovery(s).advance = s.advance
  BY DEF Shaped, Fields, EnterRecovery
<1> QED  BY <1>1, <1>2 DEF Counters

LEMMA BeginGoesOn ==
    ASSUME NEW s, Shaped(s), Counters(s)
    PROVE  /\ Shaped(Begin(s)) /\ Counters(Begin(s)) /\ SameHealth(s, Begin(s))
           /\ Begin(s).recoveryMode = s.recoveryMode /\ Loop(Begin(s))
<1> DEFINE r == (s.round + 1) % RoundCycle
           p == RoundProposer(s.status, r)
           stray == IF s.roundTimer THEN s.stray + 1 ELSE s.stray
           t == [s EXCEPT !.round = r, !.proposer = p, !.roundTimer = TRUE, !.stray = stray]
           own == [t EXCEPT !.phase = "PROPOSAL"]
           other == [t EXCEPT !.phase = "VOTING"]
<1>1. Begin(s) = IF p = Self THEN Advance(own) ELSE other
  BY DEF Begin
<1>2. stray \in Nat
  BY DEF Counters
<1> HIDE DEF stray, p, r
<1>3. Shaped(own) /\ SameHealth(s, own) /\ own.recoveryMode = s.recoveryMode
  BY DEF Shaped, Fields, SameHealth
<1>4. own.stray = stray /\ own.advance = s.advance /\ own.recovery = s.recovery
  BY DEF Shaped, Fields
<1>5. Counters(own)
  BY <1>2, <1>4 DEF Counters
<1>6. Shaped(other) /\ SameHealth(s, other) /\ other.recoveryMode = s.recoveryMode
  BY DEF Shaped, Fields, SameHealth
<1>7. /\ other.stray = stray /\ other.advance = s.advance /\ other.recovery = s.recovery
      /\ other.roundTimer = TRUE
  BY DEF Shaped, Fields
<1>8. Counters(other) /\ Loop(other)
  BY <1>2, <1>7 DEF Counters, Loop
<1> HIDE DEF own, other
<1> QED  BY <1>1, <1>3, <1>5, <1>6, <1>8, AdvanceGoesOn DEF SameHealth

\* The status of a validator follows the number of its failures.
Healthy(s) ==
    /\ s.status \in [Validators -> {"ACTIVE", "SUSPECTED", "FAILED"}]
    /\ s.failures \in [Validators -> 0 .. 3]
    /\ \A v \in Validators : s.status[v] = "ACTIVE" <=> s.failures[v] < 2

\* The condition by which detectNetworkPartition detects a partition.
Few(s) == 3 * Cardinality(Active(s)) < 2 * Len(ValidatorSet)
Worse(s, t) == \A v \in Validators : t.failures[v] >= s.failures[v]
DetectedLasts(s) == s.detected = TRUE => Few(s)
Flags(s) == s.detected \in BOOLEAN /\ s.recoveryMode \in BOOLEAN /\ s.roundTimer \in BOOLEAN

LEMMA ValidatorsFinite == IsFiniteSet(Validators)
<1> DEFINE N == Len(ValidatorSet)
<1>1. N \in Nat /\ DOMAIN ValidatorSet = 1 .. N
  BY ConfigAssumption
<1>2. IsFiniteSet(1 .. N)
  BY <1>1, FS_Interval
<1> DEFINE pick == [i \in 1 .. N |-> ValidatorSet[i]]
<1>3. pick \in Surjection(1 .. N, Validators)
  BY <1>1 DEF Surjection, Validators
<1> QED  BY <1>2, <1>3, FS_Surjection

LEMMA FewStayFew ==
    ASSUME NEW s, NEW t, Healthy(s), Healthy(t), Worse(s, t), Few(s)
    PROVE  Few(t)
<1>1. Active(t) \subseteq Active(s)
  BY DEF Active, Healthy, Worse
<1>2. IsFiniteSet(Active(s))
  BY ValidatorsFinite, FS_Subset DEF Active
<1>3. /\ Cardinality(Active(t)) \in Nat /\ Cardinality(Active(s)) \in Nat
      /\ Cardinality(Active(t)) <= Cardinality(Active(s))
  BY <1>1, <1>2, FS_Subset, FS_CardinalityType
<1>4. Len(ValidatorSet) \in Nat
  BY ConfigAssumption
<1> QED  BY <1>3, <1>4 DEF Few

LEMMA TimeoutWorsens ==
    ASSUME NEW s, NEW v, Shaped(s), Healthy(s)
    PROVE  /\ Shaped(ValidatorTimeout(s, v)) /\ Healthy(ValidatorTimeout(s, v))
           /\ Worse(s, ValidatorTimeout(s, v))
           /\ \A f \in Fields \ {"status", "failures"} : ValidatorTimeout(s, v)[f] = s[f]
<1> DEFINE f == UpTo(3, s.failures[v])
           t == ValidatorTimeout(s, v)
<1>1. t = [s EXCEPT !.failures[v] = f, !.status[v] = IF f >= 2 THEN "SUSPECTED" ELSE "ACTIVE"]
  BY DEF ValidatorTimeout
<1>2. v \in Validators => f \in 0 .. 3 /\ f >= s.failures[v]
  BY DEF Healthy, UpTo
<1> HIDE DEF f, t
<1>3. Shaped(t) /\ \A g \in Fields \ {"status", "failures"} : t[g] = s[g]
  BY <1>1 DEF Shaped, Fields
<1>4. /\ t.failures = [s.failures EXCEPT ![v] = f]
      /\ t.status = [s.status EXCEPT ![v] = IF f >= 2 THEN "SUSPECTED" ELSE "ACTIVE"]
  BY <1>1 DEF Shaped, Fields
<1>5. Healthy(t) /\ Worse(s, t)
  <2>1. t.failures \in [Validators -> 0 .. 3]
    BY <1>2, <1>4 DEF Healthy
  <2>2. t.status \in [Validators -> {"ACTIVE", "SUSPECTED", "FAILED"}]
    BY <1>4 DEF Healthy
  <2> SUFFICES ASSUME NEW w \in Validators
               PROVE  /\ t.status[w] = "ACTIVE" <=> t.failures[w] < 2
                      /\ t.failures[w] >= s.failures[w]
    BY <2>1, <2>2 DEF Healthy, Worse
  <2>3. s.failures[w] \in 0 .. 3 /\ (s.status[w] = "ACTIVE" <=> s.failures[w] < 2)
    BY DEF Healthy
  <2>4. CASE w = v
    <3>1. t.failures[w] = f /\ t.status[w] = IF f >= 2 THEN "SUSPECTED" ELSE "ACTIVE"
      BY <1>4, <2>4 DEF Healthy
    <3> QED  BY <1>2, <2>4, <3>1
  <2>5. CASE w # v
    <3>1. t.failures[w] = s.failures[w] /\ t.status[w] = s.status[w]
      BY <1>4, <2>5 DEF Healthy
    <3> QED  BY <2>3, <3>1
  <2> QED  BY <2>4, <2>5
<1> QED  BY <1>3, <1>5 DEF t

\* What every handler keeps of the state it starts from, and what it leaves
\* behind: recovery mode, or something that starts the next round.
Kept(s) == Shaped(s) /\ Counters(s) /\ Flags(s) /\ Healthy(s) /\ DetectedLasts(s)
GoesOn(s) == s.recoveryMode = TRUE \/ Loop(s)

LEMMA SameHealthKept ==
    ASSUME NEW s, NEW t, Healthy(s), DetectedLasts(s), SameHealth(s, t)
    PROVE  Healthy(t) /\ DetectedLasts(t)
  BY DEF Healthy, DetectedLasts, SameHealth, Few, Active

LEMMA HandlersKeep ==
    ASSUME NEW s, Kept(s)
    PROVE  /\ Kept(Advance(s)) /\ GoesOn(Advance(s))
           /\ Kept(EnterRecovery(s)) /\ GoesOn(EnterRecovery(s))
           /\ Kept(StartConsensusRound(s)) /\ GoesOn(StartConsensusRound(s))
<1>1. /\ Flags(Advance(s)) /\ Flags(EnterRecovery(s))
  BY DEF Kept, Flags, Shaped, Fields, Advance, EnterRecovery
<1>2. Flags(Begin(s))
  <2> DEFINE r == (s.round + 1) % RoundCycle
             p == RoundProposer(s.status, r)
             stray == IF s.roundTimer THEN s.stray + 1 ELSE s.stray
  <2>1. Begin(s) = IF p = Self
                   THEN Advance([[s EXCEPT !.round = r, !.proposer = p, !.roundTimer = TRUE,
                                           !.stray = stray] EXCEPT !.phase = "PROPOSAL"])
                   ELSE [[s EXCEPT !.round = r, !.proposer = p, !.roundTimer = TRUE,
                                   !.stray = stray] EXCEPT !.phase = "VOTING"]
    BY DEF Begin
  <2> HIDE DEF r, p, stray
  <2> QED  BY <2>1 DEF Kept, Flags, Shaped, Fields, Advance
<1>3. Kept(Advance(s)) /\ GoesOn(Advance(s))
  BY <1>1, AdvanceGoesOn, SameHealthKept DEF Kept, GoesOn
<1>4. Kept(EnterRecovery(s)) /\ GoesOn(EnterRecovery(s))
  BY <1>1, EnterRecoveryRecovers, SameHealthKept DEF Kept, GoesOn
<1>5. Kept(Begin(s)) /\ GoesOn(Begin(s))
  BY <1>2, BeginGoesOn, SameHealthKept DEF Kept, GoesOn
<1>6. Kept(StartConsensusRound(s)) /\ GoesOn(StartConsensusRound(s))
  BY <1>5 DEF StartConsensusRound, Kept, GoesOn, Flags
<1> QED  BY <1>3, <1>4, <1>6

LEMMA RoundTimeoutGoesOn ==
    ASSUME NEW s, Kept(s)
    PROVE  Kept(RoundTimeout(s)) /\ GoesOn(RoundTimeout(s))
<1> DEFINE t == [s EXCEPT !.failedRounds = UpTo(MaxFailedRounds, @),
                          !.consecutiveTimeouts = UpTo(3, @)]
           u == IF s.phase = "PROPOSAL" THEN ValidatorTimeout(t, s.proposer) ELSE t
<1>1. RoundTimeout(s) = IF ShouldRecover(u) THEN EnterRecovery(u) ELSE Advance(u)
  BY DEF RoundTimeout
<1>2. Kept(t)
  <2>1. Shaped(t) /\ SameHealth(s, t)
    BY DEF Kept, Shaped, Fields, SameHealth
  <2>2. \A f \in Fields \ {"failedRounds", "consecutiveTimeouts"} : t[f] = s[f]
    BY DEF Kept, Shaped, Fields
  <2>3. Counters(t)
    BY <2>2 DEF Kept, Counters, Fields
  <2>4. Flags(t)
    BY <2>2 DEF Kept, Flags, Fields
  <2> QED  BY <2>1, <2>3, <2>4, SameHealthKept DEF Kept
<1> HIDE DEF t
<1>3. Kept(ValidatorTimeout(t, s.proposer))
  <2> DEFINE w == ValidatorTimeout(t, s.proposer)
  <2>1. /\ Shaped(w) /\ Healthy(w) /\ Worse(t, w)
        /\ \A f \in Fields \ {"status", "failures"} : w[f] = t[f]
    BY <1>2, TimeoutWorsens DEF Kept
  <2> HIDE DEF w
  <2>2. Counters(w)
    BY <1>2, <2>1 DEF Kept, Counters, Fields
  <2>3. Flags(w) /\ w.detected = t.detected
    BY <1>2, <2>1 DEF Kept, Flags, Fields
  <2>4. DetectedLasts(w)
    BY <1>2, <2>1, <2>3, FewStayFew DEF Kept, DetectedLasts
  <2> QED  BY <2>1, <2>2, <2>3, <2>4 DEF Kept, w
<1>4. Kept(u)
  BY <1>2, <1>3
<1> HIDE DEF u
<1> QED  BY <1>1, <1>4, HandlersKeep

\* A partition once detected has come to stay: too few validators are active
\* to leave recovery mode by the check that detects it.
LEMMA DetectPartitionKeeps ==
    ASSUME NEW s, Kept(s)
    PROVE  /\ Kept(DetectPartition(s))
           /\ DetectPartition(s) = s \/ GoesOn(DetectPartition(s))
<1> DEFINE t == [s EXCEPT !.detected = TRUE]
<1>1. s.detected \in BOOLEAN /\ (s.detected = TRUE => Few(s))
  BY DEF Kept, Flags, DetectedLasts
<1>2. CASE s.detected = FALSE /\ Few(s)
  <2>1. Shaped(t) /\ t.detected = TRUE
    BY DEF Kept, Shaped, Fields
  <2>2. \A f \in Fields \ {"detected"} : t[f] = s[f]
    BY DEF Kept, Shaped, Fields
  <2>3. Counters(t)
    BY <2>2 DEF Kept, Counters, Fields
  <2>4. Flags(t)
    BY <2>1, <2>2 DEF Kept, Flags, Fields
  <2>5. Healthy(t) /\ Few(t)
    BY <1>2, <2>2 DEF Kept, Healthy, Few, Active, Fields
  <2>6. Kept(t)
    BY <2>1, <2>3, <2>4, <2>5 DEF Kept, DetectedLasts
  <2>7. DetectPartition(s) = EnterRecovery(t)
    BY <1>2 DEF DetectPartition, Few
  <2> QED  BY <2>6, <2>7, HandlersKeep
<1>3. CASE ~(s.detected = FALSE /\ Few(s))
  <2>1. DetectPartition(s) = s
    BY <1>1, <1>3 DEF DetectPartition, Few
  <2> QED  BY <2>1
<1> QED  BY <1>2, <1>3

LEMMA SameRound ==
    ASSUME NEW s, Kept(s)
    PROVE  RoundTimeout(s).round = s.round /\ DetectPartition(s).round = s.round
<1>1. ASSUME NEW t, Shaped(t) PROVE Advance(t).round = t.round /\ EnterRecovery(t).round = t.round
  BY <1>1 DEF Shaped, Fields, Advance, EnterRecovery
<1>2. Shaped(s) /\ Healthy(s)
  BY DEF Kept
<1>3. RoundTimeout(s).round = s.round
  <2> DEFINE t == [s EXCEPT !.failedRounds = UpTo(MaxFailedRounds, @),
                            !.consecutiveTimeouts = UpTo(3, @)]
             u == IF s.phase = "PROPOSAL" THEN ValidatorTimeout(t, s.proposer) ELSE t
  <2>1. RoundTimeout(s) = IF ShouldRecover(u) THEN EnterRecovery(u) ELSE Advance(u)
    BY DEF RoundTimeout
  <2>2. Shaped(t) /\ t.round = s.round /\ t.status = s.status /\ t.failures = s.failures
    BY <1>2 DEF Shaped, Fields
  <2> HIDE DEF t
  <2>3. Healthy(t)
    BY <1>2, <2>2 DEF Healthy
  <2>4. Shaped(u) /\ u.round = s.round
    BY <2>2, <2>3, TimeoutWorsens DEF Fields
  <2> HIDE DEF u
  <2> QED  BY <1>1, <2>1, <2>4
<1>4. DetectPartition(s).round = s.round
  <2> DEFINE t == [s EXCEPT !.detected = TRUE]
  <2>1. Shaped(t) /\ t.round = s.round
    BY <1>2 DEF Shaped, Fields
  <2>2. s.detected \in BOOLEAN /\ (s.detected = TRUE => Few(s))
    BY DEF Kept, Flags, DetectedLasts
  <2> HIDE DEF t
  <2>3. DetectPartition(s) = s \/ DetectPartition(s) = EnterRecovery(t)
    BY <2>2 DEF DetectPartition, Few, t
  <2> QED  BY <1>1, <2>1, <2>3
<1> QED  BY <1>3, <1>4

-----------------------------------------------------------------------------
\* The inductive invariant: DetectedLasts, a conjunct of Kept, is what makes
\* RoundsGoOn inductive.
IInv == Kept(Now) /\ RoundsGoOn
HeldRound == recoveryMode /\ recoveryMode' => round' = round

LEMMA NowShaped ==
    /\ Shaped(Now) /\ Now.round = round
    /\ Now.status = status /\ Now.failures = failures /\ Now.detected = detected
    /\ Now.recoveryMode = recoveryMode /\ Now.roundTimer = roundTimer
    /\ Now.stray = strayTimers /\ Now.advance = advanceTimers /\ Now.recovery = recoveryTimers
  BY DEF Shaped, Fields, Now

\* What holds of the state a handler computes holds of the state it leaves.
LEMMA BecomeKeeps ==
    ASSUME NEW s, Kept(s), Become(s)
    PROVE  Kept(Now)' /\ (GoesOn(s) => (recoveryMode \/ LoopPending)')
<1>1. /\ (Now.status)' = s.status /\ (Now.failures)' = s.failures /\ (Now.detected)' = s.detected
      /\ (Now.recoveryMode)' = s.recoveryMode /\ (Now.roundTimer)' = s.roundTimer
      /\ (Now.stray)' = s.stray /\ (Now.advance)' = s.advance /\ (Now.recovery)' = s.recovery
  BY DEF Now, Become
<1>2. Shaped(Now)'
  BY DEF Shaped, Fields, Now
<1>3. Counters(Now)' /\ Flags(Now)'
  BY <1>1 DEF Kept, Counters, Flags
<1>4. Healthy(Now)' /\ DetectedLasts(Now)'
  BY <1>1 DEF Kept, Healthy, DetectedLasts, Few, Active
<1>5. GoesOn(s) => (recoveryMode \/ LoopPending)'
  <2>1. s.stray \in Nat /\ s.advance \in Nat
    BY DEF Kept, Counters
  <2>2. CASE s.recoveryMode = TRUE
    BY <2>2 DEF Become
  <2>3. CASE s.roundTimer = TRUE
    BY <2>3 DEF Become, LoopPending
  <2>4. CASE s.stray > 0
    BY <2>4 DEF Become, LoopPending
  <2>5. CASE s.advance > 0
    BY <2>5 DEF Become, LoopPending
  <2> QED  BY <2>2, <2>3, <2>4, <2>5 DEF GoesOn, Loop
<1> QED  BY <1>2, <1>3, <1>4, <1>5 DEF Kept

LEMMA InitIInv == Init => IInv
<1> SUFFICES ASSUME Init PROVE IInv
  OBVIOUS
<1>1. Shaped(Now)
  BY NowShaped
<1>a. Counters(Now)
  BY NowShaped DEF Init, Counters
<1>b. Flags(Now)
  BY NowShaped DEF Init, Flags
<1>2. Healthy(Now)
  BY NowShaped DEF Init, Healthy
<1>3. DetectedLasts(Now)
  BY NowShaped DEF Init, DetectedLasts
<1> QED  BY <1>1, <1>a, <1>b, <1>2, <1>3 DEF Init, IInv, Kept, RoundsGoOn

\* A handler starts from the state it is called in, but for a timer.
LEMMA TimersKept ==
    ASSUME NEW s, Shaped(s), Counters(s), Flags(s), SameHealth(Now, s), Kept(Now)
    PROVE  Kept(s)
  BY SameHealthKept DEF Kept

\* Every step keeps the invariant, and leaves the round alone in recovery mode.
LEMMA NextIInv == IInv /\ [Next]_vars => IInv' /\ HeldRound
<1> SUFFICES ASSUME IInv, [Next]_vars PROVE IInv' /\ HeldRound
  OBVIOUS
<1>0. Kept(Now) /\ RoundsGoOn
  BY DEF IInv
<1>a. /\ strayTimers \in Nat /\ advanceTimers \in Nat /\ recoveryTimers \in Nat
  BY <1>0, NowShaped DEF Kept, Counters
<1>b. detected \in BOOLEAN /\ recoveryMode \in BOOLEAN /\ roundTimer \in BOOLEAN
  BY <1>0, NowShaped DEF Kept, Flags
<1>1. CASE UNCHANGED vars
  BY <1>0, <1>1 DEF vars, HeldRound, IInv, Now, RoundsGoOn, LoopPending, Kept, Shaped, Counters, Flags,
                   Healthy, DetectedLasts, Few, Active
<1>2. ASSUME NEW v \in Validators, FallSilent(v) PROVE IInv' /\ HeldRound
  BY <1>0, <1>2 DEF FallSilent, HeldRound, IInv, Now, RoundsGoOn, LoopPending, Kept, Shaped, Counters, Flags,
                   Healthy, DetectedLasts, Few, Active
<1>3. CASE HealthCheck
  <2> DEFINE f == [v \in Validators |-> IF v \in late THEN UpTo(3, failures[v]) ELSE failures[v]]
             st == [v \in Validators |-> CASE f[v] >= 3 -> "FAILED"
                                           [] f[v] = 2 /\ v \in late -> "SUSPECTED"
                                           [] f[v] < 2 /\ v \in late -> "ACTIVE"
                                           [] OTHER -> status[v]]
             s == [Now EXCEPT !.failures = f, !.status = st]
  <2>1. Become(DetectPartition(s)) /\ UNCHANGED <<late, active>>
    BY <1>3 DEF HealthCheck
  <2>2. \A v \in Validators : /\ failures[v] \in 0 .. 3 /\ status[v] \in {"ACTIVE", "SUSPECTED", "FAILED"}
                             /\ (status[v] = "ACTIVE" <=> failures[v] < 2)
    BY <1>0, NowShaped DEF Kept, Healthy
  <2>3. \A v \in Validators : f[v] \in 0 .. 3 /\ f[v] >= failures[v]
    BY <2>2 DEF UpTo
  <2>4. \A v \in Validators : v \notin late => f[v] = failures[v]
    OBVIOUS
  <2>5. f = [v \in Validators |-> f[v]]
    OBVIOUS
  <2> HIDE DEF f
  <2>6. \A v \in Validators :
            /\ f[v] >= 3 => st[v] = "FAILED"
            /\ f[v] = 2 /\ v \in late => st[v] = "SUSPECTED"
            /\ f[v] < 2 /\ v \in late => st[v] = "ACTIVE"
            /\ f[v] < 3 /\ v \notin late => st[v] = status[v]
    BY <2>3
  <2>7. st = [v \in Validators |-> st[v]]
    OBVIOUS
  <2> HIDE DEF st
  <2>a. \A v \in Validators : /\ st[v] \in {"ACTIVE", "SUSPECTED", "FAILED"}
                             /\ (st[v] = "ACTIVE" <=> f[v] < 2)
    BY <2>2, <2>3, <2>4, <2>6
  <2>8. /\ Shaped(s) /\ s.failures = f /\ s.status = st
        /\ \A g \in Fields \ {"failures", "status"} : s[g] = Now[g]
    BY NowShaped DEF Shaped, Fields
  <2> HIDE DEF s
  <2>9. Healthy(s) /\ Worse(Now, s)
    BY <2>3, <2>5, <2>a, <2>7, <2>8, NowShaped DEF Healthy, Worse
  <2>10. /\ Counters(s) /\ Flags(s)
         /\ s.detected = detected /\ s.recoveryMode = recoveryMode /\ s.round = round
    BY <1>a, <1>b, <2>8, NowShaped DEF Counters, Flags, Fields
  <2>11. DetectedLasts(s)
    BY <1>0, <2>9, <2>10, FewStayFew, NowShaped DEF Kept, DetectedLasts
  <2>12. Kept(s)
    BY <2>8, <2>9, <2>10, <2>11 DEF Kept
  <2>13. Kept(Now)' /\ (GoesOn(DetectPartition(s)) => (recoveryMode \/ LoopPending)')
    BY <2>1, <2>12, DetectPartitionKeeps, BecomeKeeps
  <2>b. HeldRound
    BY <2>1, <2>10, <2>12, SameRound DEF HeldRound, Become
  <2>14. CASE GoesOn(DetectPartition(s))
    BY <2>13, <2>14, <2>b DEF IInv, RoundsGoOn
  <2>15. CASE DetectPartition(s) = s
    <3>1. /\ recoveryMode' = recoveryMode /\ roundTimer' = roundTimer
          /\ strayTimers' = strayTimers /\ advanceTimers' = advanceTimers
      BY <2>1, <2>8, <2>15, NowShaped DEF Become, Fields
    <3> QED  BY <1>0, <2>1, <2>13, <2>b, <3>1 DEF IInv, RoundsGoOn, LoopPending
  <2> QED  BY <2>12, <2>14, <2>15, DetectPartitionKeeps
<1>4. CASE RoundTimerFires
  <2> DEFINE s == [Now EXCEPT !.roundTimer = FALSE]
             t == [Now EXCEPT !.stray = @ - 1]
  <2>1. Shaped(s) /\ SameHealth(Now, s) /\ Counters(s) /\ Flags(s)
    BY <1>a, <1>b, NowShaped DEF Shaped, Fields, SameHealth, Counters, Flags
  <2>2. strayTimers > 0 => Shaped(t) /\ SameHealth(Now, t) /\ Counters(t) /\ Flags(t)
    BY <1>a, <1>b, NowShaped DEF Shaped, Fields, SameHealth, Counters, Flags
  <2>3. Become(RoundTimeout(s)) \/ (strayTimers > 0 /\ Become(RoundTimeout(t)))
    BY <1>4 DEF RoundTimerFires
  <2>4. s.round = round /\ t.round = round
    BY NowShaped DEF Shaped, Fields
  <2> HIDE DEF s, t
  <2>5. Kept(s) /\ (strayTimers > 0 => Kept(t))
    BY <1>0, <2>1, <2>2, TimersKept
  <2>6. HeldRound
    BY <2>3, <2>4, <2>5, SameRound DEF HeldRound, Become
  <2> QED
    BY <2>3, <2>5, <2>6, RoundTimeoutGoesOn, BecomeKeeps DEF IInv, RoundsGoOn
<1>5. CASE AdvanceTimerFires
  <2> DEFINE s == [Now EXCEPT !.advance = @ - 1]
  <2>1. Become(StartConsensusRound(s)) /\ advanceTimers > 0
    BY <1>5 DEF AdvanceTimerFires
  <2>2. Shaped(s) /\ SameHealth(Now, s) /\ Counters(s) /\ Flags(s)
    BY <1>a, <1>b, <2>1, NowShaped DEF Shaped, Fields, SameHealth, Counters, Flags
  <2>3. s.round = round /\ s.recoveryMode = recoveryMode
    BY NowShaped DEF Shaped, Fields
  <2> HIDE DEF s
  <2>4. HeldRound
    BY <2>1, <2>3 DEF HeldRound, Become, StartConsensusRound
  <2> QED
    BY <1>0, <2>1, <2>2, <2>4, TimersKept, HandlersKeep, BecomeKeeps DEF IInv, RoundsGoOn
<1>6. CASE RecoveryTimerFires
  <2> DEFINE s == [Now EXCEPT !.recovery = @ - 1]
             t == [s EXCEPT !.recoveryMode = FALSE, !.phase = "PROPOSAL"]
  <2>1. recoveryTimers > 0 /\ active' = active
    BY <1>6 DEF RecoveryTimerFires
  <2>2. Become(StartConsensusRound(t)) \/ Become(s)
    BY <1>6 DEF RecoveryTimerFires
  <2>3. Shaped(s) /\ SameHealth(Now, s) /\ Counters(s) /\ Flags(s)
    BY <1>a, <1>b, <2>1, NowShaped DEF Shaped, Fields, SameHealth, Counters, Flags
  <2>5. /\ s.round = round /\ s.recoveryMode = recoveryMode /\ s.roundTimer = roundTimer
        /\ s.stray = strayTimers /\ s.advance = advanceTimers
    BY NowShaped DEF Shaped, Fields
  <2>a. Counters(s) /\ Shaped(s) /\ s.roundTimer = roundTimer /\ s.detected = detected
    BY <2>3, NowShaped DEF Shaped, Fields
  <2> HIDE DEF s
  <2>b. Shaped(t) /\ t.recoveryMode = FALSE /\ SameHealth(s, t)
    BY <2>a DEF Shaped, Fields, SameHealth
  <2>c. /\ t.stray = s.stray /\ t.advance = s.advance /\ t.recovery = s.recovery
        /\ t.roundTimer = s.roundTimer /\ t.detected = s.detected
    BY <2>a DEF Shaped, Fields
  <2>4. Shaped(t) /\ SameHealth(Now, t) /\ Counters(t) /\ Flags(t)
    BY <1>b, <2>3, <2>a, <2>b, <2>c DEF SameHealth, Counters, Flags
  <2> HIDE DEF t
  <2>6. CASE Become(StartConsensusRound(t))
    <3>1. Kept(t)
      BY <1>0, <2>4, TimersKept
    <3>2. StartConsensusRound(t).recoveryMode = FALSE
      BY <2>b, <3>1, BeginGoesOn DEF StartConsensusRound, Kept
    <3>3. HeldRound
      BY <2>6, <3>2 DEF HeldRound, Become
    <3> QED
      BY <2>6, <3>1, <3>3, HandlersKeep, BecomeKeeps DEF IInv, RoundsGoOn
  <2>7. CASE Become(s)
    <3>1. Kept(Now)'
      BY <1>0, <2>3, <2>7, TimersKept, BecomeKeeps
    <3>2. /\ recoveryMode' = recoveryMode /\ roundTimer' = roundTimer /\ round' = round
          /\ strayTimers' = strayTimers /\ advanceTimers' = advanceTimers
      BY <2>5, <2>7 DEF Become
    <3> QED  BY <1>0, <2>1, <3>1, <3>2 DEF HeldRound, IInv, RoundsGoOn, LoopPending
  <2> QED  BY <2>2, <2>6, <2>7
<1>7. CASE Start
  <2>1. Become(StartConsensusRound(Now))
    BY <1>7 DEF Start
  <2>2. HeldRound
    BY <2>1, NowShaped DEF HeldRound, Become, StartConsensusRound
  <2> QED
    BY <1>0, <2>1, <2>2, HandlersKeep, BecomeKeeps DEF IInv, RoundsGoOn
<1>8. CASE Stop
  <2> DEFINE s == [Now EXCEPT !.roundTimer = FALSE]
  <2>1. Become(s) /\ active' = "stopped"
    BY <1>8 DEF Stop
  <2>2. Shaped(s) /\ SameHealth(Now, s) /\ Counters(s) /\ Flags(s)
    BY <1>a, <1>b, NowShaped DEF Shaped, Fields, SameHealth, Counters, Flags
  <2>4. s.round = round
    BY NowShaped DEF Shaped, Fields
  <2> HIDE DEF s
  <2>3. Kept(Now)'
    BY <1>0, <2>1, <2>2, TimersKept, BecomeKeeps
  <2> QED  BY <2>1, <2>3, <2>4 DEF HeldRound, Become, IInv, RoundsGoOn
<1> QED
  BY <1>1, <1>2, <1>3, <1>4, <1>5, <1>6, <1>7, <1>8 DEF Next

\* The rounds of a started node never run dry outside recovery mode, for any
\* list of validators and any bounds: whatever the order in which round
\* timers, delays, health checks and recoveries fire.
THEOREM RoundsAlwaysGoOn == Spec => []RoundsGoOn
<1>1. IInv => RoundsGoOn
  BY DEF IInv
<1> QED  BY <1>1, InitIInv, NextIInv, PTL DEF Spec

\* No round starts while recovery mode lasts, for any list of validators:
\* whatever timers the rounds before it left behind.
THEOREM RecoveryAlwaysHoldsRounds == Spec => RecoveryHoldsRounds
<1>1. IInv /\ [Next]_vars => [recoveryMode /\ recoveryMode' => round' = round]_vars
  BY NextIInv DEF HeldRound
<1> QED  BY <1>1, InitIInv, NextIInv, PTL DEF Spec, RecoveryHoldsRounds

-----------------------------------------------------------------------------
\* The types of its rounds.  They need that whoever has the turn is a validator:
\* of a set of places, one has n before it, for each n less than its size.
Before(S, i) == {j \in S : j < i}

LEMMA PlaceOfRank ==
    ASSUME NEW N \in Nat, NEW S, S \subseteq 1 .. N, NEW n \in Nat, n < Cardinality(S)
    PROVE  \E i \in S : Cardinality(Before(S, i)) = n
<1> DEFINE Upto(k) == {j \in S : j <= k}
           T == {k \in 0 .. N : Cardinality(Upto(k)) > n}
<1>1. IsFiniteSet(S)
  <2>1. IsFiniteSet(1 .. N)
    BY FS_Interval
  <2> QED  BY <2>1, FS_Subset
<1>2. ASSUME NEW k PROVE IsFiniteSet(Upto(k)) /\ Cardinality(Upto(k)) \in Nat
  <2>1. Upto(k) \subseteq S
    OBVIOUS
  <2> HIDE DEF Upto
  <2> QED  BY <1>1, <2>1, FS_Subset, FS_CardinalityType
<1> HIDE DEF T
<1>3. Upto(N) = S /\ Upto(0) = {}
  <2>1. \A j \in S : j \in 1 .. N
    OBVIOUS
  <2>2. \A j \in S : j <= N /\ ~(j <= 0)
    BY <2>1
  <2> QED  BY <2>2
<1>4. \A i \in 1 .. N : Upto(i) = IF i \in S THEN Upto(i - 1) \cup {i} ELSE Upto(i - 1)
  <2> SUFFICES ASSUME NEW i \in 1 .. N
               PROVE  Upto(i) = IF i \in S THEN Upto(i - 1) \cup {i} ELSE Upto(i - 1)
    OBVIOUS
  <2>1. \A j \in S : j \in Int /\ (j <= i <=> j <= i - 1 \/ j = i)
    OBVIOUS
  <2> QED  BY <2>1
<1>5. \A i \in 1 .. N : Before(S, i) = Upto(i - 1) /\ i \notin Upto(i - 1)
  <2> SUFFICES ASSUME NEW i \in 1 .. N
               PROVE  Before(S, i) = Upto(i - 1) /\ i \notin Upto(i - 1)
    OBVIOUS
  <2>1. \A j \in S : j \in Int /\ (j < i <=> j <= i - 1)
    OBVIOUS
  <2>2. Before(S, i) = {j \in S : j <= i - 1}
    BY <2>1 DEF Before
  <2>3. ~(i <= i - 1)
    OBVIOUS
  <2> QED  BY <2>2, <2>3
<1> HIDE DEF Upto
<1>6. Cardinality(Upto(0)) = 0
  BY <1>3, FS_EmptySet
<1>7. N \in T /\ 0 \notin T /\ T \subseteq Nat
  BY <1>3, <1>6 DEF T
<1>8. PICK i \in T : \A k \in T : i <= k
  BY <1>7, LeastNatural
<1>9. i \in 1 .. N /\ i - 1 \in 0 .. N /\ i - 1 \notin T /\ Cardinality(Upto(i)) > n
  BY <1>7, <1>8 DEF T
<1>10. Cardinality(Upto(i - 1)) <= n
  BY <1>2, <1>9 DEF T
<1>11. i \in S
  BY <1>2, <1>4, <1>9, <1>10
<1>12. Cardinality(Upto(i)) = Cardinality(Upto(i - 1)) + 1
  <2>1. IsFiniteSet(Upto(i - 1)) /\ i \notin Upto(i - 1) /\ Upto(i) = Upto(i - 1) \cup {i}
    BY <1>2, <1>4, <1>5, <1>9, <1>11
  <2> QED  BY <2>1, FS_AddElement
<1>13. Cardinality(Upto(i - 1)) = n
  BY <1>2, <1>9, <1>10, <1>12
<1> QED  BY <1>5, <1>9, <1>11, <1>13

\* Whoever has the turn is a validator, whatever their health.
LEMMA ProposerIsValidator ==
    ASSUME NEW st, NEW r \in Nat
    PROVE  RoundProposer(st, r) \in Validators
<1> DEFINE S == Candidates(st)
           N == Len(ValidatorSet)
<1>1. N \in Nat /\ N > 0 /\ DOMAIN ValidatorSet = 1 .. N
  BY ConfigAssumption
<1>2. S \subseteq 1 .. N
  BY <1>1 DEF Candidates
<1>3. ValidatorSet[1] \in Validators
  BY <1>1 DEF Validators
<1> HIDE DEF S, N
<1>4. IsFiniteSet(S)
  <2>1. IsFiniteSet(1 .. N)
    BY <1>1, FS_Interval
  <2> QED  BY <1>2, <2>1, FS_Subset
<1>5. CASE S # {}
  <2> DEFINE size == Cardinality(S)
             n == r % size
  <2>1. size \in Nat /\ size # 0
    BY <1>4, <1>5, FS_CardinalityType, FS_EmptySet
  <2> HIDE DEF size
  <2>2. n \in Nat /\ n < size
    BY <2>1
  <2> HIDE DEF n
  <2>3. \E i \in S : Cardinality(Before(S, i)) = n
    BY <1>1, <1>2, <2>2, PlaceOfRank DEF size
  <2>4. InTurn(S, n) \in S
    BY <2>3 DEF InTurn, Before
  <2>5. RoundProposer(st, r) = ValidatorSet[InTurn(S, n)]
    BY <1>5 DEF RoundProposer, S, n, size
  <2> QED  BY <1>1, <1>2, <2>4, <2>5 DEF Validators
<1> QED  BY <1>3, <1>5 DEF RoundProposer, S

\* The rest of the types.  RoundTyped is about the fields that RoundsGoOn does not
\* depend on.
RoundTyped(s) ==
    /\ s.round \in 0 .. RoundCycle - 1 /\ s.phase \in {"PROPOSAL", "VOTING", "RECOVERY"}
    /\ s.proposer \in Validators
    /\ s.failedRounds \in 0 .. MaxFailedRounds /\ s.consecutiveTimeouts \in 0 .. 3

LEMMA CountsUp ==
    ASSUME NEW bound \in Nat, NEW n \in 0 .. bound
    PROVE  UpTo(bound, n) \in 0 .. bound
BY DEF UpTo

LEMMA SimpleHandlersTyped ==
    ASSUME NEW s, Shaped(s), RoundTyped(s)
    PROVE  RoundTyped(Advance(s)) /\ RoundTyped(EnterRecovery(s)) /\ RoundTyped(StartConsensusRound(s))
<1>1. RoundTyped(Advance(s))
  BY DEF RoundTyped, Shaped, Fields, Advance
<1>2. RoundTyped(EnterRecovery(s))
  BY DEF RoundTyped, Shaped, Fields, EnterRecovery
<1>3. RoundTyped(Begin(s))
  <2> DEFINE r == (s.round + 1) % RoundCycle
             p == RoundProposer(s.status, r)
             stray == IF s.roundTimer THEN s.stray + 1 ELSE s.stray
             t == [s EXCEPT !.round = r, !.proposer = p, !.roundTimer = TRUE, !.stray = stray]
             own == [t EXCEPT !.phase = "PROPOSAL"]
             other == [t EXCEPT !.phase = "VOTING"]
  <2>1. Begin(s) = IF p = Self THEN Advance(own) ELSE other
    BY DEF Begin
  <2>2. RoundCycle \in Nat \ {0} /\ s.round \in 0 .. RoundCycle - 1
    BY ConfigAssumption DEF RoundTyped
  <2>3. r \in 0 .. RoundCycle - 1
    BY <2>2
  <2> HIDE DEF r
  <2>4. p \in Validators
    BY <2>2, <2>3, ProposerIsValidator
  <2> HIDE DEF p, stray
  <2>5. Shaped(own) /\ RoundTyped(own) /\ RoundTyped(other)
    BY <2>3, <2>4 DEF RoundTyped, Shaped, Fields
  <2> HIDE DEF own, other
  <2>6. RoundTyped(Advance(own))
    BY <2>5 DEF RoundTyped, Shaped, Fields, Advance
  <2> QED  BY <2>1, <2>5, <2>6
<1> QED  BY <1>1, <1>2, <1>3 DEF StartConsensusRound

LEMMA RoundTimeoutTyped ==
    ASSUME NEW s, Shaped(s), Healthy(s), RoundTyped(s)
    PROVE  RoundTyped(RoundTimeout(s))
<1> DEFINE t == [s EXCEPT !.failedRounds = UpTo(MaxFailedRounds, @),
                          !.consecutiveTimeouts = UpTo(3, @)]
           u == IF s.phase = "PROPOSAL" THEN ValidatorTimeout(t, s.proposer) ELSE t
<1>1. RoundTimeout(s) = IF ShouldRecover(u) THEN EnterRecovery(u) ELSE Advance(u)
  BY DEF RoundTimeout
<1>2. /\ Shaped(t) /\ t.status = s.status /\ t.failures = s.failures
      /\ t.round = s.round /\ t.phase = s.phase /\ t.proposer = s.proposer
      /\ t.failedRounds = UpTo(MaxFailedRounds, s.failedRounds)
      /\ t.consecutiveTimeouts = UpTo(3, s.consecutiveTimeouts)
  BY DEF Shaped, Fields
<1> HIDE DEF t
<1>3. RoundTyped(t) /\ Healthy(t)
  BY <1>2, CountsUp, ConfigAssumption DEF RoundTyped, Healthy
<1>4. Shaped(u) /\ RoundTyped(u)
  BY <1>2, <1>3, TimeoutWorsens DEF RoundTyped, Fields
<1> HIDE DEF u
<1> QED  BY <1>1, <1>4, SimpleHandlersTyped

LEMMA DetectPartitionTyped ==
    ASSUME NEW s, Shaped(s), RoundTyped(s)
    PROVE  RoundTyped(DetectPartition(s))
<1> DEFINE on == [s EXCEPT !.detected = TRUE]
           off == [s EXCEPT !.detected = FALSE]
<1>1. Shaped(on) /\ RoundTyped(on) /\ Shaped(off) /\ RoundTyped(off)
  BY DEF Shaped, Fields, RoundTyped
<1>2. DetectPartition(s) \in {s, off, EnterRecovery(on), ExitRecovery(off)}
  BY DEF DetectPartition
<1> HIDE DEF on, off
<1>3. RoundTyped(EnterRecovery(on))
  BY <1>1, SimpleHandlersTyped
<1>4. RoundTyped(ExitRecovery(off))
  BY <1>1, ConfigAssumption DEF ExitRecovery, Shaped, Fields, RoundTyped
<1> QED  BY <1>1, <1>2, <1>3, <1>4

\* The types of what is not in the record, and the bounds of the timers.
OutsideTyped ==
    /\ late \subseteq Validators /\ active \in {"new", "started", "stopped"}
    /\ strayTimers <= MaxTimers /\ advanceTimers <= MaxTimers /\ recoveryTimers <= MaxTimers

TypesInv == IInv /\ RoundTyped(Now) /\ OutsideTyped

LEMMA NowTyped ==
    RoundTyped(Now) <=> /\ round \in 0 .. RoundCycle - 1 /\ phase \in {"PROPOSAL", "VOTING", "RECOVERY"}
                        /\ proposer \in Validators
                        /\ failedRounds \in 0 .. MaxFailedRounds /\ consecutiveTimeouts \in 0 .. 3
BY DEF RoundTyped, Now

LEMMA TypesInvSays == TypesInv => TypeOK
<1> SUFFICES ASSUME TypesInv PROVE TypeOK
  OBVIOUS
<1>1. Kept(Now)
  BY DEF TypesInv, IInv
<1>2. /\ strayTimers \in Nat /\ advanceTimers \in Nat /\ recoveryTimers \in Nat
      /\ detected \in BOOLEAN /\ recoveryMode \in BOOLEAN /\ roundTimer \in BOOLEAN
      /\ status \in [Validators -> {"ACTIVE", "SUSPECTED", "FAILED"}]
      /\ failures \in [Validators -> 0 .. 3]
  BY <1>1, NowShaped DEF Kept, Counters, Flags, Healthy
<1>3. MaxTimers \in Nat
  BY ConfigAssumption
<1> QED  BY <1>2, <1>3, NowTyped DEF TypesInv, OutsideTyped, TypeOK

LEMMA TypesInit == Init => TypesInv
<1> SUFFICES ASSUME Init PROVE TypesInv
  OBVIOUS
<1>1. IInv
  BY InitIInv
<1>2. RoundProposer(status, 0) \in Validators
  BY ProposerIsValidator
<1>3. RoundTyped(Now)
  BY <1>2, NowTyped, ConfigAssumption DEF Init
<1>4. OutsideTyped
  BY ConfigAssumption DEF Init, OutsideTyped
<1> QED  BY <1>1, <1>3, <1>4 DEF TypesInv

LEMMA BecomeTyped ==
    ASSUME NEW s, RoundTyped(s), Become(s), late' \subseteq Validators, active' \in {"new", "started", "stopped"}
    PROVE  RoundTyped(Now)' /\ OutsideTyped'
<1>1. /\ round' = s.round /\ phase' = s.phase /\ proposer' = s.proposer
      /\ failedRounds' = s.failedRounds /\ consecutiveTimeouts' = s.consecutiveTimeouts
      /\ strayTimers' <= MaxTimers /\ advanceTimers' <= MaxTimers /\ recoveryTimers' <= MaxTimers
  BY DEF Become
<1>2. RoundTyped(Now)'
  BY <1>1 DEF RoundTyped, Now
<1> QED  BY <1>1, <1>2 DEF OutsideTyped

LEMMA TypesNext == TypesInv /\ [Next]_vars => TypesInv'
<1> SUFFICES ASSUME TypesInv, [Next]_vars PROVE TypesInv'
  OBVIOUS
<1>1. IInv'
  BY NextIInv DEF TypesInv
<1>2. Kept(Now) /\ RoundTyped(Now) /\ OutsideTyped /\ Shaped(Now)
  BY NowShaped DEF TypesInv, IInv
<1>3. late \subseteq Validators /\ active \in {"new", "started", "stopped"}
  BY <1>2 DEF OutsideTyped
<1> SUFFICES RoundTyped(Now)' /\ OutsideTyped'
  BY <1>1 DEF TypesInv
<1>4. CASE UNCHANGED vars
  BY <1>2, <1>4 DEF vars, RoundTyped, Now, OutsideTyped
<1>5. ASSUME NEW v \in Validators, FallSilent(v) PROVE RoundTyped(Now)' /\ OutsideTyped'
  BY <1>2, <1>5 DEF FallSilent, RoundTyped, Now, OutsideTyped
<1>6. CASE HealthCheck
  <2> DEFINE f == [v \in Validators |-> IF v \in late THEN UpTo(3, failures[v]) ELSE failures[v]]
             st == [v \in Validators |-> CASE f[v] >= 3 -> "FAILED"
                                           [] f[v] = 2 /\ v \in late -> "SUSPECTED"
                                           [] f[v] < 2 /\ v \in late -> "ACTIVE"
                                           [] OTHER -> status[v]]
             s == [Now EXCEPT !.failures = f, !.status = st]
  <2>1. Become(DetectPartition(s)) /\ UNCHANGED <<late, active>>
    BY <1>6 DEF HealthCheck
  <2> HIDE DEF f, st
  <2>2. Shaped(s) /\ RoundTyped(s)
    BY <1>2 DEF Shaped, Fields, RoundTyped
  <2> HIDE DEF s
  <2>3. RoundTyped(DetectPartition(s))
    BY <2>2, DetectPartitionTyped
  <2> QED  BY <1>3, <2>1, <2>3, BecomeTyped
<1>7. CASE RoundTimerFires
  <2> DEFINE s == [Now EXCEPT !.roundTimer = FALSE]
             t == [Now EXCEPT !.stray = @ - 1]
  <2>1. Become(RoundTimeout(s)) \/ Become(RoundTimeout(t))
    BY <1>7 DEF RoundTimerFires
  <2>2. /\ Shaped(s) /\ RoundTyped(s) /\ s.status = Now.status /\ s.failures = Now.failures
        /\ Shaped(t) /\ RoundTyped(t) /\ t.status = Now.status /\ t.failures = Now.failures
    BY <1>2 DEF Shaped, Fields, RoundTyped
  <2> HIDE DEF s, t
  <2>3. Healthy(s) /\ Healthy(t)
    BY <1>2, <2>2 DEF Kept, Healthy
  <2>4. RoundTyped(RoundTimeout(s)) /\ RoundTyped(RoundTimeout(t))
    BY <2>2, <2>3, RoundTimeoutTyped
  <2>5. late' = late /\ active' = active
    BY <1>7 DEF RoundTimerFires
  <2> QED  BY <1>3, <2>1, <2>4, <2>5, BecomeTyped
<1>8. CASE AdvanceTimerFires
  <2> DEFINE s == [Now EXCEPT !.advance = @ - 1]
  <2>1. Become(StartConsensusRound(s)) /\ UNCHANGED <<late, active>>
    BY <1>8 DEF AdvanceTimerFires
  <2>2. Shaped(s) /\ RoundTyped(s)
    BY <1>2 DEF Shaped, Fields, RoundTyped
  <2> HIDE DEF s
  <2> QED  BY <1>3, <2>1, <2>2, SimpleHandlersTyped, BecomeTyped
<1>9. CASE RecoveryTimerFires
  <2> DEFINE s == [Now EXCEPT !.recovery = @ - 1]
             t == [s EXCEPT !.recoveryMode = FALSE, !.phase = "PROPOSAL"]
  <2>1. (Become(StartConsensusRound(t)) \/ Become(s)) /\ UNCHANGED <<late, active>>
    BY <1>9 DEF RecoveryTimerFires
  <2>2. Shaped(s) /\ RoundTyped(s)
    BY <1>2 DEF Shaped, Fields, RoundTyped
  <2> HIDE DEF s
  <2>3. Shaped(t) /\ RoundTyped(t)
    BY <2>2 DEF Shaped, Fields, RoundTyped
  <2> HIDE DEF t
  <2> QED  BY <1>3, <2>1, <2>2, <2>3, SimpleHandlersTyped, BecomeTyped
<1>10. CASE Start
  BY <1>2, <1>3, <1>10, SimpleHandlersTyped, BecomeTyped DEF Start
<1>11. CASE Stop
  <2> DEFINE s == [Now EXCEPT !.roundTimer = FALSE]
  <2>1. Become(s) /\ active' = "stopped" /\ late' = late
    BY <1>11 DEF Stop
  <2>2. RoundTyped(s)
    BY <1>2 DEF Shaped, Fields, RoundTyped
  <2> HIDE DEF s
  <2> QED  BY <1>3, <2>1, <2>2, BecomeTyped
<1> QED  BY <1>4, <1>5, <1>6, <1>7, <1>8, <1>9, <1>10, <1>11 DEF Next

\* FaultToleranceTypeOK, the types of all five: among them that a round's proposer
\* is always one of the validators, however few of them are left, and that no
\* callback leaves a timer, a status or a stage its module does not know.
THEOREM FaultToleranceAlwaysTyped ==
    ASSUME FailoverConstants, PartitionConstants, RecoveryConstants, AccusationConstants
    PROVE  TheFailover!Spec /\ ThePartition!Spec /\ TheRecovery!Spec /\ TheAccusations!Spec /\ Spec
           => []FaultToleranceTypeOK
<1>1. Spec => []TypeOK
  BY TypesInit, TypesNext, TypesInvSays, PTL DEF Spec
<1> QED
  BY <1>1, LeaderAlwaysOne, SideAlwaysKept, RecoveryAlwaysCarriedOn, JailAlwaysHasRecord, PTL DEF FaultToleranceTypeOK
=============================================================================
