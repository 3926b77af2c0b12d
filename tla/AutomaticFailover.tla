--------------------------- MODULE AutomaticFailover ---------------------------
(***************************************************************************)
(* core/consensus/AutomaticFailover.ts: one node's watch over the others,    *)
(* the election of a leader and the recovery of failed nodes.  Every callback*)
(* runs to its end, so each is one action, written as a function of the      *)
(* state record: an election or a recovery can start in the middle of a      *)
(* round over the nodes.  Delays are configuration: a pending timer may fire *)
(* at any moment, and any node that is not heard of may be late.             *)
(***************************************************************************)
EXTENDS Integers, Sequences, BagsExt, SequencesExt, Bags, FiniteSets

CONSTANTS
    Nodes,
    Self,         \* currentNode
    None,         \* null
    Priorities,   \* [Nodes -> SUBSET Nat]: the priorities its role and chance can give a node
    Configs,      \* records [maxFailed, minActive]: maxFailedNodes, minActiveValidators
    RetryAttempts,\* config.retryAttempts
    MaxTimers     \* bound: pending timers

VARIABLES
    nodes,     \* the keys of the Map, in insertion order
    status,    \* node.status
    failures,  \* node.consecutiveFailures, up to the largest value it is compared with
    priority,  \* node.priority
    flagged,   \* the nodes with isLeader
    leader,    \* currentLeader
    failover,  \* failoverMode
    config,
    timers,    \* bag of <<kind, node>>: what setTimeout has pending
    running    \* healthCheckTimer is set

vars == <<nodes, status, failures, priority, flagged, leader, failover, config, timers, running>>

Status == {"ACTIVE", "SUSPECTED", "FAILED", "RECOVERING"}
\* "recovered": markNodeRecovered; "attempt": attemptNodeRecovery; "outcome":
\* the end of an attempt; "orphan": the same for a node since replaced or
\* removed, whose object only the callback still holds.
Kinds == {"recovered", "attempt", "outcome", "orphan"}

Now == [nodes |-> nodes, status |-> status, failures |-> failures, priority |-> priority,
        flagged |-> flagged, leader |-> leader, failover |-> failover, timers |-> timers]

Become(s) ==
    /\ BagCardinality(s.timers) <= MaxTimers
    /\ nodes' = s.nodes /\ status' = s.status /\ failures' = s.failures
    /\ priority' = s.priority /\ flagged' = s.flagged /\ leader' = s.leader
    /\ failover' = s.failover /\ timers' = s.timers
    /\ UNCHANGED <<config, running>>

In(s, st) == {n \in ToSet(s.nodes) : s.status[n] = st}
Fails(s, n) == [s EXCEPT !.failures[n] = IF @ < 3 \/ @ < RetryAttempts THEN @ + 1 ELSE @]
Schedule(s, kind, S) == [s EXCEPT !.timers = @ (+) SetToBag({kind} \X S)]

Init ==
    /\ nodes = <<Self>>
    /\ status = [n \in Nodes |-> "ACTIVE"]
    /\ failures = [n \in Nodes |-> 0]
    /\ priority = [n \in Nodes |-> CHOOSE p \in Priorities[n] : TRUE]
    /\ flagged = {} /\ leader = None /\ failover = FALSE
    /\ config \in Configs
    /\ timers = EmptyBag
    /\ running = FALSE

-----------------------------------------------------------------------------
\* Mutant of Elect: the flags of earlier leaders stay.
ElectAlso(s) ==
    IF In(s, "ACTIVE") = {} THEN s
    ELSE LET winner == CHOOSE n \in In(s, "ACTIVE") :
                           \A m \in In(s, "ACTIVE") : s.priority[n] >= s.priority[m]
         IN  [s EXCEPT !.flagged = @ \cup {winner}, !.leader = winner, !.failover = FALSE]

\* triggerLeaderElection and startLeaderElection: the active node of highest
\* priority; with none active the old leader and the old flags stay.
Elect(s) ==
    IF In(s, "ACTIVE") = {} THEN s
    ELSE LET winner == CHOOSE n \in In(s, "ACTIVE") :
                           \A m \in In(s, "ACTIVE") : s.priority[n] >= s.priority[m]
         IN  [s EXCEPT !.flagged = {winner}, !.leader = winner, !.failover = FALSE]

\* triggerFailover: a recovery attempt for every failed node, unless in it.
Failover(s) ==
    IF s.failover THEN s
    ELSE Schedule([s EXCEPT !.failover = TRUE], "attempt", In(s, "FAILED"))

LeaderInactive(s) == s.leader \in ToSet(s.nodes) /\ s.status[s.leader] # "ACTIVE"

\* Mutant of CheckConditions: the leader is not looked at.
CheckCounts(s) ==
    IF \/ Cardinality(In(s, "FAILED")) >= config.maxFailed
       \/ Cardinality(In(s, "ACTIVE")) < config.minActive
    THEN Failover(s) ELSE s

\* checkFailoverConditions
CheckConditions(s) ==
    IF \/ Cardinality(In(s, "FAILED")) >= config.maxFailed
       \/ Cardinality(In(s, "ACTIVE")) < config.minActive
    THEN Failover(s)
    ELSE IF LeaderInactive(s) THEN Elect(s) ELSE s

\* handleNodeStatusChange
StatusChanged(s, n) ==
    CheckConditions(IF n \in s.flagged /\ s.status[n] = "FAILED"
                    THEN Elect([s EXCEPT !.leader = None]) ELSE s)

\* One node's turn in performHealthCheck, which is the node's only if it is late.
Timeout(s, n) ==
    LET t == Fails([s EXCEPT !.status[n] = "SUSPECTED"], n)
    IN  IF t.failures[n] >= 3 THEN StatusChanged([t EXCEPT !.status[n] = "FAILED"], n) ELSE t

Turn(s, n, late) == IF n \in late /\ s.status[n] = "ACTIVE" THEN Timeout(s, n) ELSE s

\* What the turns of all nodes leave, each begun where the one before it ended.
AfterTurns(late) ==
    LET after[i \in 0 .. Len(nodes)] == IF i = 0 THEN Now ELSE Turn(after[i - 1], nodes[i], late)
    IN  after[Len(nodes)]

\* performHealthCheck, with the nodes not heard of for three intervals.
HealthCheck(late) == running /\ Become(CheckConditions(AfterTurns(late)))

\* updateNodeHealth
UpdateNodeHealth(n, health) ==
    /\ n \in ToSet(nodes)
    /\ LET set(st) == [Now EXCEPT !.status[n] = st]
           t == CASE health = "FAILED" -> Fails(set("FAILED"), n)
                  [] health = "SUSPECTED" /\ status[n] = "ACTIVE" -> set("SUSPECTED")
                  [] health = "ACTIVE" /\ status[n] \in {"FAILED", "SUSPECTED"} ->
                       Schedule([set("RECOVERING") EXCEPT !.failures[n] = 0], "recovered", {n})
                  [] health = "ACTIVE" /\ status[n] \notin {"FAILED", "SUSPECTED"} ->
                       [Now EXCEPT !.failures[n] = 0]
                  [] OTHER -> Now
       IN  Become(IF t.status[n] # status[n] THEN StatusChanged(t, n) ELSE t)

-----------------------------------------------------------------------------
\* The callbacks: `Fire' takes the timer that fires out of the bag.
Fire(kind, n) == [Now EXCEPT !.timers = BagRemove(@, <<kind, n>>)]
Pending(kind, n) == BagIn(<<kind, n>>, timers)

\* markNodeRecovered
MarkNodeRecovered(n) ==
    /\ Pending("recovered", n)
    /\ LET s == Fire("recovered", n)
       IN  Become(IF n \in ToSet(nodes) /\ status[n] = "RECOVERING"
                  THEN CheckConditions([s EXCEPT !.status[n] = "ACTIVE"]) ELSE s)

\* attemptNodeRecovery
AttemptNodeRecovery(n) ==
    /\ Pending("attempt", n)
    /\ LET s == Fire("attempt", n)
       IN  Become(IF n \in ToSet(nodes) /\ status[n] = "FAILED"
                  THEN Schedule(s, "outcome", {n}) ELSE s)

\* The simulated attempt succeeds: whatever the node's status is by now.
AttemptSucceeds(n) ==
    /\ Pending("outcome", n)
    /\ Become(Schedule([Fire("outcome", n) EXCEPT !.status[n] = "RECOVERING"], "recovered", {n}))

\* It fails: one more attempt, or none any more.
AttemptFails(n) ==
    /\ Pending("outcome", n)
    /\ LET s == Fails(Fire("outcome", n), n)
       IN  Become(IF s.failures[n] < RetryAttempts THEN Schedule(s, "attempt", {n}) ELSE s)

\* The end of an attempt on an object that is no longer in the Map changes
\* that object only, but what it schedules goes by the node's id.
OrphanEnds(n) ==
    /\ Pending("orphan", n)
    /\ \E s \in {Fire("orphan", n)} :
          Become(s) \/ Become(Schedule(s, "recovered", {n})) \/ Become(Schedule(s, "attempt", {n}))

-----------------------------------------------------------------------------
\* Mutant of Dropped: the flag of a leader outlives its place in the Map.
DroppedFlagged(s, n) == [s EXCEPT !.timers = BagRemoveAll(@, <<"outcome", n>>)]

\* The object of n in the Map is dropped: the attempts under way keep the old one.
Dropped(s, n) ==
    LET underWay == {<<"outcome", n>>} \cap DOMAIN s.timers
        orphans == [x \in {<<"orphan", t[2]>> : t \in underWay} |-> s.timers[<<"outcome", n>>]]
    IN  [s EXCEPT !.timers = BagRemoveAll(@, <<"outcome", n>>) (+) orphans, !.flagged = @ \ {n}]

AddNode(n) ==
    \E p \in Priorities[n] \ {priority[m] : m \in ToSet(nodes) \ {n}} :
        Become([Dropped(Now, n) EXCEPT
                  !.nodes = IF n \in ToSet(@) THEN @ ELSE Append(@, n),
                  !.status[n] = "ACTIVE", !.failures[n] = 0, !.priority[n] = p])

RemoveNode(n) ==
    /\ n \in ToSet(nodes)
    /\ LET s == [Dropped(Now, n) EXCEPT !.nodes = RemoveAt(@, CHOOSE i \in DOMAIN @ : @[i] = n),
                                         !.status[n] = "ACTIVE", !.failures[n] = 0]
       IN  Become(IF n \in flagged THEN Elect([s EXCEPT !.leader = None]) ELSE s)

ForceLeaderElection == Become(Elect(Now))
ForceFailover == Become(Failover(Now))

\* start and stop: only the periodic check is ever stopped.
StartOrStop ==
    /\ running' = ~running
    /\ UNCHANGED <<nodes, status, failures, priority, flagged, leader, failover, config, timers>>

UpdateConfig(c) ==
    /\ config' = c
    /\ UNCHANGED <<nodes, status, failures, priority, flagged, leader, failover, timers, running>>

Next ==
    \/ \E late \in SUBSET Nodes : HealthCheck(late)
    \/ \E n \in Nodes :
          \/ \E h \in Status : UpdateNodeHealth(n, h)
          \/ MarkNodeRecovered(n) \/ AttemptNodeRecovery(n)
          \/ AttemptSucceeds(n) \/ AttemptFails(n) \/ OrphanEnds(n)
          \/ AddNode(n) \/ RemoveNode(n)
    \/ ForceLeaderElection \/ ForceFailover \/ StartOrStop
    \/ \E c \in Configs : UpdateConfig(c)

Spec == Init /\ [][Next]_vars

-----------------------------------------------------------------------------
TypeOK ==
    /\ ToSet(nodes) \subseteq Nodes
    /\ status \in [Nodes -> Status]
    /\ failures \in [Nodes -> Nat]
    /\ \A n \in Nodes : priority[n] \in Priorities[n]
    /\ flagged \subseteq ToSet(nodes)
    /\ leader \in Nodes \cup {None}
    /\ failover \in BOOLEAN /\ running \in BOOLEAN
    /\ config \in Configs
    /\ IsABag(timers) /\ DOMAIN timers \subseteq Kinds \X Nodes

\* At most one node believes it leads, and the leader on record is that one or
\* unknown: through removals, replacements and elections in the middle of a check.
OneLeader ==
    /\ Cardinality(flagged) <= 1
    /\ \A n \in flagged : leader \in {n, None}

\* A periodic check never leaves a leader that is not active in charge, unless
\* it goes into failover mode: also when nodes fail one after the other during
\* the check and elect each other.
NotLeftByCheck ==
    LeaderInactive(Now)' /\ ~failover' => ~\E late \in SUBSET Nodes : HealthCheck(late)
LeaderWatched == [][NotLeftByCheck]_vars

\* A node that is recovering has a timer that will end it: no order of reports,
\* attempts, replacements and timers strands it.
RecoveringEnds == \A n \in In(Now, "RECOVERING") : Pending("recovered", n)
=============================================================================
