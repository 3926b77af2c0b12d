------------------------ MODULE NetworkPartitionHandler ------------------------
(***************************************************************************)
(* core/consensus/NetworkPartitionHandler.ts: one node's view of which nodes *)
(* it can reach, of whether the network is split, and of the side it is on.  *)
(* Delays are configuration: a timer fires at any moment, and a node may have*)
(* been silent for one or for two detection timeouts whenever a check runs.  *)
(***************************************************************************)
EXTENDS Integers, FiniteSets, BagsExt, Bags

CONSTANTS
    Nodes,
    Self,     \* currentNode
    None,     \* null
    MaxTimers \* bound: pending timers, syncTimer apart

VARIABLES
    nodes,     \* keys of partitionNodes
    status,    \* node.status
    partition, \* currentPartition, and with it partitionDetected; isolated nodes and the side
    syncTimer, \* a retry of the synchronisation is pending
    timers,    \* bag of the other pending timers, <<kind, node>>
    paused     \* what a listener knows: consensusPaused was emitted, consensusResumed not yet

vars == <<nodes, status, partition, syncTimer, timers, paused>>

Status == {"CONNECTED", "SUSPECTED", "PARTITIONED", "RECOVERING"}
Partitions == [isolated : SUBSET Nodes, majority : BOOLEAN]
\* "recovered": markNodeRecovered; "reconnect": the end of a reconnection
\* attempt; "recovery": the next round of attempts of a minority.
Kinds == {"recovered", "reconnect", "recovery"}

Split == partition # None
Minority == Split /\ ~partition.majority
In(st, S) == {n \in nodes : st[n] \in S}
Pending(kind, n) == BagIn(<<kind, n>>, timers)
Bounded == BagCardinality(timers') <= MaxTimers

Init ==
    /\ nodes = {Self}
    /\ status = [n \in Nodes |-> "CONNECTED"]
    /\ partition = None
    /\ syncTimer = FALSE
    /\ timers = EmptyBag
    /\ paused = FALSE

-----------------------------------------------------------------------------
\* Math.ceil(totalNodes * 2/3)
Enough(connected) == 3 * Cardinality(connected) >= 2 * Cardinality(nodes)

\* The test of createPartitionInfo: a half is a majority.
Majority(connected) == 2 * Cardinality(connected) >= Cardinality(nodes)

\* Mutant of Resolve: the retry of the synchronisation is left to itself.
ResolveKeepTimer(st) ==
    /\ status' = [n \in Nodes |-> IF st[n] = "RECOVERING" THEN st[n] ELSE "CONNECTED"]
    /\ partition' = None
    /\ paused' = FALSE
    /\ UNCHANGED syncTimer

\* resolvePartition: everything but what is recovering counts as connected.
Resolve(st) ==
    /\ status' = [n \in Nodes |-> IF st[n] = "RECOVERING" THEN st[n] ELSE "CONNECTED"]
    /\ partition' = None
    /\ syncTimer' = FALSE
    /\ paused' = FALSE

\* checkPartitionResolution
CheckResolution(st) ==
    IF Split /\ Enough(In(st, {"CONNECTED"})) THEN Resolve(st)
    ELSE status' = st /\ UNCHANGED <<partition, syncTimer, paused>>

\* createPartitionInfo: the side with at least as many nodes goes on and
\* synchronises, the other pauses and tries to reconnect.
Detect(st, connected) ==
    /\ status' = st
    /\ partition' = [isolated |-> nodes \ connected, majority |-> Majority(connected)]
    /\ IF Majority(connected) THEN syncTimer' = TRUE /\ UNCHANGED <<timers, paused>>
       ELSE /\ paused' = TRUE
            /\ timers' = BagAdd(timers, <<"recovery", Self>>)
            /\ UNCHANGED syncTimer

\* performPartitionCheck, by its timer or by forcePartitionDetection.
PartitionCheck(late, veryLate) ==
    LET st == [n \in Nodes |->
                 CASE n \in late /\ status[n] = "CONNECTED" -> "SUSPECTED"
                   [] n \in veryLate /\ status[n] = "SUSPECTED" -> "PARTITIONED"
                   [] OTHER -> status[n]]
        connected == In(st, {"CONNECTED"})
    IN  /\ IF ~Enough(connected) /\ ~Split THEN Detect(st, connected)
           ELSE CheckResolution(st) /\ UNCHANGED timers
        /\ Bounded
        /\ UNCHANGED nodes

-----------------------------------------------------------------------------
\* Mutant of Hear: a node that is coming back is not brought back.
HearOnly(n, bag) ==
    IF n \in nodes /\ status[n] \in {"SUSPECTED", "PARTITIONED"}
    THEN status' = [status EXCEPT ![n] = "RECOVERING"] /\ timers' = bag
    ELSE timers' = bag /\ UNCHANGED status

\* updateHeartbeat, given the bag it adds to.
Hear(n, bag) ==
    IF n \in nodes /\ status[n] \in {"SUSPECTED", "PARTITIONED"}
    THEN /\ status' = [status EXCEPT ![n] = "RECOVERING"]
         /\ timers' = BagAdd(bag, <<"recovered", n>>)
    ELSE timers' = bag /\ UNCHANGED status

UpdateHeartbeat(n) ==
    /\ Hear(n, timers)
    /\ Bounded
    /\ UNCHANGED <<nodes, partition, syncTimer, paused>>

\* attemptNodeReconnection, its end: heard of again, or not.
ReconnectionEnds(n) ==
    /\ Pending("reconnect", n)
    /\ LET bag == BagRemove(timers, <<"reconnect", n>>)
       IN  Hear(n, bag) \/ (timers' = bag /\ UNCHANGED status)
    /\ UNCHANGED <<nodes, partition, syncTimer, paused>>

\* markNodeRecovered: a timer of an earlier silence also ends a suspicion.
MarkNodeRecovered(n) ==
    /\ Pending("recovered", n)
    /\ timers' = BagRemove(timers, <<"recovered", n>>)
    /\ IF n \in nodes /\ status[n] \in {"RECOVERING", "SUSPECTED"}
       THEN CheckResolution([status EXCEPT ![n] = "CONNECTED"])
       ELSE UNCHANGED <<status, partition, syncTimer, paused>>
    /\ UNCHANGED nodes

\* scheduleRecoveryAttempts: the loop goes on for as long as a partition, this
\* one or a later one, is detected when it comes round.
RecoveryRound ==
    /\ Pending("recovery", Self)
    /\ timers' = IF Split THEN timers (+) SetToBag({"reconnect"} \X partition.isolated)
                 ELSE BagRemove(timers, <<"recovery", Self>>)
    /\ Bounded
    /\ UNCHANGED <<nodes, status, partition, syncTimer, paused>>

\* attemptPartitionSync again: it sets its timer anew while a partition lasts.
SyncRound ==
    /\ syncTimer
    /\ syncTimer' = Split
    /\ UNCHANGED <<nodes, status, partition, timers, paused>>

AddNode(n) ==
    /\ nodes' = nodes \cup {n}
    /\ status' = [status EXCEPT ![n] = "CONNECTED"]
    /\ UNCHANGED <<partition, syncTimer, timers, paused>>

RemoveNode(n) ==
    /\ n \in nodes
    /\ nodes' = nodes \ {n}
    /\ status' = [status EXCEPT ![n] = "CONNECTED"]
    /\ UNCHANGED <<partition, syncTimer, timers, paused>>

ForcePartitionResolution ==
    /\ Split
    /\ Resolve(status)
    /\ UNCHANGED <<nodes, timers>>

\* stop: the check, which forcePartitionDetection can still run, and the
\* synchronisation; the recovery loop is not tracked and goes on.
Stop ==
    /\ syncTimer' = FALSE
    /\ UNCHANGED <<nodes, status, partition, timers, paused>>

Next ==
    \/ \E late \in SUBSET nodes : \E veryLate \in SUBSET late : PartitionCheck(late, veryLate)
    \/ \E n \in Nodes : \/ UpdateHeartbeat(n) \/ ReconnectionEnds(n) \/ MarkNodeRecovered(n)
                        \/ AddNode(n) \/ RemoveNode(n)
    \/ RecoveryRound \/ SyncRound \/ ForcePartitionResolution \/ Stop

Spec == Init /\ [][Next]_vars

-----------------------------------------------------------------------------
TypeOK ==
    /\ nodes \subseteq Nodes
    /\ status \in [Nodes -> Status]
    /\ partition \in Partitions \cup {None}
    /\ syncTimer \in BOOLEAN /\ paused \in BOOLEAN
    /\ IsABag(timers) /\ DOMAIN timers \subseteq Kinds \X Nodes

\* Consensus is paused exactly while the node sees itself in a minority, it
\* then never stops trying to reconnect, and only the other side synchronises:
\* whatever timers earlier partitions left behind.
SideKept ==
    /\ paused <=> Minority
    /\ Minority => Pending("recovery", Self)
    /\ syncTimer => Split /\ partition.majority

\* A node that is recovering has a timer that will end it.
RecoveringEnds == \A n \in In(status, {"RECOVERING"}) : Pending("recovered", n)
=============================================================================
