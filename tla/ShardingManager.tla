---------------------------- MODULE ShardingManager ----------------------------
(***************************************************************************)
(* core/blockchain/ShardingManager.ts: shards 1..ShardCount, the nodes they   *)
(* are given, their health and their rebalancing.  getShard hands out the       *)
(* record itself, and a shard's transactions and synchronised replicas are       *)
(* counted there by whoever holds it: the class never does (Report).  Loads    *)
(* are in thousands.                                                          *)
(***************************************************************************)
EXTENDS Integers, FiniteSets, Maps

CONSTANTS
    ShardCount, ReplicationFactor,
    ShardNodes,
    Loads,      \* thousands of transactions a caller may count
    MaxSweeps   \* bound: calls of rebalanceShards under way at once

VARIABLES
    shards,       \* [nodes, status, load, synced]
    routingTable, \* node -> shard
    sweeps,       \* calls of rebalanceShards under way: call -> the shard it waits for
    stopped

shardVars == <<shards, routingTable, sweeps, stopped>>

ShardIds == 1..ShardCount
Overloaded == 8 \* rebalanceThreshold of the ten thousand a shard is meant for

Init ==
    /\ shards = [s \in ShardIds |-> [nodes |-> {}, status |-> "ACTIVE", load |-> 0, synced |-> 0]]
    /\ routingTable = Empty /\ sweeps = Empty /\ stopped = FALSE

\* addNodeToShard: a node already in another shard stays there too.
AddNodeToShard(n, s) ==
    /\ shards' = [shards EXCEPT ![s].nodes = @ \cup {n}]
    /\ routingTable' = Put(routingTable, n, s)
    /\ UNCHANGED <<sweeps, stopped>>

\* removeNodeFromShard: the route goes whichever shard it leads to.
RemoveNodeFromShard(n, s) ==
    /\ shards' = [shards EXCEPT ![s].nodes = @ \ {n}]
    /\ routingTable' = Drop(routingTable, {n})
    /\ UNCHANGED <<sweeps, stopped>>

\* What a holder of the record writes to it.
Report(s) ==
    /\ \/ \E l \in Loads : shards' = [shards EXCEPT ![s].load = l]
       \/ \E k \in {0, ReplicationFactor - 1} : shards' = [shards EXCEPT ![s].synced = k]
    /\ UNCHANGED <<routingTable, sweeps, stopped>>

-----------------------------------------------------------------------------
\* isShardHealthy, and performHealthCheck, which passes over a shard that is
\* being rebalanced.
Healthy(s) ==
    Cardinality(shards[s].nodes) >= ReplicationFactor /\ shards[s].synced >= ReplicationFactor - 1

HealthCheck ==
    /\ ~stopped
    /\ shards' = [s \in ShardIds |->
        [shards[s] EXCEPT !.status = IF @ = "REBALANCING" THEN @ ELSE IF Healthy(s) THEN "ACTIVE" ELSE "OFFLINE"]]
    /\ UNCHANGED <<routingTable, sweeps, stopped>>

\* The loop of rebalanceShards goes to the next shard overloaded by then, from
\* `from' on, and waits a second for it, on the shards as they are left (sh).
\* rebalanceShard sets the status whatever it was.
Proceed(call, from, sh) ==
    LET next == {s \in ShardIds : s >= from /\ sh[s].load > Overloaded}
    IN  IF next = {} THEN shards' = sh /\ sweeps' = Drop(sweeps, {call})
        ELSE /\ shards' = [sh EXCEPT ![Min(next)].status = "REBALANCING"]
             /\ sweeps' = Put(sweeps, call, Min(next))

RebalanceShards(call) ==
    /\ call \notin DOMAIN sweeps
    /\ Proceed(call, 1, shards)
    /\ UNCHANGED <<routingTable, stopped>>

\* The second ends: the shard is ACTIVE, even one found offline or stopped
\* meanwhile, and between a hundred and 1100 transactions are taken off.
ShardRebalanced(call) ==
    /\ call \in DOMAIN sweeps
    /\ \E moved \in {0, 1} :
        Proceed(call, sweeps[call] + 1,
                [shards EXCEPT ![sweeps[call]].status = "ACTIVE", ![sweeps[call]].load = @ - moved])
    /\ UNCHANGED <<routingTable, stopped>>

\* stop
StopSharding ==
    /\ ~stopped /\ stopped' = TRUE
    /\ shards' = [s \in ShardIds |-> [shards[s] EXCEPT !.status = "OFFLINE"]]
    /\ UNCHANGED <<routingTable, sweeps>>

Next ==
    \/ \E n \in ShardNodes, s \in ShardIds : AddNodeToShard(n, s) \/ RemoveNodeFromShard(n, s)
    \/ \E s \in ShardIds : Report(s)
    \/ HealthCheck \/ StopSharding
    \/ \E call \in 1..MaxSweeps : RebalanceShards(call) \/ ShardRebalanced(call)

Spec == Init /\ [][Next]_shardVars

-----------------------------------------------------------------------------
\* calculateShardRange and getShardByRange, for shards from 0 and the first
\* byte of an address.
ShardRange(i, count) ==
    LET size == 256 \div count
    IN  (i * size)..Min({(i + 1) * size - 1, 255})
ShardByRange(byte, count) == (byte * count) \div 256

-----------------------------------------------------------------------------
TypeOK ==
    /\ shards \in [ShardIds -> [nodes : SUBSET ShardNodes, status : {"ACTIVE", "OFFLINE", "REBALANCING"},
                                load : Int, synced : 0..(ReplicationFactor - 1)]]
    /\ IsMap(routingTable, ShardNodes, ShardIds)
    /\ IsMap(sweeps, 1..MaxSweeps, ShardIds) /\ stopped \in BOOLEAN

\* The table routes a node to a shard that has it, whatever shards it was put
\* in and taken from; a node of a shard need not be routed anywhere.
RoutedIsMember == \A n \in DOMAIN routingTable : n \in shards[routingTable[n]].nodes

\* A shard marked as rebalancing has a call under way that will end it.
RebalancingEnds == \A s \in ShardIds : shards[s].status = "REBALANCING" => \E c \in DOMAIN sweeps : sweeps[c] = s

\* The byte ranges shards advertise are those the range strategy sends them,
\* for a number of shards that divides 256: of three shards, the byte 85 is in
\* the second one's range and goes to the first.
RangesAreRoutes ==
    \A count \in {1, 2, 4, 8} : \A byte \in 0..255 : byte \in ShardRange(ShardByRange(byte, count), count)
=============================================================================
