--------------------------- MODULE MCFaultTolerance ---------------------------
(***************************************************************************)
(* Finite instances of the parts of core/consensus that watch over a network *)
(* of validators.  The repository exports them and wires none of them to     *)
(* another, so each runs by itself: `part' says which one a behaviour is     *)
(* about, and the others stand still.                                        *)
(***************************************************************************)
EXTENDS FaultTolerantConsensus

CONSTANTS
    None, Watcher,      \* the node that watches over the others
    Nodes, Priorities, Configs, RetryAttempts, MaxFailoverTimers,       \* AutomaticFailover
    Members, MaxPartitionTimers,                                        \* NetworkPartitionHandler
    MaxRound, MaxRecoveryAttempts, RecoveryModes, MaxRecoveryTimers,    \* ConsensusRecovery
    Suspects, Rounds, Blocks, Threshold, EvidenceTimeout, Punishment,   \* ByzantineFaultTolerance
    MaxTime, MaxAccusations,
    n1, n2, n3

VARIABLES
    part,
    fNodes, fStatus, fFailures, priority, flagged, leader, failover, config, fTimers, running, \* AutomaticFailover
    pNodes, pStatus, partition, syncTimer, pTimers, paused, \* NetworkPartitionHandler
    mode, target, attempts, successful, rTimers,            \* ConsensusRecovery
    now, evidence, accusations, slashings, jailed, reputation \* ByzantineFaultTolerance

failoverVars ==
    <<fNodes, fStatus, fFailures, priority, flagged, leader, failover, config, fTimers, running>>
partitionVars == <<pNodes, pStatus, partition, syncTimer, pTimers, paused>>
recoveryVars == <<mode, target, attempts, successful, rTimers>>
accusationVars == <<now, evidence, accusations, slashings, jailed, reputation>>

TheFailover == INSTANCE AutomaticFailover WITH
    Self <- Watcher, MaxTimers <- MaxFailoverTimers,
    nodes <- fNodes, status <- fStatus, failures <- fFailures, timers <- fTimers

ThePartition == INSTANCE NetworkPartitionHandler WITH
    Nodes <- Members, Self <- Watcher, MaxTimers <- MaxPartitionTimers,
    nodes <- pNodes, status <- pStatus, timers <- pTimers

TheRecovery == INSTANCE ConsensusRecovery WITH MaxTimers <- MaxRecoveryTimers, timers <- rTimers

TheAccusations == INSTANCE ByzantineFaultTolerance WITH Validators <- Suspects

\* The rounds of a node whose turn is the second of three.
ThreeValidators == <<n1, n2, n3>>

\* Two nodes, the first of which goes before the other, so that it can fail in
\* a check, hand over to the second and see that one fail in the same check;
\* both failed nodes, or one, make a failover.
FirstBeforeSecond == [n \in {n1, n2} |-> IF n = n1 THEN {2} ELSE {1}]
OneOrTwoFailed == {[maxFailed |-> 2, minActive |-> 1], [maxFailed |-> 1, minActive |-> 1]}

MCInit ==
    /\ part \in {"failover", "partition", "recovery", "accusations", "rounds"}
    /\ TheFailover!Init /\ ThePartition!Init /\ TheRecovery!Init
    /\ TheAccusations!Init /\ Init

Failovers ==
    /\ part = "failover" /\ TheFailover!Next
    /\ UNCHANGED <<partitionVars, recoveryVars, accusationVars, vars>>

PartitionSteps ==
    /\ part = "partition" /\ ThePartition!Next
    /\ UNCHANGED <<failoverVars, recoveryVars, accusationVars, vars>>

Recoveries ==
    /\ part = "recovery" /\ TheRecovery!Next
    /\ UNCHANGED <<failoverVars, partitionVars, accusationVars, vars>>

AccusationSteps ==
    /\ part = "accusations" /\ TheAccusations!Next
    /\ UNCHANGED <<failoverVars, partitionVars, recoveryVars, vars>>

RoundSteps ==
    /\ part = "rounds" /\ Next
    /\ UNCHANGED <<failoverVars, partitionVars, recoveryVars, accusationVars>>

MCNext ==
    /\ Failovers \/ PartitionSteps \/ Recoveries \/ AccusationSteps \/ RoundSteps
    /\ UNCHANGED part

mcVars == <<part, failoverVars, partitionVars, recoveryVars, accusationVars, vars>>

MCSpec == MCInit /\ [][MCNext]_mcVars

\* Each part is well typed.
FaultToleranceTypeOK ==
    /\ TheFailover!TypeOK /\ ThePartition!TypeOK /\ TheRecovery!TypeOK
    /\ TheAccusations!TypeOK /\ TypeOK

\* Whatever is recovering - a node in the failover's or in the partition
\* handler's view, or the consensus itself - has a timer pending that carries
\* its recovery on.
RecoveriesCarriedOn ==
    TheFailover!RecoveringEnds /\ ThePartition!RecoveringEnds /\ TheRecovery!RecoveryCarriedOn

\* At most one node leads, and a check leaves no inactive leader in charge.
OneLeader == TheFailover!OneLeader
LeaderWatched == TheFailover!LeaderWatched

\* Pausing, reconnecting and synchronising follow the side of the partition.
SideKept == ThePartition!SideKept

\* Jail follows from a slashing on record.
JailHasRecord == TheAccusations!JailHasRecord
=============================================================================
