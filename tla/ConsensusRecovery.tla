--------------------------- MODULE ConsensusRecovery ---------------------------
(***************************************************************************)
(* core/consensus/ConsensusRecovery.ts: the recovery that follows a failed   *)
(* round, a chain of timers in which every stage schedules the next.  What   *)
(* the simulated network answers is a choice; delays are configuration.      *)
(***************************************************************************)
EXTENDS Integers, BagsExt, Bags

CONSTANTS
    MaxRound,            \* bound: the rounds that may fail
    MaxRecoveryAttempts, \* config.maxRecoveryAttempts
    RecoveryModes,       \* values updateConfig may give config.recoveryMode
    MaxTimers            \* bound: pending timers

VARIABLES
    mode,       \* recoveryState.mode
    target,     \* recoveryState.targetRound
    attempts,   \* recoveryState.recoveryAttempts, up to MaxRecoveryAttempts
    successful, \* recoveryState.lastSuccessfulRound
    timers      \* bag of the stages that setTimeout has pending

vars == <<mode, target, attempts, successful, timers>>

\* The stages of a recovery: the analysis before synchronising, the answer of
\* the network, a retry, the verification, the analysis of inconsistencies and
\* their resolution.
Stages == {"analysis", "sync", "retry", "verify", "inconsistency", "resolution"}
\* The two waits of a conservative emergency.
Waits == {"stabilize", "standard"}

Init ==
    /\ mode = "NORMAL" /\ target = 0 /\ attempts = 0 /\ successful = 0
    /\ timers = EmptyBag

-----------------------------------------------------------------------------
Bounded == BagCardinality(timers') <= MaxTimers

\* The pending stage `from' fires and schedules `to'.
Move(from, to) ==
    /\ BagIn(from, timers)
    /\ timers' = BagAdd(BagRemove(timers, from), to)

Fire(from) == BagIn(from, timers) /\ timers' = BagRemove(timers, from)

Keep == UNCHANGED <<mode, target, attempts, successful>>

\* startRecovery, with analyzeFailure, when it is not refused.
Enter(round, bag) ==
    /\ mode' = "RECOVERY" /\ target' = round /\ attempts' = 0
    /\ timers' = BagAdd(bag, "analysis")
    /\ UNCHANGED successful

StartRecovery(round) ==
    /\ mode = "NORMAL"
    /\ Enter(round, timers)
    /\ Bounded

StartSynchronization == Move("analysis", "sync") /\ Keep
SyncSucceeds == Move("sync", "verify") /\ Keep
RetrySync == Move("retry", "sync") /\ Keep

\* handleSyncFailure while attempts are left.
HandleSyncFailure ==
    /\ attempts + 1 < MaxRecoveryAttempts
    /\ Move("sync", "retry")
    /\ attempts' = attempts + 1
    /\ UNCHANGED <<mode, target, successful>>

\* handleSyncFailure at the last attempt, and enterEmergencyMode: an aggressive
\* recovery only announces itself, a conservative one waits.
EnterEmergencyMode ==
    /\ attempts + 1 >= MaxRecoveryAttempts
    /\ \/ "AGGRESSIVE" \in RecoveryModes /\ Fire("sync")
       \/ "CONSERVATIVE" \in RecoveryModes /\ Move("sync", "stabilize")
    /\ mode' = "EMERGENCY"
    /\ attempts' = MaxRecoveryAttempts
    /\ UNCHANGED <<target, successful>>

VerificationFails == Move("verify", "inconsistency") /\ Keep
InconsistenciesFound == Move("inconsistency", "resolution") /\ Keep
VerifyResolved == Move("resolution", "verify") /\ Keep

\* completeRecovery, after the verification or an analysis that finds nothing.
CompleteRecovery ==
    /\ Fire("verify") \/ Fire("inconsistency")
    /\ mode' = "NORMAL" /\ attempts' = 0 /\ successful' = target
    /\ UNCHANGED target

-----------------------------------------------------------------------------
\* attemptStandardRecovery, and startRecovery of the next round at its end: in
\* emergency mode that is refused as already in recovery.
WaitToStabilize == Move("stabilize", "standard") /\ Keep

StandardRecovery ==
    /\ BagIn("standard", timers)
    /\ IF mode = "NORMAL" THEN Enter(target + 1, BagRemove(timers, "standard"))
       ELSE timers' = BagRemove(timers, "standard") /\ Keep
    /\ target' <= MaxRound

\* resetRecoveryState: what is pending stays pending.
ResetRecoveryState ==
    /\ mode' = "NORMAL" /\ target' = 0 /\ attempts' = 0 /\ successful' = 0
    /\ UNCHANGED timers

Callback ==
    \/ StartSynchronization \/ SyncSucceeds \/ HandleSyncFailure \/ RetrySync
    \/ EnterEmergencyMode \/ VerificationFails \/ InconsistenciesFound \/ VerifyResolved
    \/ CompleteRecovery \/ WaitToStabilize \/ StandardRecovery

Next ==
    \/ Callback
    \/ \E round \in 1 .. MaxRound : StartRecovery(round)
    \/ ResetRecoveryState

Spec == Init /\ [][Next]_vars

-----------------------------------------------------------------------------
TypeOK ==
    /\ mode \in {"NORMAL", "RECOVERY", "EMERGENCY"}
    /\ target \in 0 .. MaxRound /\ successful \in 0 .. MaxRound
    /\ attempts \in 0 .. MaxRecoveryAttempts
    /\ IsABag(timers) /\ DOMAIN timers \subseteq Stages \cup Waits

\* A recovery under way always has a stage pending that will carry it on, and
\* emergency mode is entered only when the attempts are used up: also when a
\* reset left stages of an earlier recovery behind.
RecoveryCarriedOn ==
    /\ mode = "RECOVERY" => \E stage \in Stages : BagIn(stage, timers)
    /\ mode = "EMERGENCY" => attempts = MaxRecoveryAttempts
=============================================================================
