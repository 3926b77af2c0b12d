------------------------ MODULE FaultTolerantConsensus ------------------------
(***************************************************************************)
(* core/consensus/FaultTolerantConsensus.ts: the rounds of one node, the     *)
(* timers that move them, the health of the validators and the recovery mode *)
(* they lead to.  The methods that would bring blocks and votes in are       *)
(* placeholders: getPendingTransactions returns nothing, so no block is ever *)
(* proposed, a round ends by its timer, and no vote ever refreshes the health*)
(* of a validator.  Delays are configuration: timers fire in any order.      *)
(***************************************************************************)
EXTENDS Integers, Sequences, FiniteSets

CONSTANTS
    ValidatorSet,    \* config.validatorSet, a sequence
    Self,            \* nodeInfo.id
    MinValidators,   \* config.minValidators
    MaxFailedRounds, \* faultTolerance.maxFailedRounds
    RoundCycle,      \* a multiple of every number of active validators: rounds count modulo it
    MaxTimers        \* bound: pending timers of one kind

\* The validator set is a list of at least one.
ASSUME ConfigAssumption ==
    /\ Len(ValidatorSet) \in Nat \ {0}
    /\ DOMAIN ValidatorSet = 1 .. Len(ValidatorSet)
    /\ MinValidators \in Nat /\ MaxFailedRounds \in Nat
    /\ MaxTimers \in Nat /\ RoundCycle \in Nat \ {0}

VARIABLES
    round, phase, proposer,          \* currentRound
    status,                          \* health.status of each validator
    failures,                        \* health.consecutiveFailures, up to 3
    late,                            \* validators whose lastSeen is past timeoutThreshold
    detected,                        \* networkPartition.detected
    recoveryMode,
    failedRounds, consecutiveTimeouts, \* up to the values they are compared with
    roundTimer,                      \* the timer of consensusTimer is pending
    strayTimers,                     \* pending round timers consensusTimer no longer names
    advanceTimers,                   \* pending delays of advanceToNextRound
    recoveryTimers,                  \* pending timeouts of startConsensusRecovery
    active                           \* "new", "started" or "stopped"

vars == <<round, phase, proposer, status, failures, late, detected, recoveryMode, failedRounds,
          consecutiveTimeouts, roundTimer, strayTimers, advanceTimers, recoveryTimers, active>>

Validators == {ValidatorSet[i] : i \in DOMAIN ValidatorSet}

Now == [round |-> round, phase |-> phase, proposer |-> proposer, status |-> status,
        failures |-> failures, detected |-> detected, recoveryMode |-> recoveryMode,
        failedRounds |-> failedRounds, consecutiveTimeouts |-> consecutiveTimeouts,
        roundTimer |-> roundTimer, stray |-> strayTimers, advance |-> advanceTimers,
        recovery |-> recoveryTimers]

Become(s) ==
    /\ s.stray <= MaxTimers /\ s.advance <= MaxTimers /\ s.recovery <= MaxTimers
    /\ round' = s.round /\ phase' = s.phase /\ proposer' = s.proposer
    /\ status' = s.status /\ failures' = s.failures /\ detected' = s.detected
    /\ recoveryMode' = s.recoveryMode
    /\ failedRounds' = s.failedRounds /\ consecutiveTimeouts' = s.consecutiveTimeouts
    /\ roundTimer' = s.roundTimer /\ strayTimers' = s.stray
    /\ advanceTimers' = s.advance /\ recoveryTimers' = s.recovery

UpTo(bound, n) == IF n < bound THEN n + 1 ELSE n
Active(s) == {v \in Validators : s.status[v] = "ACTIVE"}

\* getRoundProposer: the health map has each id once, where it first stood, and
\* every candidate has reputation 100, so they stay in order.
Candidates(st) ==
    {i \in DOMAIN ValidatorSet : /\ st[ValidatorSet[i]] \in {"ACTIVE", "RECOVERING"}
                                 /\ \A j \in 1 .. i - 1 : ValidatorSet[j] # ValidatorSet[i]}
InTurn(candidates, n) == CHOOSE i \in candidates : Cardinality({j \in candidates : j < i}) = n

RoundProposer(st, r) ==
    LET candidates == Candidates(st)
    IN  IF candidates = {} THEN ValidatorSet[1]
        ELSE ValidatorSet[InTurn(candidates, r % Cardinality(candidates))]

Init ==
    /\ round = 0 /\ phase = "PROPOSAL"
    /\ status = [v \in Validators |-> "ACTIVE"]
    /\ proposer = RoundProposer(status, 0)
    /\ failures = [v \in Validators |-> 0]
    /\ late = {} /\ detected = FALSE /\ recoveryMode = FALSE
    /\ failedRounds = 0 /\ consecutiveTimeouts = 0
    /\ roundTimer = FALSE /\ strayTimers = 0 /\ advanceTimers = 0 /\ recoveryTimers = 0
    /\ active = "new"

-----------------------------------------------------------------------------
\* advanceToNextRound
Advance(s) == [s EXCEPT !.roundTimer = FALSE, !.advance = @ + 1]

\* startConsensusRound and handleProposalPhase: the node's own rounds are
\* empty and pass at once, the others wait for their timer.
Begin(s) ==
    LET r == (s.round + 1) % RoundCycle
        p == RoundProposer(s.status, r)
        t == [s EXCEPT !.round = r, !.proposer = p, !.roundTimer = TRUE,
                       !.stray = IF s.roundTimer THEN @ + 1 ELSE @]
    IN  IF p = Self THEN Advance([t EXCEPT !.phase = "PROPOSAL"]) ELSE [t EXCEPT !.phase = "VOTING"]

\* Mutant of StartConsensusRound: recovery mode does not hold the round back.
StartAnyRound(s) == Begin(s)

StartConsensusRound(s) == IF s.recoveryMode THEN s ELSE Begin(s)

\* enterRecoveryMode and startConsensusRecovery
EnterRecovery(s) == [s EXCEPT !.recoveryMode = TRUE, !.phase = "RECOVERY", !.recovery = @ + 1]

\* shouldEnterRecoveryMode
ShouldRecover(s) ==
    s.failedRounds >= MaxFailedRounds \/ s.consecutiveTimeouts >= 3 \/ s.detected

\* handleValidatorTimeout
ValidatorTimeout(s, v) ==
    LET f == UpTo(3, s.failures[v])
    IN  [s EXCEPT !.failures[v] = f, !.status[v] = IF f >= 2 THEN "SUSPECTED" ELSE "ACTIVE"]

\* Mutant of RoundTimeout: outside recovery nothing moves on to the next round.
RoundTimeoutOnly(s) ==
    LET t == [s EXCEPT !.failedRounds = UpTo(MaxFailedRounds, @),
                       !.consecutiveTimeouts = UpTo(3, @)]
        u == IF s.phase = "PROPOSAL" THEN ValidatorTimeout(t, s.proposer) ELSE t
    IN  IF ShouldRecover(u) THEN EnterRecovery(u) ELSE u

\* handleRoundTimeout
RoundTimeout(s) ==
    LET t == [s EXCEPT !.failedRounds = UpTo(MaxFailedRounds, @),
                       !.consecutiveTimeouts = UpTo(3, @)]
        u == IF s.phase = "PROPOSAL" THEN ValidatorTimeout(t, s.proposer) ELSE t
    IN  IF ShouldRecover(u) THEN EnterRecovery(u) ELSE Advance(u)

\* exitRecoveryMode
ExitRecovery(s) ==
    [s EXCEPT !.recoveryMode = FALSE, !.phase = "PROPOSAL",
              !.failedRounds = 0, !.consecutiveTimeouts = 0]

\* detectNetworkPartition and resolveNetworkPartition
DetectPartition(s) ==
    IF 3 * Cardinality(Active(s)) < 2 * Len(ValidatorSet)
    THEN IF s.detected THEN s ELSE EnterRecovery([s EXCEPT !.detected = TRUE])
    ELSE IF ~s.detected THEN s
    ELSE IF s.recoveryMode THEN ExitRecovery([s EXCEPT !.detected = FALSE])
    ELSE [s EXCEPT !.detected = FALSE]

-----------------------------------------------------------------------------
\* Time passes: nothing brings lastSeen forward again.
FallSilent(v) ==
    /\ late' = late \cup {v}
    /\ UNCHANGED <<round, phase, proposer, status, failures, detected, recoveryMode, failedRounds,
                   consecutiveTimeouts, roundTimer, strayTimers, advanceTimers, recoveryTimers, active>>

\* performHealthCheck, which runs from the constructor to stop.
HealthCheck ==
    /\ active # "stopped"
    /\ LET f == [v \in Validators |-> IF v \in late THEN UpTo(3, failures[v]) ELSE failures[v]]
           st == [v \in Validators |-> CASE f[v] >= 3 -> "FAILED"
                                         [] f[v] = 2 /\ v \in late -> "SUSPECTED"
                                         [] f[v] < 2 /\ v \in late -> "ACTIVE"
                                         [] OTHER -> status[v]]
       IN  Become(DetectPartition([Now EXCEPT !.failures = f, !.status = st]))
    /\ UNCHANGED <<late, active>>

\* The timer of the current round, or one that an earlier round left behind.
RoundTimerFires ==
    /\ \/ roundTimer /\ Become(RoundTimeout([Now EXCEPT !.roundTimer = FALSE]))
       \/ strayTimers > 0 /\ Become(RoundTimeout([Now EXCEPT !.stray = @ - 1]))
    /\ UNCHANGED <<late, active>>

AdvanceTimerFires ==
    /\ advanceTimers > 0
    /\ Become(StartConsensusRound([Now EXCEPT !.advance = @ - 1]))
    /\ UNCHANGED <<late, active>>

\* handleRecoveryTimeout and continueWithReducedQuorum
RecoveryTimerFires ==
    /\ recoveryTimers > 0
    /\ LET s == [Now EXCEPT !.recovery = @ - 1]
       IN  Become(IF recoveryMode /\ Cardinality(Active(s)) >= MinValidators
                  THEN StartConsensusRound([s EXCEPT !.recoveryMode = FALSE, !.phase = "PROPOSAL"])
                  ELSE s)
    /\ UNCHANGED <<late, active>>

Start ==
    /\ active = "new"
    /\ active' = "started"
    /\ Become(StartConsensusRound(Now))
    /\ UNCHANGED late

\* stop: the timers it knows; a pending delay or recovery goes on.
Stop ==
    /\ active = "started"
    /\ active' = "stopped"
    /\ Become([Now EXCEPT !.roundTimer = FALSE])
    /\ UNCHANGED late

Next ==
    \/ \E v \in Validators : FallSilent(v)
    \/ HealthCheck \/ RoundTimerFires \/ AdvanceTimerFires \/ RecoveryTimerFires
    \/ Start \/ Stop

Spec == Init /\ [][Next]_vars

-----------------------------------------------------------------------------
TypeOK ==
    /\ round \in 0 .. RoundCycle - 1
    /\ phase \in {"PROPOSAL", "VOTING", "RECOVERY"}
    /\ proposer \in Validators
    /\ status \in [Validators -> {"ACTIVE", "SUSPECTED", "FAILED"}]
    /\ failures \in [Validators -> 0 .. 3]
    /\ late \subseteq Validators
    /\ detected \in BOOLEAN /\ recoveryMode \in BOOLEAN /\ roundTimer \in BOOLEAN
    /\ failedRounds \in 0 .. MaxFailedRounds /\ consecutiveTimeouts \in 0 .. 3
    /\ strayTimers \in 0 .. MaxTimers /\ advanceTimers \in 0 .. MaxTimers
    /\ recoveryTimers \in 0 .. MaxTimers
    /\ active \in {"new", "started", "stopped"}

\* A round timer or a delay that will start the next round.
LoopPending == roundTimer \/ strayTimers > 0 \/ advanceTimers > 0

\* Outside recovery mode the rounds of a started node never run dry: whatever
\* the order of round timers, delays, health checks and recoveries.
RoundsGoOn == active = "started" /\ ~recoveryMode => LoopPending

\* No round starts while recovery mode lasts.
RecoveryHoldsRounds == [][recoveryMode /\ recoveryMode' => round' = round]_vars
=============================================================================
