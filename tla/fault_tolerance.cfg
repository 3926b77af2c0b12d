SPECIFICATION MCSpec
\* Accusations age out of the count after one tick and jail lasts one.
CONSTANTS
    n1 = n1
    n2 = n2
    n3 = n3
    None = None
    Watcher = n1
    Nodes = {n1, n2}
    Priorities <- FirstBeforeSecond
    Configs <- OneOrTwoFailed
    RetryAttempts = 2
    MaxFailoverTimers = 2
    Members = {n1, n2, n3}
    MaxPartitionTimers = 2
    MaxRound = 2
    MaxRecoveryAttempts = 2
    RecoveryModes = {"AGGRESSIVE", "CONSERVATIVE"}
    MaxRecoveryTimers = 3
    Suspects = {n1}
    Rounds = {1}
    Blocks = {1}
    Threshold = 2
    EvidenceTimeout = 2
    Punishment = 1
    MaxTime = 3
    MaxAccusations = 2
    ValidatorSet <- ThreeValidators
    Self = n2
    MinValidators = 2
    MaxFailedRounds = 2
    RoundCycle = 6
    MaxTimers = 2
INVARIANTS FaultToleranceTypeOK RecoveriesCarriedOn OneLeader SideKept JailHasRecord RoundsGoOn
PROPERTIES LeaderWatched RecoveryHoldsRounds
CHECK_DEADLOCK FALSE
