SPECIFICATION Spec
CONSTANTS
    Validators = {"a", "b"}
    Rounds = {1, 2}
    Blocks = {"x", "y"}
    Threshold = 2
    EvidenceTimeout = 2
    Punishment = 1
    MaxTime = 1
    MaxAccusations = 1
INVARIANT NoConflictKept
CHECK_DEADLOCK FALSE
