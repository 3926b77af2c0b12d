SPECIFICATION Spec
CONSTANTS
    Events = {e1}
    Genesis = genesis
    Disciplines = {"serial"}
    EagerStarts = {TRUE}
    Immutable = TRUE
    BatchSize = 100
    KeepAbove = 10000
    KeepLast = 5000
    None = none
    MaxRestarts = 0
    MaxFaults = 0
INVARIANTS IntegrityHeld
CHECK_DEADLOCK FALSE
