SPECIFICATION Spec
CONSTANTS
    Events = {e1, e2, e3, e4}
    Genesis = genesis
    Disciplines = {"serial", "perTurn"}
    EagerStarts = {FALSE}
    Immutable = TRUE
    BatchSize = 2
    KeepAbove = 2
    KeepLast = 1
    None = none
    MaxRestarts = 2
    MaxFaults = 1
INVARIANTS TypeOK ChainIntact PointerHasRecord NoAcknowledgedFork 
CHECK_DEADLOCK FALSE
