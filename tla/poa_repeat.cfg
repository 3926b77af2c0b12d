SPECIFICATION Spec
CONSTANTS
    Voters = {"v1", "v2", "v3", "v4"}
    Nodes = {"v1", "v2"}
    MayValidate = {"v1", "v2", "v3"}
    Validators <- ThreeValidators
    Hashes = {"b1"}
    VotesPerNode = 1
    Repeats = TRUE
    MaxEdits = 0
INVARIANTS Agreement
CHECK_DEADLOCK FALSE
