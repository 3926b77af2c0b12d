SPECIFICATION FairSpec
CONSTANTS
    Voters = {"v1", "v2", "v3", "v4"}
    Nodes = {"v1", "v2"}
    MayValidate = {"v1", "v2", "v3"}
    Validators <- ThreeValidators
    Hashes = {"b1"}
    VotesPerNode = 1
    Repeats = FALSE
    MaxEdits = 1
INVARIANTS TypeOK Agreement DecideOnce 
PROPERTIES MajorityDecides
CHECK_DEADLOCK FALSE
