SPECIFICATION Spec
CONSTANTS
    Self = "node-1"
    Role = "authority"
    InitValidators <- OneValidator
    Txs = {"t1"}
    ValidTxs = {"t1"}
    WireBlocks <- TurnBlocks
    FutureBlocks <- Future
    IdIsPem = TRUE
    MaxBatch = 2
    MaxObjects = 4
    MaxAdmin = 1
    MaxRestarts = 1
INVARIANTS PoolNotInChain
PROPERTIES ChainContentsFrozen PoolLeavesOnlyToChain
CHECK_DEADLOCK FALSE
