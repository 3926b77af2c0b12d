SPECIFICATION Spec
CONSTANTS
    Self = "node-1"
    Role = "authority"
    InitValidators <- OneValidator
    Txs = {"t1", "bad"}
    ValidTxs = {"t1"}
    WireBlocks <- SoloBlocks
    FutureBlocks <- Future
    IdIsPem = FALSE
    MaxBatch = 2
    MaxObjects = 2
    MaxAdmin = 0
    MaxRestarts = 0
INVARIANTS ChainLinked
CHECK_DEADLOCK FALSE
