SPECIFICATION FairSpec
CONSTANTS
    Self = "node-1"
    Role = "authority"
    InitValidators <- FourValidators
    Txs = {"t1", "bad"}
    ValidTxs = {"t1"}
    WireBlocks <- RivalBlocks
    FutureBlocks <- Future
    IdIsPem = FALSE
    MaxBatch = 1
    MaxObjects = 1
    MaxAdmin = 0
    MaxRestarts = 0
PROPERTIES ChainGrows
CHECK_DEADLOCK FALSE
