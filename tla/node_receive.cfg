SPECIFICATION FairSpec
CONSTANTS
    Self = "node-1"
    Role = "authority"
    InitValidators <- ThreeValidators
    Txs = {"t1", "bad"}
    ValidTxs = {"t1"}
    WireBlocks <- AllBlocks
    FutureBlocks <- Future
    IdIsPem = FALSE
    MaxBatch = 1
    MaxObjects = 1
    MaxAdmin = 0
    MaxRestarts = 0
INVARIANTS TypeOK ChainLinked RoundRobin
PROPERTIES ChainGrows
CHECK_DEADLOCK FALSE
