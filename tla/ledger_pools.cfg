SPECIFICATION MCSpec
CONSTANTS
    Accounts = {"a", "b"}
    Txs <- MCTxs
    Configs <- MCConfigs
    InitConfig <- MCInitConfig
    MaxAdded = 4
    MaxTime = 1
    MaxUpdates = 1
    Alloc <- MCAlloc
    LedgerTxs <- MCLedgerTxs
    MaxHeight = 4
    MaxTxs = 2
    MaxPoolSize = 2
    MinGasPrice = 2
    MaxGasLimit = 1
INVARIANTS PartsTypeOK ChainLinked SentInNonceOrder FundsAccounted IndexMatchesPending NonceOrder
PROPERTIES AdmissionRestoresCapacity ImplementsAbstractPool BasicImplementsAbstractPool
CHECK_DEADLOCK FALSE
