\* The services, one at a time; a ledger that mines hangs, so the run may stop.
SPECIFICATION MCSpec
CONSTANTS
    Parts = {"aml", "kyc", "cache", "processor", "shards", "database", "monitor", "automation", "access", "compliance", "permissions", "financial", "rounds", "health", "state", "gas", "rbac", "contracts", "network", "selection", "execution"}
    Accounts = {"u1", "u2"}
    Roles = {"r1"}
    Permissions = {"read"}
    MaxLoginAttempts = 2
    SessionTimeout = 0
    MaxTime = 1
    MaxSessions = 1
    Addresses = {"a1"}
    PMRoles = {"USER", "VIEWER"}
    PMPermissions = {"READ", "CREATE"}
    DefaultPermissions <- RoleTable
    MaxMs = 1
    Identities = {"i1"}
    StampWindow = 1
    RateWindow = 1
    RoleLimits <- RateLimits
    IdleLimit = 1
    MaxMinute = 2
    MaxServed = 2
    Workers = {"w1", "w2"}
    Priorities = {0, 1}
    MaxRetries = 2
    MaxTasks = 3
    MaxRestarts = 1
    Signers = {"p1"}
    Employees = {"e1", "e2"}
    TemplateIds = {"tmpl"}
    MaxContracts = 2
    MaxPayrolls = 2
    ScheduleIds = {"s"}
    Statuses = {"REJECTED"}
    MaxFiled = 1
    MaxReports = 1
    ShardCount = 2
    ReplicationFactor = 1
    ShardNodes = {"n1", "n2"}
    Loads = {9}
    MaxSweeps = 2
    DBQueries <- Queries
    Parameters = {1, 2}
    DBIndexes <- BlockHash
    DefaultIndexes <- BlockHash
    PoolSize = 1
    MaxConnections = 2
    CallIds = {1, 2}
    MaxMade = 2
    MaxIndexCalls = 1
    MaxRecorded = 2
    Transactions = {"t1"}
    GasLimit = 100
    GasAmounts = {50, 100}
    Prices = {1000, 3000}
    NewPrices = {1000, 2100}
    Limits <- PriceLimits
    HistoryLimit = 2
    RecentLimit = 1
    ContractFunctions <- ABIFunctions
    Discounts <- GasDiscounts
    AMLTransactions <- AMLTxs
    FrequencyThreshold = 2
    MaxFrequency = 2
    AnalysesKept = 3
    MaxHours = 1
    MaxAnalyses = 4
    MaxAlerts = 2
    MaxAMLReports = 1
    Applicants = {"u"}
    Profiles <- KYCProfiles
    MaxRequests = 2
    MaxKYCUpdates = 1
    Keys = {"k1", "k2", "k3"}
    MaxSize = 2
    DefaultTTL = 1
    TTLs = {0}
    MaxUse = 2
    MaxClock = 2
    CounterNames = {"errors"}
    RateLimit = 0
    QueueLimit = 0
    Retention = 1
    MaxHour = 1
    MaxCount = 1
    MaxAlertsKept = 1
    MaxRecords = 1
    MaxProfiles = 2
    MaxSamples = 1
    FinancialTransactions <- Payments
    MaxFinancial = 2
    MaxPending = 2
    Validators = {"v1", "v2", "v3"}
    Self = "v1"
    Undefined = "none"
    MaxRound = 2
    MaxAsked = 2
    Watched = {"v1"}
    SlowTime = 10
    MinReputation = 50
    KeptTypes = {"SUCCESS_RATE_LOW", "CONSECUTIVE_FAILURES", "UPTIME_LOW"}
    MaxInterval = 4
    MaxCalls = 5
    Contracts = {"c1"}
    StorageKeys = {"k1", "k2"}
    KeyLength = 1
    Values = {1, 2}
    MaxStorage = 2
    MaxSnapshots = 1
    MaxObjects = 2
    MaxStateTime = 1
    Parties = {"p1", "p2"}
    Amounts <- Transfers
    MaxDeployed = 2
    Called <- CalledAt
    MaxBalance = 1
    Nodes = {"n1", "n2"}
    MaxSockets = 2
    MaxBroadcasts = 1
    PoolAccounts = {"a", "b"}
    PoolTransactions <- PoolTxs
    PoolConfigs <- OneConfigOnly
    PoolConfig <- OneConfig
    MaxAdded = 3
    MaxPoolTime = 1
    MaxUpdates = 0
    DataLength <- DataLengths
    BlockGasLimits = {45400}
    Sizes = {1, 3}
    Cooldown = 0
    MaxAttempts = 1
    Objects <- BothObjects
    AddressOf <- SameAddress
    ABI <- ContractABIs
    Names = {"set"}
    GasLimits = {0, 1}
    MaxExecMs = 1
    MaxRunning = 1
    MaxNonce = 2
    MaxExecuted = 2
    MaxSaved = 1
INVARIANTS
    ServicesTypeOK
    
    
    
    DecisionsFollow
PROPERTIES
    EndsAreKept
CHECK_DEADLOCK FALSE
