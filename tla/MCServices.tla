------------------------------ MODULE MCServices ------------------------------
(***************************************************************************)
(* The services of module Services and those that pay, agree, choose for a      *)
(* block and run contracts, which share no state either; and finite values for  *)
(* them all.  Each is explored by itself, the one a behaviour explores being     *)
(* chosen at its start.                                                       *)
(***************************************************************************)
EXTENDS Services, TLC

CONSTANTS
    Parts, \* the parts a run checks
    Signers, Employees, TemplateIds, MaxContracts, MaxPayrolls,                             \* SmartContractAutomation
    Transactions, GasLimit, GasAmounts, Prices, NewPrices, Limits,
    HistoryLimit, RecentLimit, ContractFunctions, Discounts,                                \* GasMeter
    FinancialTransactions, MaxFinancial, MaxPending,                                        \* SecureFinancialLedger
    Validators, Self, Undefined, MaxRound, MaxAsked,                                        \* ConsensusEngine
    Contracts, StorageKeys, KeyLength, Values, MaxStorage, MaxSnapshots,
    MaxObjects, MaxStateTime,                                                               \* ContractStateManager
    Parties, Amounts, MaxDeployed, Called, MaxBalance,                                      \* SmartContractEngine
    PoolAccounts, PoolTransactions, PoolConfigs, PoolConfig, MaxAdded, MaxPoolTime,
    MaxUpdates, DataLength, BlockGasLimits, Sizes, Cooldown, MaxAttempts,                   \* BlockSelection
    Objects, AddressOf, ABI, Names, GasLimits, MaxExecMs, MaxRunning,
    MaxNonce, MaxExecuted, MaxSaved                                                         \* ContractExecutionEngine

VARIABLES
    templates, contracts, creating, payrolls, paid,                      \* SmartContractAutomation
    limits, gasRefundEnabled, gasUsageHistory, currentGasPrice,
    gasRefunds, gasDiscounts,                                            \* GasMeter
    genesis, pendingTransactions, mining, submitted, finTxs, finAudit,   \* SecureFinancialLedger
    engineActive, validatorSet, round, phase, proposer, roundVotes, asked, \* ConsensusEngine
    stateTime, objects, contractStates, stateSnapshots, stateTransitions, stateHistory, \* ContractStateManager
    deployed, deploying, begun,                                          \* SmartContractEngine
    pending, processed, blacklisted, accountTransactions, nonceTracker, config,
    now, spinning, added, updates, protected, tried,                     \* BlockSelection
    execMs, objectState, environment, stats, running, saved              \* ContractExecutionEngine

TheAutomation == INSTANCE SmartContractAutomation
automationVars == <<templates, contracts, creating, payrolls, paid>>

TheGasMeter == INSTANCE GasMeter
gasVars == <<limits, gasRefundEnabled, gasUsageHistory, currentGasPrice, gasRefunds, gasDiscounts>>

TheFinancialLedger == INSTANCE SecureFinancialLedger
finVars == <<genesis, pendingTransactions, mining, submitted, finTxs, finAudit>>

TheEngine == INSTANCE ConsensusEngine
engineVars == <<engineActive, validatorSet, round, phase, proposer, roundVotes, asked>>

TheStates == INSTANCE ContractStateManager WITH MaxTime <- MaxStateTime
stateVars == <<stateTime, objects, contractStates, stateSnapshots, stateTransitions, stateHistory>>

TheContracts == INSTANCE SmartContractEngine WITH MaxContracts <- MaxDeployed
engineState == <<deployed, deploying, begun>>

TheSelection == INSTANCE BlockSelection WITH
    Accounts <- PoolAccounts, Txs <- PoolTransactions, Configs <- PoolConfigs, InitConfig <- PoolConfig,
    MaxTime <- MaxPoolTime, GasLimits <- BlockGasLimits
selectionVars == <<pending, processed, blacklisted, accountTransactions, nonceTracker, config, now, spinning, added, updates, protected, tried>>

TheExecution == INSTANCE ContractExecutionEngine WITH
    MaxMs <- MaxExecMs, MaxCount <- MaxExecuted, MaxSnapshots <- MaxSaved
executionVars == <<execMs, objectState, environment, stats, running, saved>>

-----------------------------------------------------------------------------
\* Every part keeps values of its types.
ServicesTypeOK ==
    /\ part = "aml" => TheAML!TypeOK
    /\ part = "kyc" => TheKYC!TypeOK
    /\ part = "cache" => TheCache!TypeOK
    /\ part = "processor" => TheProcessor!TypeOK
    /\ part = "shards" => TheShards!TypeOK
    /\ part = "database" => TheDatabase!TypeOK
    /\ part = "monitor" => TheMonitor!TypeOK
    /\ part = "automation" => TheAutomation!TypeOK
    /\ part = "access" => TheAccess!TypeOK
    /\ part = "compliance" => TheReporting!TypeOK
    /\ part = "permissions" => ThePermissions!TypeOK
    /\ part = "financial" => TheFinancialLedger!TypeOK
    /\ part = "rounds" => TheEngine!TypeOK
    /\ part = "health" => TheHealth!TypeOK
    /\ part = "state" => TheStates!TypeOK
    /\ part = "gas" => TheGasMeter!TypeOK
    /\ part = "rbac" => TheRBAC!TypeOK
    /\ part = "contracts" => TheContracts!TypeOK
    /\ part = "network" => TheNetwork!TypeOK
    /\ part = "selection" => TheSelection!SelectionTypeOK
    /\ part = "execution" => TheExecution!TypeOK

\* What is kept twice says the same in both places: histories and what they
\* were made from, states and their snapshots, tables and the lists they index,
\* statistics and what they count, balances and their sum.
CopiesAgree ==
    /\ part = "aml" => TheAML!HistoryIsAnalysed
    /\ part = "cache" => TheCache!EvictionKeepsUp /\ TheCache!OrderHasNoStrays
    /\ part = "shards" => TheShards!RoutedIsMember /\ TheShards!RangesAreRoutes
    /\ part = "database" => TheDatabase!CacheReads
    /\ part = "monitor" => TheMonitor!AlertsWatchRecords /\ TheMonitor!SummaryIsOfSamples
    /\ part = "compliance" => TheReporting!DashboardCountsAll
    /\ part = "state" => TheStates!HistoryIsOfTransitions /\ TheStates!SizeIsLimited
    /\ part = "gas" => TheGasMeter!RefundIsOfLastRecord
    /\ part = "contracts" => TheContracts!SupplyIsKept
    /\ part = "network" => TheNetwork!IncomingIsOpen
    /\ part = "execution" => TheExecution!CountsAgree /\ TheExecution!StorageWithinNonce

\* What was decided is what the evidence calls for, a refusal, a verification or
\* the choice for a block, and what was done is on record: a payment, a completed
\* transaction, an alert.
DecisionsFollow ==
    /\ part = "aml" => TheAML!NothingBlockedKept /\ TheAML!FrequencyCloses
    /\ part = "kyc" => TheKYC!PipelineDecides /\ TheKYC!LimitAppliesByHandOnly
    /\ part = "automation" => TheAutomation!PaymentsAreReported /\ TheAutomation!TypedWhenMade
    /\ part = "compliance" => TheReporting!TransactionsUnscored
    /\ part = "financial" => TheFinancialLedger!LedgerHasTheCompleted
    /\ part = "rounds" => TheEngine!OneOutcome
    /\ part = "health" => TheHealth!FailuresAreAlerted
    /\ part = "network" => TheNetwork!HeardOneWay
    /\ part = "selection" => TheSelection!BlockIsExecutable /\ TheSelection!BlockWithinLimits

\* What is shared or bounded stays within its bound: one worker a task, one
\* connection a query, requests within their rate, a price within its range, and
\* no shard rebalancing that no call will end.
LimitsHold ==
    /\ part = "processor" => TheProcessor!EachTaskOnce /\ TheProcessor!WaitingIsQueued
    /\ part = "shards" => TheShards!RebalancingEnds
    /\ part = "database" => TheDatabase!ConnectionsExclusive
    /\ part = "gas" => TheGasMeter!PriceIsLimited
    /\ part = "rbac" => TheRBAC!RateIsLimited

\* What has ended does not begin again: a task finished, a signature given, a
\* session or a request closed, a report approved.
EndsAreKept ==
    /\ TheProcessor!FinishedForGood
    /\ TheAutomation!SignaturesKept
    /\ TheAccess!AccessEndsOnce
    /\ TheReporting!ApprovalSticks

-----------------------------------------------------------------------------
\* What PermissionManager, RBACManager, DatabaseOptimizer and GasMeter are given.
RoleTable == [r \in {"USER", "VIEWER"} |-> IF r = "USER" THEN {"READ", "CREATE"} ELSE {"READ"}]
RateLimits == [authority |-> 2, validator |-> 1, peer |-> 1]
ReadBlock == [tables |-> {"blocks"}, words |-> {"hash"}, operations |-> {"SELECT"}]
WriteTransaction == [tables |-> {"transactions"}, words |-> {"hash"}, operations |-> {"INSERT"}]
Queries == {ReadBlock, WriteTransaction}
BlockHash == {[name |-> "idx_block_hash", table |-> "blocks", columns |-> {"hash"}]}
PriceLimits == {<<2000, 2100>>, <<2100, 2200>>}
ABIFunctions == [inputs : {0, 3}, gasLimit : {0, 90000}, writes : BOOLEAN, creates : BOOLEAN]
GasDiscounts == {[condition |-> "early_adopter", percentage |-> 15], [condition |-> "enterprise_partner", percentage |-> 20]}

\* AMLSystem
AMLTx(hash, from, high, rounded, odd) ==
    [hash |-> hash, from |-> from, high |-> high, split |-> FALSE, round |-> rounded, odd |-> odd]
AMLTxs == {AMLTx(1, "a", FALSE, FALSE, FALSE), AMLTx(3, "a", TRUE, TRUE, FALSE),
           [AMLTx(4, "b", FALSE, FALSE, FALSE) EXCEPT !.split = TRUE]}

\* KYCSystem
Profile(type, weight, docs) == [type |-> type, weight |-> weight, docs |-> docs]
KYCProfiles == {Profile("INDIVIDUAL", 0, <<"PASSPORT", "DRIVERS_LICENSE", "PROOF_OF_ADDRESS">>),
                Profile("HIGH_VALUE", 0, <<"PASSPORT", "DRIVERS_LICENSE", "BANK_STATEMENT", "TAX_RETURN", "PROOF_OF_ADDRESS">>),
                Profile("BUSINESS", 65, <<>>)}

\* SecureFinancialLedger
Payment(amount, type, odd) ==
    [amount |-> amount, type |-> type, branch |-> odd, unusualLocation |-> odd, atNight |-> odd]
Payments == {Payment(1000, "TRANSFER", FALSE), Payment(8000, "SETTLEMENT", FALSE), Payment(8000, "TRANSFER", TRUE),
             Payment(12000, "TRANSFER", TRUE), Payment(20000, "CROSS_BORDER", FALSE), Payment(30000, "CROSS_BORDER", FALSE),
             Payment(40000, "SETTLEMENT", FALSE), Payment(60000, "SETTLEMENT", TRUE), Payment(0, "TRANSFER", FALSE)}

\* SmartContractEngine
Transfers == {-1, 1}
CalledAt == {<<"p1", 0>>}

\* BlockSelection
PoolTx(from, nonce, gasPrice) == [from |-> from, nonce |-> nonce, gasPrice |-> gasPrice]
PoolTxs == {PoolTx("a", 0, 1), PoolTx("a", 1, 2), PoolTx("b", 0, 2)}
OneConfig == [maxPoolSize |-> 3, minGasPrice |-> 1, maxGasPrice |-> 2, maxTransactionsPerAccount |-> 2,
              evictionPolicy |-> "FIFO", blacklistEnabled |-> TRUE, spamProtection |-> TRUE]
OneConfigOnly == {OneConfig}
DataLengths == [t \in PoolTxs |-> 100 * (1 - t.nonce)]

\* ContractExecutionEngine
ContractFunction(mutability, gasLimit) ==
    [mutability |-> mutability, visibility |-> "public", gasLimit |-> gasLimit, inputs |-> <<"string">>, outputs |-> 0]
ContractABIs == [old |-> [functions |-> [set |-> ContractFunction("payable", 0)], events |-> TRUE],
                 new |-> [functions |-> [set |-> ContractFunction("view", 100)], events |-> FALSE]]
BothObjects == DOMAIN ContractABIs
SameAddress == [o \in BothObjects |-> "c"]

-----------------------------------------------------------------------------
MCInit ==
    /\ part \in Parts
    /\ TheAML!Init /\ TheKYC!Init /\ TheCache!Init /\ TheProcessor!Init /\ TheShards!Init /\ TheDatabase!Init /\ TheMonitor!Init /\ TheAutomation!Init /\ TheAccess!Init /\ TheReporting!Init /\ ThePermissions!Init /\ TheFinancialLedger!Init /\ TheEngine!Init /\ TheHealth!Init /\ TheStates!Init /\ TheGasMeter!Init /\ TheRBAC!Init /\ TheContracts!Init /\ TheNetwork!Init /\ TheSelection!SelectionInit /\ TheExecution!Init
    \* The choices another part begins with are made one way only.
    /\ part # "cache" => evictionPolicy = "LRU"
    /\ part # "rounds" => validatorSet = <<"v1">>
    /\ part # "gas" => limits = <<2000, 2100>>

MCNext ==
    \/ /\ part = "aml" /\ TheAML!Next
       /\ UNCHANGED <<part, kycVars, cacheVars, processorVars, shardVars, dbVars, monitorVars, automationVars, accessVars, complianceVars, pmVars, finVars, engineVars, healthVars, stateVars, gasVars, rbacVars, engineState, netVars, selectionVars, executionVars>>
    \/ /\ part = "kyc" /\ TheKYC!Next
       /\ UNCHANGED <<part, amlVars, cacheVars, processorVars, shardVars, dbVars, monitorVars, automationVars, accessVars, complianceVars, pmVars, finVars, engineVars, healthVars, stateVars, gasVars, rbacVars, engineState, netVars, selectionVars, executionVars>>
    \/ /\ part = "cache" /\ TheCache!Next
       /\ UNCHANGED <<part, amlVars, kycVars, processorVars, shardVars, dbVars, monitorVars, automationVars, accessVars, complianceVars, pmVars, finVars, engineVars, healthVars, stateVars, gasVars, rbacVars, engineState, netVars, selectionVars, executionVars>>
    \/ /\ part = "processor" /\ TheProcessor!Next
       /\ UNCHANGED <<part, amlVars, kycVars, cacheVars, shardVars, dbVars, monitorVars, automationVars, accessVars, complianceVars, pmVars, finVars, engineVars, healthVars, stateVars, gasVars, rbacVars, engineState, netVars, selectionVars, executionVars>>
    \/ /\ part = "shards" /\ TheShards!Next
       /\ UNCHANGED <<part, amlVars, kycVars, cacheVars, processorVars, dbVars, monitorVars, automationVars, accessVars, complianceVars, pmVars, finVars, engineVars, healthVars, stateVars, gasVars, rbacVars, engineState, netVars, selectionVars, executionVars>>
    \/ /\ part = "database" /\ TheDatabase!Next
       /\ UNCHANGED <<part, amlVars, kycVars, cacheVars, processorVars, shardVars, monitorVars, automationVars, accessVars, complianceVars, pmVars, finVars, engineVars, healthVars, stateVars, gasVars, rbacVars, engineState, netVars, selectionVars, executionVars>>
    \/ /\ part = "monitor" /\ TheMonitor!Next
       /\ UNCHANGED <<part, amlVars, kycVars, cacheVars, processorVars, shardVars, dbVars, automationVars, accessVars, complianceVars, pmVars, finVars, engineVars, healthVars, stateVars, gasVars, rbacVars, engineState, netVars, selectionVars, executionVars>>
    \/ /\ part = "automation" /\ TheAutomation!Next
       /\ UNCHANGED <<part, amlVars, kycVars, cacheVars, processorVars, shardVars, dbVars, monitorVars, accessVars, complianceVars, pmVars, finVars, engineVars, healthVars, stateVars, gasVars, rbacVars, engineState, netVars, selectionVars, executionVars>>
    \/ /\ part = "access" /\ TheAccess!Next
       /\ UNCHANGED <<part, amlVars, kycVars, cacheVars, processorVars, shardVars, dbVars, monitorVars, automationVars, complianceVars, pmVars, finVars, engineVars, healthVars, stateVars, gasVars, rbacVars, engineState, netVars, selectionVars, executionVars>>
    \/ /\ part = "compliance" /\ TheReporting!Next
       /\ UNCHANGED <<part, amlVars, kycVars, cacheVars, processorVars, shardVars, dbVars, monitorVars, automationVars, accessVars, pmVars, finVars, engineVars, healthVars, stateVars, gasVars, rbacVars, engineState, netVars, selectionVars, executionVars>>
    \/ /\ part = "permissions" /\ ThePermissions!Next
       /\ UNCHANGED <<part, amlVars, kycVars, cacheVars, processorVars, shardVars, dbVars, monitorVars, automationVars, accessVars, complianceVars, finVars, engineVars, healthVars, stateVars, gasVars, rbacVars, engineState, netVars, selectionVars, executionVars>>
    \/ /\ part = "financial" /\ TheFinancialLedger!Next
       /\ UNCHANGED <<part, amlVars, kycVars, cacheVars, processorVars, shardVars, dbVars, monitorVars, automationVars, accessVars, complianceVars, pmVars, engineVars, healthVars, stateVars, gasVars, rbacVars, engineState, netVars, selectionVars, executionVars>>
    \/ /\ part = "rounds" /\ TheEngine!Next
       /\ UNCHANGED <<part, amlVars, kycVars, cacheVars, processorVars, shardVars, dbVars, monitorVars, automationVars, accessVars, complianceVars, pmVars, finVars, healthVars, stateVars, gasVars, rbacVars, engineState, netVars, selectionVars, executionVars>>
    \/ /\ part = "health" /\ TheHealth!Next
       /\ UNCHANGED <<part, amlVars, kycVars, cacheVars, processorVars, shardVars, dbVars, monitorVars, automationVars, accessVars, complianceVars, pmVars, finVars, engineVars, stateVars, gasVars, rbacVars, engineState, netVars, selectionVars, executionVars>>
    \/ /\ part = "state" /\ TheStates!Next
       /\ UNCHANGED <<part, amlVars, kycVars, cacheVars, processorVars, shardVars, dbVars, monitorVars, automationVars, accessVars, complianceVars, pmVars, finVars, engineVars, healthVars, gasVars, rbacVars, engineState, netVars, selectionVars, executionVars>>
    \/ /\ part = "gas" /\ TheGasMeter!Next
       /\ UNCHANGED <<part, amlVars, kycVars, cacheVars, processorVars, shardVars, dbVars, monitorVars, automationVars, accessVars, complianceVars, pmVars, finVars, engineVars, healthVars, stateVars, rbacVars, engineState, netVars, selectionVars, executionVars>>
    \/ /\ part = "rbac" /\ TheRBAC!Next
       /\ UNCHANGED <<part, amlVars, kycVars, cacheVars, processorVars, shardVars, dbVars, monitorVars, automationVars, accessVars, complianceVars, pmVars, finVars, engineVars, healthVars, stateVars, gasVars, engineState, netVars, selectionVars, executionVars>>
    \/ /\ part = "contracts" /\ TheContracts!Next
       /\ UNCHANGED <<part, amlVars, kycVars, cacheVars, processorVars, shardVars, dbVars, monitorVars, automationVars, accessVars, complianceVars, pmVars, finVars, engineVars, healthVars, stateVars, gasVars, rbacVars, netVars, selectionVars, executionVars>>
    \/ /\ part = "network" /\ TheNetwork!Next
       /\ UNCHANGED <<part, amlVars, kycVars, cacheVars, processorVars, shardVars, dbVars, monitorVars, automationVars, accessVars, complianceVars, pmVars, finVars, engineVars, healthVars, stateVars, gasVars, rbacVars, engineState, selectionVars, executionVars>>
    \/ /\ part = "selection" /\ TheSelection!SelectionNext
       /\ UNCHANGED <<part, amlVars, kycVars, cacheVars, processorVars, shardVars, dbVars, monitorVars, automationVars, accessVars, complianceVars, pmVars, finVars, engineVars, healthVars, stateVars, gasVars, rbacVars, engineState, netVars, executionVars>>
    \/ /\ part = "execution" /\ TheExecution!Next
       /\ UNCHANGED <<part, amlVars, kycVars, cacheVars, processorVars, shardVars, dbVars, monitorVars, automationVars, accessVars, complianceVars, pmVars, finVars, engineVars, healthVars, stateVars, gasVars, rbacVars, engineState, netVars, selectionVars>>

MCSpec == MCInit /\ [][MCNext]_<<part, amlVars, kycVars, cacheVars, processorVars, shardVars, dbVars, monitorVars, automationVars, accessVars, complianceVars, pmVars, finVars, engineVars, healthVars, stateVars, gasVars, rbacVars, engineState, netVars, selectionVars, executionVars>>
=============================================================================
