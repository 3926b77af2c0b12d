------------------------------- MODULE Services -------------------------------
(***************************************************************************)
(* The services that say who may do what, watch the accounts, keep the other   *)
(* services fast and the nodes in touch.  They share no state, and no two of    *)
(* them call one another.  `part' names the one a behaviour is about.          *)
(***************************************************************************)
EXTENDS Integers, Sequences, FiniteSets

CONSTANTS
    Accounts, Roles, Permissions, MaxLoginAttempts, SessionTimeout, MaxTime, MaxSessions,   \* AccessControl
    Addresses, PMRoles, PMPermissions, DefaultPermissions, MaxMs,                           \* PermissionManager
    Identities, StampWindow, RateWindow, RoleLimits, IdleLimit, MaxMinute, MaxServed,       \* RBACManager
    Workers, Priorities, MaxRetries, MaxTasks, MaxRestarts,                                 \* ParallelProcessor
    ScheduleIds, Statuses, MaxFiled, MaxReports,                                            \* ComplianceReporting
    ShardCount, ReplicationFactor, ShardNodes, Loads, MaxSweeps,                            \* ShardingManager
    DBQueries, Parameters, DBIndexes, DefaultIndexes, PoolSize, MaxConnections,
    CallIds, MaxMade, MaxIndexCalls, MaxRecorded,                                           \* DatabaseOptimizer
    AMLTransactions, FrequencyThreshold, MaxFrequency, AnalysesKept,
    MaxHours, MaxAnalyses, MaxAlerts, MaxAMLReports,                                        \* AMLSystem
    Applicants, Profiles, MaxRequests, MaxKYCUpdates,                                       \* KYCSystem
    Keys, MaxSize, DefaultTTL, TTLs, MaxUse, MaxClock,                                      \* CacheLayer
    CounterNames, RateLimit, QueueLimit, Retention, MaxHour, MaxCount,
    MaxAlertsKept, MaxRecords, MaxProfiles, MaxSamples,                                     \* PerformanceMonitor
    Watched, SlowTime, MinReputation, KeptTypes, MaxInterval, MaxCalls,                     \* ValidatorHealthMonitor
    Nodes, MaxSockets, MaxBroadcasts                                                        \* NetworkManager

VARIABLES
    part,
    time, roles, roleLists, users, sessions, accessRequests,             \* AccessControl
    ms, rolePermissions, pmUsers, accessLog,                             \* PermissionManager
    minute, identities, permissionCache, requestCounts, served,          \* RBACManager
    tasks, queue, pool, workerRecords, attempts, retryTimers,            \* ParallelProcessor
    kycStats, amlStats, reports, schedules, daily, dashboard, refreshing, \* ComplianceReporting
    shards, routingTable, sweeps, stopped,                               \* ShardingManager
    pooling, connectionPool, made, indexes, indexCalls,
    queryCache, inFlight, metrics, optimized,                            \* DatabaseOptimizer
    hour, analyses, amlHistory, alerts, amlReports,                      \* AMLSystem
    requests, verifications, watchlist, kycUpdates,                      \* KYCSystem
    clock, cache, accessOrder, accessFrequency, evictionPolicy, reconfigured, \* CacheLayer
    today, monitorConfig, timersOn, counters, records, raised, profiles, currentProfile, \* PerformanceMonitor
    interval, calls, healthData, alertHistory,                           \* ValidatorHealthMonitor
    netRunning, sockets, netPeers, netSent, netPings, netReceived        \* NetworkManager

TheAccess == INSTANCE AccessControl
accessVars == <<time, roles, roleLists, users, sessions, accessRequests>>

ThePermissions == INSTANCE PermissionManager
pmVars == <<ms, rolePermissions, pmUsers, accessLog>>

TheRBAC == INSTANCE RBACManager
rbacVars == <<minute, identities, permissionCache, requestCounts, served>>

TheProcessor == INSTANCE ParallelProcessor
processorVars == <<tasks, queue, pool, workerRecords, attempts, retryTimers>>

TheReporting == INSTANCE ComplianceReporting
complianceVars == <<kycStats, amlStats, reports, schedules, daily, dashboard, refreshing>>

TheShards == INSTANCE ShardingManager
shardVars == <<shards, routingTable, sweeps, stopped>>

TheDatabase == INSTANCE DatabaseOptimizer
dbVars == <<pooling, connectionPool, made, indexes, indexCalls, queryCache, inFlight, metrics, optimized>>

TheAML == INSTANCE AMLSystem WITH Txs <- AMLTransactions, HistoryLimit <- AnalysesKept, MaxReports <- MaxAMLReports
amlVars == <<hour, analyses, amlHistory, alerts, amlReports>>

TheKYC == INSTANCE KYCSystem WITH MaxUpdates <- MaxKYCUpdates
kycVars == <<requests, verifications, watchlist, kycUpdates>>

TheCache == INSTANCE CacheLayer
cacheVars == <<clock, cache, accessOrder, accessFrequency, evictionPolicy, reconfigured>>

TheMonitor == INSTANCE PerformanceMonitor
monitorVars == <<today, monitorConfig, timersOn, counters, records, raised, profiles, currentProfile>>

TheHealth == INSTANCE ValidatorHealthMonitor
healthVars == <<interval, calls, healthData, alertHistory>>

TheNetwork == INSTANCE NetworkManager
netVars == <<netRunning, sockets, netPeers, netSent, netPings, netReceived>>

-----------------------------------------------------------------------------
\* What a user may do follows from the roles given, in every copy of it, and a
\* user is locked by the failed attempts alone.
AuthorityKept ==
    /\ part = "access" => TheAccess!PermissionsMatchRoles /\ TheAccess!LockedByAttempts
    /\ part = "permissions" => ThePermissions!AuthorityIsGranted
    /\ part = "rbac" => TheRBAC!CacheFollowsRoles
=============================================================================
