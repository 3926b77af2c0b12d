-------------------------- MODULE PerformanceMonitor --------------------------
(***************************************************************************)
(* core/blockchain/PerformanceMonitor.ts: counters, the records taken of     *)
(* them, the alerts raised from the latest record and the profiles.  Of the   *)
(* seven thresholds the model keeps one of a rate, one of a ratio, one of a   *)
(* counter and one of what the process reports (CPU).  The timers a caller    *)
(* may start and end touch nothing else and are left out.                     *)
(***************************************************************************)
EXTENDS Integers, Sequences, Maps

CONSTANTS
    CounterNames,          \* of transactions, requests, errors, queueSize
    RateLimit, QueueLimit, \* thresholds of transactionsPerSecond and queueSize
    Retention,             \* retentionPeriod, in the model's hours
    MaxHour,               \* bound: hours that pass
    MaxCount,              \* bound: value of a counter
    MaxAlertsKept,         \* bound: alerts
    MaxRecords,            \* bound: records
    MaxProfiles, MaxSamples \* bounds: profiles, samples of a profile

VARIABLES
    today,          \* hours
    monitorConfig,  \* [enabled, enableAlerts, enableProfiling]
    timersOn,       \* which of the two intervals run
    counters,
    records,        \* metrics: sequence of [over, at]
    raised,         \* alerts: sequence of [metric, at, resolved]
    profiles,       \* sequence of [samples, summary, ended]
    currentProfile  \* its number, or 0

monitorVars == <<today, monitorConfig, timersOn, counters, records, raised, profiles, currentProfile>>

Counter(name) == Get(counters, name, 0)

\* startMonitoring
Started(config) == {"metrics"} \cup (IF config.enableAlerts THEN {"alerts"} ELSE {})

Init ==
    /\ today = 0 /\ counters = Empty
    /\ monitorConfig = [enabled |-> TRUE, enableAlerts |-> TRUE, enableProfiling |-> TRUE]
    /\ timersOn = Started(monitorConfig)
    /\ records = <<>> /\ raised = <<>> /\ profiles = <<>> /\ currentProfile = 0

\* The rates: all that was ever counted over one interval, and all the errors
\* over all the requests or over one.
Exceeded(busy) ==
    {m \in {"transactionsPerSecond", "errorRate", "queueSize", "cpuUsage"} :
        CASE m = "transactionsPerSecond" -> Counter("transactions") > RateLimit
          [] m = "errorRate" -> Counter("errors") * 20 > Get(counters, "requests", 1)
          [] m = "queueSize" -> Counter("queueSize") > QueueLimit
          [] m = "cpuUsage" -> busy}

Recent(s) == Kept(s, {i \in DOMAIN s : s[i].at > today - Retention})

CollectMetrics(busy) ==
    /\ "metrics" \in timersOn /\ Len(records) < MaxRecords
    /\ records' = Append(Recent(records), [over |-> Exceeded(busy), at |-> today])
    /\ UNCHANGED <<today, monitorConfig, timersOn, counters, raised, profiles, currentProfile>>

\* checkAlerts: an alert for each threshold the latest record exceeds, whether
\* or not the same alert is open and the same record raised it.
CheckAlerts ==
    /\ "alerts" \in timersOn /\ monitorConfig.enableAlerts
    /\ records # <<>> /\ Len(raised) < MaxAlertsKept
    /\ raised' = Recent(raised \o Listed({[metric |-> m, at |-> today, resolved |-> FALSE] : m \in records[Len(records)].over}))
    /\ UNCHANGED <<today, monitorConfig, timersOn, counters, records, profiles, currentProfile>>

ResolveAlert(i) ==
    /\ raised' = [raised EXCEPT ![i].resolved = TRUE]
    /\ UNCHANGED <<today, monitorConfig, timersOn, counters, records, profiles, currentProfile>>

\* incrementCounter and setCounter
Count(name) ==
    /\ \E v \in {Counter(name) + 1, 0} : v <= MaxCount /\ counters' = Put(counters, name, v)
    /\ UNCHANGED <<today, monitorConfig, timersOn, records, raised, profiles, currentProfile>>

-----------------------------------------------------------------------------
\* startProfiling: the profile before it is left unfinished.
StartProfiling ==
    /\ monitorConfig.enableProfiling /\ Len(profiles) < MaxProfiles
    /\ profiles' = Append(profiles, [samples |-> 0, summary |-> 0, ended |-> FALSE])
    /\ currentProfile' = Len(profiles) + 1
    /\ UNCHANGED <<today, monitorConfig, timersOn, counters, records, raised>>

\* recordSample: also into a profile that was stopped.
RecordSample ==
    /\ currentProfile # 0 /\ monitorConfig.enableProfiling
    /\ profiles[currentProfile].samples < MaxSamples
    /\ profiles' = [profiles EXCEPT ![currentProfile].samples = @ + 1]
    /\ UNCHANGED <<today, monitorConfig, timersOn, counters, records, raised, currentProfile>>

\* calculateProfileSummary, at the end stopProfiling notes.
Finished(p) == [p EXCEPT !.summary = p.samples, !.ended = TRUE]

StopProfiling(p) ==
    /\ profiles' = [profiles EXCEPT ![p] = Finished(@)]
    /\ UNCHANGED <<today, monitorConfig, timersOn, counters, records, raised, currentProfile>>

-----------------------------------------------------------------------------
\* updateConfig clears both intervals and starts afresh, also after stop.
UpdateConfig(config) ==
    /\ monitorConfig' = config
    /\ timersOn' = IF config.enabled THEN Started(config) ELSE {}
    /\ UNCHANGED <<today, counters, records, raised, profiles, currentProfile>>

\* stop ends the current profile, once more if it was ended.
StopMonitor ==
    /\ timersOn' = {}
    /\ profiles' = IF currentProfile = 0 THEN profiles ELSE [profiles EXCEPT ![currentProfile] = Finished(@)]
    /\ UNCHANGED <<today, monitorConfig, counters, records, raised, currentProfile>>

Reset ==
    /\ records' = <<>> /\ raised' = <<>> /\ profiles' = <<>> /\ currentProfile' = 0
    /\ counters' = Empty
    /\ UNCHANGED <<today, monitorConfig, timersOn>>

HourIsOver ==
    /\ today < MaxHour /\ today' = today + 1
    /\ UNCHANGED <<monitorConfig, timersOn, counters, records, raised, profiles, currentProfile>>

Next ==
    \/ \E busy \in BOOLEAN : CollectMetrics(busy)
    \/ CheckAlerts \/ \E i \in DOMAIN raised : ResolveAlert(i)
    \/ \E name \in CounterNames : Count(name)
    \/ StartProfiling \/ RecordSample \/ \E p \in DOMAIN profiles : StopProfiling(p)
    \/ \E e, a \in BOOLEAN : UpdateConfig([enabled |-> e, enableAlerts |-> a, enableProfiling |-> TRUE])
    \/ StopMonitor \/ Reset \/ HourIsOver

Spec == Init /\ [][Next]_monitorVars

-----------------------------------------------------------------------------
TypeOK ==
    /\ today \in 0..MaxHour /\ timersOn \subseteq {"metrics", "alerts"}
    /\ monitorConfig \in [enabled : BOOLEAN, enableAlerts : BOOLEAN, enableProfiling : BOOLEAN]
    /\ IsMap(counters, CounterNames, 0..MaxCount)
    /\ \A i \in DOMAIN records : records[i].at \in 0..today
    /\ \A i \in DOMAIN raised : raised[i].at \in 0..today /\ raised[i].resolved \in BOOLEAN
    /\ currentProfile \in 0..Len(profiles)

\* No alert is looked for unless alerts are configured and records are being
\* taken: an alert is never raised for ever from a record nobody renews.
AlertsWatchRecords ==
    "alerts" \in timersOn => "metrics" \in timersOn /\ monitorConfig.enabled /\ monitorConfig.enableAlerts

\* Samples go to the newest profile alone, and a profile's summary is of the
\* samples it had when it was ended: later ones are in the profile and not in it.
SummaryIsOfSamples ==
    /\ currentProfile = Len(profiles)
    /\ \A p \in DOMAIN profiles : profiles[p].summary <= profiles[p].samples /\ (profiles[p].summary > 0 => profiles[p].ended)
=============================================================================
