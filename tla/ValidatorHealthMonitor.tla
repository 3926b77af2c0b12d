------------------------- MODULE ValidatorHealthMonitor -------------------------
(***************************************************************************)
(* core/consensus/ValidatorHealthMonitor.ts: metrics of each validator, fed by  *)
(* recordSuccess, recordFailure and updateHealthMetrics, the alerts they raise at   *)
(* once, and the status a report computes of both.  The first call for an unknown    *)
(* validator only makes it perfect, a failure too.  Alerts are raised by a call, never *)
(* by the passing of time: a validator that falls silent keeps its status, and the      *)
(* periodic check only reports.  Rates are in ten-thousandths, rounded down; time is in  *)
(* monitoring intervals, of which alerts count for ten.                                *)
(***************************************************************************)
EXTENDS Integers, Maps

CONSTANTS
    Watched,       \* validators
    SlowTime,      \* thresholds.maxResponseTime
    MinReputation, \* thresholds.minReputation
    KeptTypes,     \* of the alerts, those a run keeps: the cap of 100 per validator is not reached
    MaxInterval,   \* bound: intervals
    MaxCalls       \* bound: calls that measure

VARIABLES
    interval,      \* the clock
    calls,         \* calls that measured so far
    healthData,    \* validator -> [response, rate, lastSeen, failures, reputation]
    alertHistory   \* validator -> {[type, severity, at, metrics]}

healthVars == <<interval, calls, healthData, alertHistory>>

Init == interval = 0 /\ calls = 0 /\ healthData = Empty /\ alertHistory = Empty

Perfect == [response |-> 0, rate |-> 10000, lastSeen |-> interval, failures |-> 0, reputation |-> 100]
Lower(a, b) == IF a < b THEN a ELSE b
Higher(a, b) == IF a > b THEN a ELSE b

\* calculateAverage: four fifths of the old value and one of the new, rounded.
Average(current, new) == IF current = 0 THEN new ELSE (8 * current + 2 * new + 5) \div 10

\* checkHealthAlerts: what these metrics raise.
Alerts(m) ==
    LET Alert(type, raised, severe, severity, otherwise) ==
            IF raised /\ type \in KeptTypes
            THEN {[type |-> type, severity |-> IF severe THEN severity ELSE otherwise, at |-> interval, metrics |-> m]}
            ELSE {}
        silent == interval - m.lastSeen
    IN  Alert("RESPONSE_TIME_HIGH", m.response > SlowTime, m.response > 2 * SlowTime, "ERROR", "WARNING")
        \cup Alert("SUCCESS_RATE_LOW", m.rate < 9500, m.rate < 7600, "CRITICAL", "ERROR")
        \cup Alert("CONSECUTIVE_FAILURES", m.failures >= 3, m.failures >= 6, "CRITICAL", "ERROR")
        \cup Alert("REPUTATION_LOW", m.reputation < MinReputation, 2 * m.reputation < MinReputation, "CRITICAL", "WARNING")
        \cup Alert("UPTIME_LOW", silent > 3, silent > 6, "CRITICAL", "ERROR")

Measured(v, m) ==
    /\ calls < MaxCalls /\ calls' = calls + 1
    /\ healthData' = Put(healthData, v, m)
    /\ alertHistory' = IF Alerts(m) = {} THEN alertHistory
                       ELSE Put(alertHistory, v, Get(alertHistory, v, {}) \cup Alerts(m))
    /\ UNCHANGED interval

\* updateHealthMetrics, given a response time; lastSeen stays as it was.
UpdateHealthMetrics(v, response) ==
    Measured(v, [Get(healthData, v, Perfect) EXCEPT !.response = response])

\* initializeValidator: no alerts are looked for.
InitializeValidator(v) ==
    /\ v \notin DOMAIN healthData
    /\ healthData' = Put(healthData, v, Perfect)
    /\ UNCHANGED <<interval, calls, alertHistory>>

RecordSuccess(v, response) ==
    \/ InitializeValidator(v)
    \/ /\ v \in DOMAIN healthData
       /\ Measured(v, LET m == healthData[v] IN
              [m EXCEPT !.response = Average(@, response), !.rate = Lower(10000, (@ * 9) \div 10 + 1000),
                        !.lastSeen = interval, !.failures = 0, !.reputation = Lower(100, @ + 1)])

RecordFailure(v) ==
    \/ InitializeValidator(v)
    \/ /\ v \in DOMAIN healthData
       /\ Measured(v, [healthData[v] EXCEPT !.rate = (@ * 9) \div 10, !.lastSeen = interval,
                                            !.failures = @ + 1, !.reputation = Higher(0, @ - 5)])

\* generateHealthReport
Status(v) ==
    LET m == healthData[v]
        recent(severity) == \E a \in Get(alertHistory, v, {}) : interval - a.at < 10 /\ a.severity = severity
    IN  IF m.failures >= 5 \/ m.rate < 5000 \/ m.reputation < 20 THEN "FAILED"
        ELSE IF recent("CRITICAL") \/ m.failures >= 3 \/ m.rate < 8000 \/ m.reputation < 50 THEN "CRITICAL"
        ELSE IF recent("ERROR") \/ m.failures >= 1 \/ m.rate < 9500 \/ m.reputation < 80 THEN "WARNING"
        ELSE "HEALTHY"

\* clearOldAlerts(maxAge); a validator none of whose are recent has no entry.
ClearOldAlerts(maxAge) ==
    LET Recent(v) == {a \in alertHistory[v] : a.at > interval - maxAge}
    IN  /\ alertHistory' = [v \in {w \in DOMAIN alertHistory : Recent(w) # {}} |-> Recent(v)]
        /\ UNCHANGED <<interval, calls, healthData>>

RemoveWatched(v) ==
    /\ healthData' = Drop(healthData, {v}) /\ alertHistory' = Drop(alertHistory, {v})
    /\ UNCHANGED <<interval, calls>>

\* performHealthCheck runs too; it changes nothing.
IntervalPasses ==
    /\ interval < MaxInterval /\ interval' = interval + 1
    /\ UNCHANGED <<calls, healthData, alertHistory>>

Next ==
    \/ \E v \in Watched :
        \/ UpdateHealthMetrics(v, SlowTime + 1)
        \/ RecordSuccess(v, SlowTime) \/ RecordFailure(v) \/ RemoveWatched(v)
    \/ ClearOldAlerts(1) \/ IntervalPasses

Spec == Init /\ [][Next]_healthVars

-----------------------------------------------------------------------------
Metrics == [response : Nat, rate : 0..10000, lastSeen : 0..interval, failures : 0..MaxCalls, reputation : 0..100]

TypeOK ==
    /\ interval \in 0..MaxInterval /\ calls \in 0..MaxCalls
    /\ IsMap(healthData, Watched, Metrics)
    /\ DOMAIN alertHistory \subseteq Watched
    /\ \A v \in DOMAIN alertHistory : alertHistory[v] # {} /\ \A a \in alertHistory[v] :
          /\ a.type \in KeptTypes /\ a.severity \in {"WARNING", "ERROR", "CRITICAL"}
          /\ a.at \in 0..interval /\ a.metrics \in Metrics

\* A validator seen in this interval whose run of failures is long enough, or
\* whose rate is too low, has an alert of this interval that says so of at least
\* that many failures and at most that rate: no sequence of successes, failures
\* and clean-ups hides it.  And one that is HEALTHY has no severe alert of the
\* last ten intervals, whatever its metrics have become since.
FailuresAreAlerted ==
    \A v \in DOMAIN healthData :
        LET m == healthData[v]
            told == {a \in Get(alertHistory, v, {}) : a.at = interval}
        IN  /\ m.lastSeen = interval /\ m.failures >= 3 =>
                  \E a \in told : a.type = "CONSECUTIVE_FAILURES" /\ a.metrics.failures >= m.failures
            /\ m.lastSeen = interval /\ m.rate < 9500 =>
                  \E a \in told : a.type = "SUCCESS_RATE_LOW" /\ a.metrics.rate <= m.rate
            /\ Status(v) = "HEALTHY" =>
                  \A a \in Get(alertHistory, v, {}) : interval - a.at < 10 => a.severity = "WARNING"
=============================================================================
