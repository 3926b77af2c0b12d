------------------------------ MODULE AMLSystem ------------------------------
(***************************************************************************)
(* core/compliance/AMLSystem.ts: what the monitor keeps of the transactions  *)
(* it analyses.  A transaction is a record [hash, from, high, split, round,  *)
(* odd]: above maxTransactionAmount, of the decimals structuring looks for,   *)
(* a multiple of 100, at an unusual hour.  The configuration is the          *)
(* constructor's default.  The model's horizon is one day.                   *)
(***************************************************************************)
EXTENDS Integers, Sequences, FiniteSets, Maps

CONSTANTS
    Txs,
    FrequencyThreshold, \* threshold of the high frequency pattern: 50 in the code
    MaxFrequency,       \* maxTransactionFrequency: 100 in the code
    HistoryLimit,       \* 1000 in the code
    MaxHours,           \* bound: hours that pass
    MaxAnalyses,        \* bound: analyses kept
    MaxAlerts,          \* bound: alerts raised
    MaxReports          \* bound: reports

VARIABLES
    hour,
    analyses,   \* the stored analyses in their order, under ids nobody is told
    amlHistory, \* transactionHistory: user -> sequence of [tx, at]
    alerts,     \* sequence of [tx, status]
    amlReports  \* [alerts, resolved, blocked]: the alerts by reference, the counts as they were

amlVars == <<hour, analyses, amlHistory, alerts, amlReports>>

Users == {t.from : t \in Txs}
AlertStatuses == {"OPEN", "INVESTIGATING", "RESOLVED", "FALSE_POSITIVE"}

Init ==
    /\ hour = 0
    /\ analyses = <<>> /\ alerts = <<>> /\ amlReports = {}
    /\ amlHistory = Empty

History(u) == Get(amlHistory, u, <<>>)
LastHour(u) == {i \in DOMAIN History(u) : History(u)[i].at = hour}

\* performBasicChecks and detectSuspiciousPatterns: what each of them finds,
\* with its weight.
Weighs(found, weight) == IF found THEN weight ELSE 0

RiskFactors(t) ==
    Weighs(t.high, 30) + Weighs(Len(History(t.from)) > MaxFrequency, 25) + Weighs(t.round, 15) + Weighs(t.odd, 10)

SuspiciousPatterns(t) ==
    {p \in {"STRUCTURING", "ROUND_AMOUNT", "HIGH_FREQUENCY", "UNUSUAL_HOURS"} :
        CASE p = "STRUCTURING" -> t.split
          [] p = "ROUND_AMOUNT" -> t.round
          [] p = "HIGH_FREQUENCY" -> Cardinality(LastHour(t.from)) >= FrequencyThreshold
          [] p = "UNUSUAL_HOURS" -> t.odd}

\* Twice the result of calculateRiskScore: a pattern counts once as a risk
\* factor and once more as a pattern, and no factor at all already gives 50.
TwiceRiskScore(t) ==
    LET found == SuspiciousPatterns(t)
        patterns == Weighs("STRUCTURING" \in found, 20) + Weighs("ROUND_AMOUNT" \in found, 15)
                      + Weighs("HIGH_FREQUENCY" \in found, 30) + Weighs("UNUSUAL_HOURS" \in found, 15)
    IN  Min({200, 100 + RiskFactors(t) + 2 * patterns})

RiskLevel(twice) ==
    CASE twice < 60 -> "LOW" [] twice \in 60..119 -> "MEDIUM"
      [] twice \in 120..159 -> "HIGH" [] twice >= 160 -> "CRITICAL"

\* The alert of a pattern of severity HIGH or CRITICAL: high frequency alone.
PatternAlerts(t) ==
    IF "HIGH_FREQUENCY" \in SuspiciousPatterns(t)
    THEN <<[tx |-> t, status |-> "OPEN"]>> ELSE <<>>

\* makeAMLDecision
Analysis(t) ==
    LET level == RiskLevel(TwiceRiskScore(t))
        auto == level = "LOW" \/ (level = "MEDIUM" /\ SuspiciousPatterns(t) = {})
    IN  [tx |-> t, level |-> level, blocked |-> level = "CRITICAL", autoApproved |-> auto,
         requiresManualReview |-> ~auto]

\* updateTransactionHistory
Remember(t) ==
    amlHistory' = Put(amlHistory, t.from,
        LET longer == Append(History(t.from), [tx |-> t, at |-> hour])
        IN  SubSeq(longer, Max({1, Len(longer) - HistoryLimit + 1}), Len(longer)))

\* analyzeTransaction.  For a critical score makeAMLDecision raises a second
\* alert with a `transaction' it was not given; the error is caught, and
\* nothing of the analysis is kept but the alerts of its patterns.
AnalyzeTransaction(t) ==
    /\ Len(analyses) < MaxAnalyses /\ Len(alerts \o PatternAlerts(t)) <= MaxAlerts
    /\ alerts' = alerts \o PatternAlerts(t)
    /\ IF Analysis(t).level = "CRITICAL" THEN UNCHANGED <<analyses, amlHistory>>
       ELSE analyses' = Append(analyses, Analysis(t)) /\ Remember(t)
    /\ UNCHANGED <<hour, amlReports>>

\* updateAlertStatus: any status may follow any other, but none is OPEN again.
UpdateAlertStatus(i, status) ==
    /\ alerts' = [alerts EXCEPT ![i].status = status]
    /\ UNCHANGED <<hour, analyses, amlHistory, amlReports>>

\* generateReport: summary, statistics and the alerts themselves.  The
\* scheduled reports are never due: their intervals are looked up as DAILY
\* and WEEKLY and filed as daily and weekly.
GenerateReport ==
    /\ Cardinality(amlReports) < MaxReports
    /\ amlReports' = amlReports \cup
        {[alerts |-> DOMAIN alerts,
          resolved |-> Cardinality({i \in DOMAIN alerts : alerts[i].status = "RESOLVED"}),
          blocked |-> Cardinality({i \in DOMAIN analyses : analyses[i].blocked})]}
    /\ UNCHANGED <<hour, analyses, amlHistory, alerts>>

HourPasses ==
    /\ hour < MaxHours /\ hour' = hour + 1
    /\ UNCHANGED <<analyses, amlHistory, alerts, amlReports>>

Next ==
    \/ \E t \in Txs : AnalyzeTransaction(t)
    \/ \E i \in DOMAIN alerts, s \in AlertStatuses \ {"OPEN"} : UpdateAlertStatus(i, s)
    \/ GenerateReport
    \/ HourPasses

Spec == Init /\ [][Next]_amlVars

-----------------------------------------------------------------------------
TypeOK ==
    /\ hour \in 0..MaxHours
    /\ \A i \in DOMAIN analyses : analyses[i].tx \in Txs /\ analyses[i].requiresManualReview \in BOOLEAN
    /\ IsMap(amlHistory, Users, Seq([tx : Txs, at : 0..MaxHours]))
    /\ alerts \in Seq([tx : Txs, status : AlertStatuses])

\* A user's history is the tail of the analyses kept of his transactions: the
\* two are updated together or, when an analysis fails, not at all.
HistoryIsAnalysed ==
    \A u \in Users :
        LET kept == Kept(analyses, {i \in DOMAIN analyses : analyses[i].tx.from = u})
            n == Len(History(u))
        IN  n <= Len(kept) /\ \A i \in 1..n : History(u)[i].tx = kept[Len(kept) - n + i].tx

\* The frequency pattern closes an account for the hour: from the threshold on
\* every transaction is critical and none enters the history it is counted in.
FrequencyCloses == \A u \in Users : Cardinality(LastHour(u)) <= FrequencyThreshold

\* No transaction is on alert for a pattern and kept as approved, and what a
\* report says was blocked is nothing, because nothing blocked is kept.
NothingBlockedKept ==
    /\ \A i \in DOMAIN analyses : ~analyses[i].blocked /\ (analyses[i].autoApproved => analyses[i].level = "MEDIUM")
    /\ \A r \in amlReports : r.blocked = 0
=============================================================================
