-------------------------- MODULE ComplianceReporting --------------------------
(***************************************************************************)
(* core/compliance/ComplianceReporting.ts and RegulatoryDashboard.ts: what is *)
(* reported and shown of the requests and the alerts that KYCSystem and        *)
(* AMLSystem keep, of which the statistics alone are here.  AuditTrailSystem,   *)
(* the fourth source, is external and finds no fault; nobody is inactive in    *)
(* AccessControl.  A score that is not a number (NaN) is NoNumber.             *)
(***************************************************************************)
EXTENDS Integers, Sequences, Maps

CONSTANTS
    ScheduleIds,   \* bound: the ids of scheduled reports
    Statuses,      \* those a report is given
    MaxFiled,      \* bound: requests and alerts
    MaxReports     \* bound: reports there are when more are made

VARIABLES
    kycStats,     \* getKYCStats: [total, verified, rejected]
    amlStats,     \* getAMLStats: [total, resolved]
    reports,      \* sequence of [type, score, violations, status, approved]
    schedules,    \* scheduled reports: those whose interval runs
    daily,        \* whether the interval of startScheduledReporting runs
    dashboard,    \* dashboardData: [kyc, aml, score]
    refreshing    \* whether the dashboard's interval runs

complianceVars == <<kycStats, amlStats, reports, schedules, daily, dashboard, refreshing>>

NoNumber == -1
Percent(part, whole) == IF whole = 0 THEN NoNumber ELSE (part * 100) \div whole

\* The mean of scores is a number if each of them is.
Mean(scores) ==
    IF \E i \in DOMAIN scores : scores[i] = NoNumber THEN NoNumber ELSE Sum(scores) \div Len(scores)

\* getAMLStats has no totalTransactions: what is computed from it is no number.
TransactionScore == NoNumber

-----------------------------------------------------------------------------
\* generateKYCSummary, generateAMLSummary, generateAuditSummary and
\* generateComprehensiveSummary.
Score(type) ==
    IF type = "KYC" THEN Percent(kycStats.verified, kycStats.total)
    ELSE IF type = "AML" THEN TransactionScore
    ELSE IF type = "AUDIT" THEN 100
    ELSE Mean(<<Percent(kycStats.verified, kycStats.total), TransactionScore, 100>>)

ViolationsCount(type) ==
    (IF type \in {"KYC", "COMPREHENSIVE"} THEN kycStats.rejected ELSE 0)
    + (IF type \in {"AML", "COMPREHENSIVE"} THEN amlStats.total ELSE 0)

\* A report of one system is COMPLIANT whatever its score.
OverallStatus(type, score) ==
    IF type # "COMPREHENSIVE" \/ score >= 80 THEN "COMPLIANT"
    ELSE IF score >= 60 THEN "REQUIRES_ATTENTION" ELSE "NON_COMPLIANT"

Report(type) ==
    [type |-> type, score |-> Score(type), violations |-> ViolationsCount(type),
     overallStatus |-> OverallStatus(type, Score(type)), status |-> "DRAFT", approved |-> FALSE]

\* calculateKYCScore and its like, and calculateComplianceScore: here no
\* requests are a full score, and `undefined === 0' is not so.
DashboardScore(kyc) ==
    Mean(<<IF kyc.total = 0 THEN 100 ELSE Percent(kyc.verified, kyc.total), TransactionScore, 100, 100>>)
DashboardStatus(score) ==
    IF score >= 90 THEN "EXCELLENT" ELSE IF score >= 75 THEN "GOOD" ELSE IF score >= 60 THEN "NEEDS_IMPROVEMENT" ELSE "POOR"

\* collectInitialData and refreshDashboard: all of it.
Collected == [kyc |-> kycStats, aml |-> amlStats, score |-> DashboardScore(kycStats)]

Init ==
    /\ kycStats = [total |-> 0, verified |-> 0, rejected |-> 0]
    /\ amlStats = [total |-> 0, resolved |-> 0]
    /\ reports = <<>> /\ schedules = {} /\ daily = TRUE
    /\ dashboard = Collected
    /\ refreshing = TRUE

-----------------------------------------------------------------------------
\* What the dashboard is told: kycSubmitted, kycCompleted, kycFailed and
\* alertCreated (setupEventListeners).  The score is not recomputed.
KYCSubmitted ==
    /\ kycStats.total < MaxFiled
    /\ kycStats' = [kycStats EXCEPT !.total = @ + 1]
    /\ dashboard' = [dashboard EXCEPT !.kyc = kycStats']
    /\ UNCHANGED <<amlStats, reports, schedules, daily, refreshing>>

Decide(outcome) ==
    /\ kycStats.verified + kycStats.rejected < kycStats.total
    /\ kycStats' = [kycStats EXCEPT ![outcome] = @ + 1]
    /\ UNCHANGED <<amlStats, reports, schedules, daily, refreshing>>

KYCFinished(outcome) == Decide(outcome) /\ dashboard' = [dashboard EXCEPT !.kyc = kycStats']

AlertCreated ==
    /\ amlStats.total < MaxFiled
    /\ amlStats' = [amlStats EXCEPT !.total = @ + 1]
    /\ dashboard' = [dashboard EXCEPT !.aml = amlStats']
    /\ UNCHANGED <<kycStats, reports, schedules, daily, refreshing>>

\* What it is not told: kycUpdated and alertUpdated.
KYCUpdated(outcome) == Decide(outcome) /\ UNCHANGED dashboard

AlertResolved ==
    /\ amlStats.resolved < amlStats.total
    /\ amlStats' = [amlStats EXCEPT !.resolved = @ + 1]
    /\ UNCHANGED <<kycStats, reports, schedules, daily, dashboard, refreshing>>

RefreshDashboard ==
    /\ refreshing /\ dashboard' = Collected
    /\ UNCHANGED <<kycStats, amlStats, reports, schedules, daily, refreshing>>

\* updateConfig and stop of the dashboard.
SwitchRefreshing ==
    /\ refreshing' = ~refreshing
    /\ UNCHANGED <<kycStats, amlStats, reports, schedules, daily, dashboard>>

-----------------------------------------------------------------------------
\* generateKYCReport and its like.  Every report is of all there ever was,
\* whatever its period.  A comprehensive one is announced, and the score shown is
\* computed then, of the data shown.
File(types) ==
    /\ Len(reports) < MaxReports
    /\ reports' = reports \o [i \in DOMAIN types |-> Report(types[i])]
    /\ dashboard' = IF types = <<"COMPREHENSIVE">>
                    THEN [dashboard EXCEPT !.score = DashboardScore(dashboard.kyc)] ELSE dashboard
    /\ UNCHANGED <<kycStats, amlStats, schedules, daily, refreshing>>

GenerateReport(type) == File(<<type>>)

\* The interval of startScheduledReporting, and one of scheduleReport, which may
\* be of any type and comes every day whatever the schedule says.
DailyReports == daily /\ File(<<"KYC", "AML", "AUDIT">>)
ScheduledReport(type) == schedules # {} /\ File(<<type>>)

\* updateReportStatus: from any status to any, with or without an approver.
UpdateReportStatus(i, status, by) ==
    /\ reports' = [reports EXCEPT ![i].status = status, ![i].approved = @ \/ by]
    /\ UNCHANGED <<kycStats, amlStats, schedules, daily, dashboard, refreshing>>

ScheduleReport(s) ==
    /\ schedules' = schedules \cup {s}
    /\ UNCHANGED <<kycStats, amlStats, reports, daily, dashboard, refreshing>>

CancelScheduledReport(s) ==
    /\ s \in schedules /\ schedules' = schedules \ {s}
    /\ UNCHANGED <<kycStats, amlStats, reports, daily, dashboard, refreshing>>

StopReporting ==
    /\ daily' = FALSE /\ schedules' = {}
    /\ UNCHANGED <<kycStats, amlStats, reports, dashboard, refreshing>>

Next ==
    \/ KYCSubmitted \/ AlertCreated \/ AlertResolved
    \/ \E outcome \in {"verified", "rejected"} : KYCFinished(outcome) \/ KYCUpdated(outcome)
    \/ RefreshDashboard \/ SwitchRefreshing
    \/ \E type \in {"COMPREHENSIVE", "KYC", "AML", "AUDIT"} : GenerateReport(type) \/ ScheduledReport(type)
    \/ DailyReports
    \/ \E i \in DOMAIN reports, s \in Statuses, by \in BOOLEAN :
        UpdateReportStatus(i, s, by)
    \/ \E s \in ScheduleIds : ScheduleReport(s) \/ CancelScheduledReport(s)
    \/ StopReporting

Spec == Init /\ [][Next]_complianceVars

-----------------------------------------------------------------------------
\* determineRiskLevel; the statistics' complianceScore, which is 0 of no reports.
DetermineRiskLevel(score) ==
    IF score >= 90 THEN "LOW" ELSE IF score >= 70 THEN "MEDIUM" ELSE IF score >= 50 THEN "HIGH" ELSE "CRITICAL"
OverallComplianceScore == IF reports = <<>> THEN 0 ELSE Mean([i \in DOMAIN reports |-> reports[i].score])

TypeOK ==
    /\ \A i \in DOMAIN reports : reports[i].score \in NoNumber..100 /\ reports[i].violations \in 0..(2 * MaxFiled)
    /\ schedules \subseteq ScheduleIds
    /\ daily \in BOOLEAN /\ refreshing \in BOOLEAN
    /\ dashboard.score \in NoNumber..100

\* The dashboard counts every request and every alert at once, refreshed or not,
\* and never shows a decision or a resolution there was not; those made by hand it
\* may be behind on, for good when it does not refresh.
DashboardCountsAll ==
    /\ dashboard.kyc.total = kycStats.total /\ dashboard.aml.total = amlStats.total
    /\ \A outcome \in {"verified", "rejected"} : dashboard.kyc[outcome] <= kycStats[outcome]
    /\ dashboard.aml.resolved <= amlStats.resolved

\* Nothing that takes the transactions in is ever a number: not the score of the
\* dashboard, whose status is POOR, nor that of a report on them, which makes
\* the comprehensive one NON_COMPLIANT and its risk CRITICAL, nor that of all reports together.
TransactionsUnscored ==
    /\ DashboardStatus(dashboard.score) = "POOR"
    /\ \A i \in DOMAIN reports : reports[i].type \in {"AML", "COMPREHENSIVE"} =>
        /\ reports[i].overallStatus = IF reports[i].type = "AML" THEN "COMPLIANT" ELSE "NON_COMPLIANT"
        /\ reports[i].type = "COMPREHENSIVE" => DetermineRiskLevel(reports[i].score) = "CRITICAL"
        /\ OverallComplianceScore = NoNumber

\* A report once approved remains so, whatever status it is given; what it says
\* is not touched.
ApprovalSticks ==
    [][\A i \in DOMAIN reports :
        /\ reports[i].approved => reports'[i].approved
        /\ reports'[i].score = reports[i].score /\ reports'[i].violations = reports[i].violations]_complianceVars
=============================================================================
