------------------------------ MODULE KYCSystem ------------------------------
(***************************************************************************)
(* core/compliance/KYCSystem.ts under its default configuration.  A request   *)
(* goes through its pipeline in the background while its record, which        *)
(* updateKYCRequest can overwrite in any field, is read and written there.    *)
(* A document that is out of date or of a type not approved is one the        *)
(* submission lacks, and `complete' says that none of the required ones is     *)
(* missing or has been refused so far.                                        *)
(***************************************************************************)
EXTENDS Integers, Sequences, Maps

CONSTANTS
    Applicants,  \* users
    Profiles,    \* [type, weight, docs]: the request type, the weight of its risk factors, its documents
    MaxRequests, \* bound: requests
    MaxUpdates   \* bound: calls of updateKYCRequest

VARIABLES
    requests,      \* sequence of records, in the order of submission
    verifications, \* request -> [status, risk]
    watchlist,     \* the users whose numbers are on it
    kycUpdates     \* calls of updateKYCRequest so far

kycVars == <<requests, verifications, watchlist, kycUpdates>>

Outcomes == {"VERIFIED", "REJECTED", "REVIEW_REQUIRED"}

RequiredDocuments(type) ==
    CASE type = "INDIVIDUAL" -> {"PASSPORT", "DRIVERS_LICENSE", "PROOF_OF_ADDRESS"}
      [] type = "BUSINESS" -> {"BUSINESS_LICENSE", "TAX_RETURN", "PROOF_OF_ADDRESS"}
      [] type = "HIGH_VALUE" -> {"PASSPORT", "DRIVERS_LICENSE", "BANK_STATEMENT", "TAX_RETURN", "PROOF_OF_ADDRESS"}

\* performRiskAssessment, doubled: the factors of the person and the place
\* (weight), 25 for a high value request and 10 for one assessed within a
\* minute of its submission, as all are that bring fewer than sixty documents.
TwiceRiskScore(q) ==
    Min({200, 100 + q.weight + 10 + (IF q.type = "HIGH_VALUE" THEN 25 ELSE 0)})

RiskLevel(twice) ==
    CASE twice < 60 -> "LOW" [] twice \in 60..119 -> "MEDIUM"
      [] twice \in 120..159 -> "HIGH" [] twice >= 160 -> "CRITICAL"

Init ==
    /\ requests = <<>>
    /\ verifications = Empty
    /\ watchlist = {}
    /\ kycUpdates = 0

-----------------------------------------------------------------------------
\* submitKYCRequest, up to the first pause of processKYCRequest; requests of
\* one millisecond carry one time.
SubmitKYCRequest(u, p) ==
    /\ Len(requests) < MaxRequests
    /\ \E pause \in {0, 1} :
        requests' = Append(requests,
            [user |-> u, type |-> p.type, weight |-> p.weight, status |-> "IN_PROGRESS",
             submittedAt |-> pause + (IF requests = <<>> THEN 0 ELSE requests[Len(requests)].submittedAt),
             documents |-> p.docs, complete |-> RequiredDocuments(p.type) \subseteq ToSet(p.docs), biometricData |-> FALSE,
             backgroundCheck |-> FALSE, riskScore |-> 0, stage |-> "documents", byHand |-> FALSE])
    /\ UNCHANGED <<verifications, watchlist, kycUpdates>>

\* makeVerificationDecision
Decision(q) ==
    LET risk == RiskLevel(TwiceRiskScore(q))
    IN  [risk |-> risk,
         status |-> IF ~q.complete \/ risk = "CRITICAL" THEN "REJECTED"
                    ELSE IF risk = "HIGH" THEN "REVIEW_REQUIRED" ELSE "VERIFIED"]

\* processKYCRequest from the background check on: the decision overwrites
\* whatever status the record has got meanwhile.
Conclude(i, q) ==
    IF q.backgroundCheck /\ q.user \in watchlist
    THEN /\ requests' = [requests EXCEPT ![i] = [q EXCEPT !.status = "REJECTED", !.stage = "done", !.byHand = FALSE]]
         /\ UNCHANGED verifications
    ELSE /\ verifications' = Put(verifications, i, Decision(q))
         /\ requests' = [requests EXCEPT ![i] =
                [q EXCEPT !.status = Decision(q).status, !.riskScore = TwiceRiskScore(q),
                          !.stage = "done", !.byHand = FALSE]]

\* What follows the last document: the biometrics, if any have been filed by now.
AfterDocuments(i, q) ==
    IF q.biometricData
    THEN requests' = [requests EXCEPT ![i] = [q EXCEPT !.stage = "biometrics"]] /\ UNCHANGED verifications
    ELSE Conclude(i, q)

\* verifyDocuments: a second for each, and one in twenty is refused.
VerifyDocument(i) ==
    LET q == requests[i]
    IN  /\ q.stage = "documents"
        /\ IF q.documents = <<>> THEN AfterDocuments(i, q)
           ELSE \E valid \in BOOLEAN :
                LET checked == [q EXCEPT !.documents = Tail(@),
                                         !.complete = @ /\ (valid \/ Head(q.documents) \notin RequiredDocuments(q.type))]
                IN  IF checked.documents = <<>> THEN AfterDocuments(i, checked)
                    ELSE requests' = [requests EXCEPT ![i] = checked] /\ UNCHANGED verifications
        /\ UNCHANGED <<watchlist, kycUpdates>>

\* verifyBiometrics: half a second, and one in fifty throws.
VerifyBiometrics(i) ==
    LET q == requests[i]
    IN  /\ q.stage = "biometrics"
        /\ \/ Conclude(i, q)
           \/ /\ requests' = [requests EXCEPT ![i] = [q EXCEPT !.status = "REJECTED", !.stage = "done", !.byHand = FALSE]]
              /\ UNCHANGED verifications
        /\ UNCHANGED <<watchlist, kycUpdates>>

\* updateKYCRequest, the only way biometrics or a background check get in.
UpdateKYCRequest(i) ==
    /\ kycUpdates < MaxUpdates /\ kycUpdates' = kycUpdates + 1
    /\ \/ \E s \in Outcomes : requests' = [requests EXCEPT ![i].status = s, ![i].byHand = TRUE]
       \/ requests' = [requests EXCEPT ![i].biometricData = TRUE]
       \/ requests' = [requests EXCEPT ![i].backgroundCheck = TRUE]
    /\ UNCHANGED <<verifications, watchlist>>

\* addToWatchlist and removeFromWatchlist
ChangeWatchlist(u) ==
    /\ watchlist' = IF u \in watchlist THEN watchlist \ {u} ELSE watchlist \cup {u}
    /\ UNCHANGED <<requests, verifications, kycUpdates>>

Next ==
    \/ \E u \in Applicants, p \in Profiles : SubmitKYCRequest(u, p)
    \/ \E i \in DOMAIN requests : VerifyDocument(i) \/ VerifyBiometrics(i) \/ UpdateKYCRequest(i)
    \/ \E u \in Applicants : ChangeWatchlist(u)

Spec == Init /\ [][Next]_kycVars

-----------------------------------------------------------------------------
TypeOK ==
    /\ \A i \in DOMAIN requests :
        /\ requests[i].user \in Applicants
        /\ requests[i].status \in Outcomes \cup {"IN_PROGRESS"}
        /\ requests[i].stage \in {"documents", "biometrics", "done"}
    /\ IsMap(verifications, DOMAIN requests, [status : Outcomes, risk : {"LOW", "MEDIUM", "HIGH", "CRITICAL"}])
    /\ watchlist \subseteq Applicants
    /\ kycUpdates \in 0..MaxUpdates

\* isUserVerified, getUserRiskLevel and checkTransactionCompliance all go by
\* the user's request of the latest time, the first submitted of those.
Latest(u) ==
    LET his == {i \in DOMAIN requests : requests[i].user = u}
        last == Max({requests[i].submittedAt : i \in his})
    IN  requests[Min({i \in his : requests[i].submittedAt = last})]

IsUserVerified(u) ==
    (\E i \in DOMAIN requests : requests[i].user = u) /\ Latest(u).status = "VERIFIED"

\* A finished request has the status of its verification, or is rejected
\* without one, until somebody overwrites it: what is written while it is in
\* the pipeline does not survive.
PipelineDecides ==
    \A i \in DOMAIN requests :
        requests[i].stage = "done" /\ ~requests[i].byHand =>
            requests[i].status = IF i \in DOMAIN verifications THEN verifications[i].status ELSE "REJECTED"

\* The pipeline verifies no high value request and nobody of high risk, so
\* the transaction limit for verified users of high risk applies to nobody
\* who was not verified by hand.
LimitAppliesByHandOnly ==
    \A u \in Applicants :
        IsUserVerified(u) /\ ~Latest(u).byHand =>
            Latest(u).type # "HIGH_VALUE" /\ RiskLevel(Latest(u).riskScore) \in {"LOW", "MEDIUM"}
=============================================================================
