------------------------- MODULE SecureFinancialLedger -------------------------
(***************************************************************************)
(* core/financial/SecureFinancialLedger.ts over core/blockchain/Blockchain.ts *)
(* with the blocks of SimpleBlock.ts, which the other domain ledgers and the  *)
(* web server write to as well.  A transaction is scored for fraud and        *)
(* compliance, held for review or added to the chain and settled, each with   *)
(* a record in the audit trail that may fail.  It enters the maps only at the *)
(* end, so one whose record fails is in neither; nothing releases a held one. *)
(* A reversal is a transaction of the negative amount, which the chain        *)
(* refuses.  The reversal of transaction n is called -n.                      *)
(*                                                                         *)
(* The chain: mineBlock compares the first four characters of a hash with a  *)
(* target of 64 characters, so its loop never ends: mining takes the one      *)
(* thread of the process for good, the chain stays the genesis block and what *)
(* was added stays pending, in memory.                                     *)
(***************************************************************************)
EXTENDS Integers, Sequences, FiniteSets, Maps

CONSTANTS
    MaxPending,            \* bound: transactions pending when one mines
    FinancialTransactions, \* [amount, type, branch, unusualLocation, atNight, authorized]
    MaxFinancial           \* bound: transactions submitted

VARIABLES
    genesis,             \* "none", "stored" or "loaded": where the genesis block is
    pendingTransactions, \* ids, and the reward of a mining
    mining,              \* the process is in mineBlock's loop
    submitted,           \* how many were
    finTxs,              \* id -> [tx, status, fraudRisk, method, at]: at = the record awaited, or "maps"
    finAudit             \* the trail, which outlives the process: {<<event, id>>}

finVars == <<genesis, pendingTransactions, mining, submitted, finTxs, finAudit>>

-----------------------------------------------------------------------------
\* The chain.
Reward == 0  \* the id of any reward transaction

BlockchainInit == genesis = "none" /\ pendingTransactions = <<>> /\ mining = FALSE

\* initializeChain, begun by the constructor and awaited by nobody: the stored
\* chain or a new one.
InitializeChain ==
    /\ ~mining /\ genesis # "loaded"
    /\ genesis' = "loaded"
    /\ UNCHANGED <<pendingTransactions, mining>>

\* isValidTransaction, of the amount: the rest of a transaction is always set.
IsValidTransaction(amount) == amount > 0

\* addTransaction: the same for a chain that has no block yet.
AddTransaction(id) == pendingTransactions' = Append(pendingTransactions, id)

\* minePendingTransactions: the reward is pending before anything can fail; with
\* no block yet there is no latest hash, otherwise the loop begins.
MinePendingTransactions ==
    /\ ~mining /\ Len(pendingTransactions) < MaxPending
    /\ AddTransaction(Reward)
    /\ mining' = (genesis = "loaded")
    /\ UNCHANGED genesis

\* The process is stopped and started again.
RestartChain ==
    /\ genesis' = IF genesis = "none" THEN "none" ELSE "stored"
    /\ pendingTransactions' = <<>> /\ mining' = FALSE

ChainTypeOK(ids) ==
    /\ genesis \in {"none", "stored", "loaded"}
    /\ pendingTransactions \in Seq(ids \cup {Reward})
    /\ mining \in BOOLEAN

-----------------------------------------------------------------------------
\* The ledger.
Init == BlockchainInit /\ submitted = 0 /\ finTxs = Empty /\ finAudit = {}

If(condition, score) == IF condition THEN score ELSE 0

\* The fraud rules; two of the five never fire, so CRITICAL (80) is out of reach.
FraudScore(tx) ==
    If(tx.amount > 50000, 30) + If(tx.unusualLocation, 25) + If(tx.atNight /\ tx.amount > 10000, 20)

FraudRisk(tx) ==
    LET score == FraudScore(tx)
    IN  CASE score >= 80 -> "CRITICAL"
          [] score \in 60..79 -> "HIGH"
          [] score \in 40..59 -> "MEDIUM"
          [] OTHER -> "LOW"

\* performComplianceChecks: two suspicious patterns or the daily limit.
NeedsReview(tx) ==
    \/ tx.amount > 50000
    \/ If(tx.amount > 10000, 25) + If(tx.branch /\ tx.amount > 5000, 25)
         + If(tx.type = "CROSS_BORDER" /\ tx.amount > 25000, 25) >= 50

\* initiateSettlement: the method, of amounts that are not in euro.
SettlementMethod(tx) ==
    IF tx.type = "CROSS_BORDER" THEN "swift"
    ELSE IF tx.type # "SETTLEMENT" THEN "none"
    ELSE IF tx.amount > 100000 THEN "rtgs"
    ELSE IF tx.amount < 25000 THEN "ach"
    ELSE "crypto"

-----------------------------------------------------------------------------
\* submitTransaction and initiateCrossBorderPayment, up to the first record:
\* one to be held awaits TRANSACTION_HELD, any other is on the ledger already.
SubmitTransaction(tx) ==
    LET held == FraudRisk(tx) \in {"HIGH", "CRITICAL"} \/ NeedsReview(tx)
        settled == tx.type \in {"SETTLEMENT", "CROSS_BORDER"}
        id == submitted + 1
    IN  /\ ~mining /\ id <= MaxFinancial /\ IsValidTransaction(tx.amount)
        /\ submitted' = id
        /\ finTxs' = Put(finTxs, id,
              [tx |-> tx, method |-> "none",
               status |-> IF held THEN "HELD" ELSE IF settled THEN "PROCESSING" ELSE "COMPLETED",
               at |-> IF held THEN "TRANSACTION_HELD" ELSE IF settled THEN "SETTLEMENT_INITIATED" ELSE "TRANSACTION_COMPLETED"])
        /\ IF held THEN UNCHANGED pendingTransactions ELSE AddTransaction(id)
        /\ UNCHANGED <<genesis, mining, finAudit>>

\* logSystemEvent answered: the record awaited is in the trail, and the
\* transaction goes on; only at the end is it put in the maps.
Recorded(id) ==
    /\ ~mining /\ id \in DOMAIN finTxs /\ finTxs[id].at \notin {"maps", "TRANSACTION_FAILED"}
    /\ finAudit' = finAudit \cup {<<finTxs[id].at, id>>}
    /\ finTxs' = IF finTxs[id].at = "SETTLEMENT_INITIATED"
                 THEN [finTxs EXCEPT ![id].method = SettlementMethod(finTxs[id].tx),
                                     ![id].status = "COMPLETED", ![id].at = "TRANSACTION_COMPLETED"]
                 ELSE [finTxs EXCEPT ![id].at = "maps"]
    /\ UNCHANGED <<genesis, pendingTransactions, mining, submitted>>

\* It was rejected: a held transaction is forgotten, another one is FAILED,
\* though it stays on the ledger.
NotRecorded(id) ==
    /\ ~mining /\ id \in DOMAIN finTxs /\ finTxs[id].at \notin {"maps", "TRANSACTION_FAILED"}
    /\ finTxs' = IF finTxs[id].at = "TRANSACTION_HELD" THEN Drop(finTxs, {id})
                 ELSE [finTxs EXCEPT ![id].status = "FAILED", ![id].at = "TRANSACTION_FAILED"]
    /\ UNCHANGED <<genesis, pendingTransactions, mining, submitted, finAudit>>

\* The record of the failure, made or not: the caller gets the error and the
\* maps nothing.
FailureThrown(id, recorded) ==
    /\ ~mining /\ id \in DOMAIN finTxs /\ finTxs[id].at = "TRANSACTION_FAILED"
    /\ finAudit' = finAudit \cup (IF recorded THEN {<<"TRANSACTION_FAILED", id>>} ELSE {})
    /\ finTxs' = Drop(finTxs, {id})
    /\ UNCHANGED <<genesis, pendingTransactions, mining, submitted>>

\* reverseTransaction by a reverser with the permission, of a transaction whose
\* amount is positive: the reversal fails, is recorded as failed, and the error
\* leaves the original COMPLETED.
ReverseTransaction(id) ==
    /\ ~mining /\ id \in DOMAIN finTxs /\ finTxs[id].at = "maps" /\ finTxs[id].status = "COMPLETED"
    /\ IF IsValidTransaction(-finTxs[id].tx.amount)
       THEN /\ AddTransaction(-id)
            /\ finTxs' = [finTxs EXCEPT ![id].status = "REVERSED"]
            /\ finAudit' = finAudit \cup {<<"TRANSACTION_COMPLETED", -id>>, <<"TRANSACTION_REVERSED", id>>}
       ELSE /\ finAudit' = finAudit \cup {<<"TRANSACTION_FAILED", -id>>}
            /\ UNCHANGED <<pendingTransactions, finTxs>>
    /\ UNCHANGED <<genesis, mining, submitted>>

Chain == (InitializeChain \/ MinePendingTransactions) /\ UNCHANGED <<submitted, finTxs, finAudit>>

\* Everything but the audit trail and the genesis block is in memory.
Restart == RestartChain /\ finTxs' = Empty /\ UNCHANGED <<submitted, finAudit>>

Next ==
    \/ \E tx \in FinancialTransactions : SubmitTransaction(tx)
    \/ \E id \in 1..MaxFinancial :
        \/ Recorded(id) \/ NotRecorded(id) \/ ReverseTransaction(id)
        \/ \E recorded \in BOOLEAN : FailureThrown(id, recorded)
    \/ Chain \/ Restart

Spec == Init /\ [][Next]_finVars

-----------------------------------------------------------------------------
TypeOK ==
    /\ ChainTypeOK(Int)
    /\ submitted \in 0..MaxFinancial
    /\ IsMap(finTxs, 1..submitted,
             [tx : FinancialTransactions, status : {"HELD", "PROCESSING", "COMPLETED", "FAILED", "REVERSED"},
              method : {"swift", "rtgs", "ach", "crypto", "none"},
              at : {"TRANSACTION_HELD", "SETTLEMENT_INITIATED", "TRANSACTION_COMPLETED", "TRANSACTION_FAILED", "maps"}])
    /\ \A entry \in finAudit : entry[2] \in -submitted..submitted

TimesOnLedger(id) == Cardinality({t \in DOMAIN pendingTransactions : pendingTransactions[t] = id})

\* Every transaction the ledger accepted is on the chain's list exactly once,
\* from the moment it is COMPLETED or awaits settlement and also when it FAILED
\* for want of a record; a held one and a reversal never are.  And what the trail
\* says was completed is COMPLETED and on the list, until the process is
\* restarted: then the record alone is left.
LedgerHasTheCompleted ==
    /\ \A id \in DOMAIN finTxs : TimesOnLedger(id) = IF finTxs[id].status = "HELD" THEN 0 ELSE 1
    /\ \A id \in 1..submitted :
          <<"TRANSACTION_COMPLETED", id>> \in finAudit /\ id \in DOMAIN finTxs => finTxs[id].status = "COMPLETED"
    /\ \A t \in DOMAIN pendingTransactions : pendingTransactions[t] >= Reward
=============================================================================
