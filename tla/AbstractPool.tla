----------------------------- MODULE AbstractPool -----------------------------
(***************************************************************************)
(* What both transaction pools of core/transaction promise their users, who *)
(* see them through addTransaction, removeTransaction, clear and            *)
(* markTransactionsProcessed: nothing is pending that was not admitted, a   *)
(* pool may lose pending transactions (eviction, expiry, removal), and what  *)
(* was processed is remembered for good and never admitted again.           *)
(***************************************************************************)
CONSTANT Txs

VARIABLES pending, processed

absVars == <<pending, processed>>

Init == pending = {} /\ processed = {}

\* A transaction gets in, perhaps at the expense of others.
Admit(t) ==
    /\ t \notin pending \cup processed
    /\ t \in pending'
    /\ pending' \subseteq pending \cup {t}
    /\ UNCHANGED processed

Lose ==
    /\ pending' \subseteq pending
    /\ UNCHANGED processed

Process(S) ==
    /\ pending' = pending \ S
    /\ processed' = processed \cup S

Next ==
    \/ \E t \in Txs : Admit(t)
    \/ Lose
    \/ \E S \in SUBSET Txs : Process(S)

Spec == Init /\ [][Next]_absVars

NeverBack == pending \cap processed = {}
=============================================================================
