-------------------------- MODULE AllServices_proofs --------------------------
(***************************************************************************)
(* Theorems about the services that MCServices adds to those of Services, and  *)
(* about all of them together: those that pay, agree, choose for a block and   *)
(* run contracts.  Each has an invariant of its own, as in Services_proofs.    *)
(***************************************************************************)
EXTENDS MCServices, Services_proofs

\* SmartContractAutomation.  The contracts are numbered as they are made, so a
\* new one takes no other's place, and what replaces one bears its signatures.
LEMMA AutomationCardinality == \A S : TheAutomation!Cardinality(S) = Cardinality(S)
BY DEF Cardinality, TheAutomation!Cardinality

AutomationConstants ==
    /\ MaxContracts \in Nat /\ MaxPayrolls \in Nat
    /\ \A kind \in TheAutomation!Kinds : TheAutomation!TemplateOf(kind) \notin TemplateIds

Contract == [kind : TheAutomation!Kinds, status : {"DRAFT", "ACTIVE"}, signed : SUBSET Signers,
             typed : BOOLEAN, payDateMoved : BOOLEAN]

ContractsMade ==
    /\ \E n \in Nat : n <= MaxContracts /\ DOMAIN contracts = 1..n
    /\ \A c \in DOMAIN contracts : contracts[c] \in Contract
    /\ \A t \in DOMAIN templates : templates[t] \in TheAutomation!Kinds

KeptSigned == \A c \in DOMAIN contracts : contracts[c].signed \subseteq contracts'[c].signed

LEMMA MadeInit ==
    ASSUME AutomationConstants, TheAutomation!Init
    PROVE  ContractsMade
<1>1. 0 <= MaxContracts /\ DOMAIN contracts = 1..0
  BY DEF TheAutomation!Init, TheAutomation!Empty, AutomationConstants
<1>2. \A t \in DOMAIN templates : templates[t] \in TheAutomation!Kinds
  BY DEF TheAutomation!Init, TheAutomation!DefaultTemplates, TheAutomation!Kinds
<1> QED  BY <1>1, <1>2 DEF ContractsMade

LEMMA SignedIsContract ==
    ASSUME NEW x \in Contract, NEW p \in Signers
    PROVE  /\ [x EXCEPT !.signed = x.signed \cup {p}] \in Contract
           /\ [x EXCEPT !.signed = x.signed \cup {p}].signed = x.signed \cup {p}
BY DEF Contract

\* A contract replaced by one of its shape that bears its signatures.
LEMMA ReplacedKeeps ==
    ASSUME ContractsMade, NEW c, NEW x, UNCHANGED templates,
           contracts' = [contracts EXCEPT ![c] = x],
           c \in DOMAIN contracts => x \in Contract /\ contracts[c].signed \subseteq x.signed
    PROVE  ContractsMade' /\ KeptSigned
<1>1. DOMAIN contracts' = DOMAIN contracts /\ \A d \in DOMAIN contracts : contracts'[d] = IF d = c THEN x ELSE contracts[d]
  OBVIOUS
<1>2. ContractsMade'
  BY <1>1 DEF ContractsMade
<1>3. KeptSigned
  BY <1>1 DEF KeptSigned
<1> QED  BY <1>2, <1>3

LEMMA MakeKeeps ==
    ASSUME AutomationConstants, ContractsMade, NEW template, NEW kind, TheAutomation!Make(template, kind)
    PROVE  ContractsMade' /\ KeptSigned
<1> DEFINE x == [kind |-> templates[template], status |-> "DRAFT", signed |-> {}, typed |-> FALSE, payDateMoved |-> FALSE]
<1>1. PICK n \in Nat : n <= MaxContracts /\ DOMAIN contracts = 1..n
  BY DEF ContractsMade
<1>2. Cardinality(DOMAIN contracts) = n
  <2>1. 1 \in Int /\ n \in Int /\ (1 > n => n = 0)
    BY <1>1
  <2>2. Cardinality(1..n) = IF 1 > n THEN 0 ELSE n - 1 + 1
    BY <2>1, FS_Interval
  <2> QED  BY <1>1, <2>1, <2>2
<1>3. x \in Contract
  BY AutomationCardinality DEF TheAutomation!Make, ContractsMade, Contract
<1>4. contracts' = TheAutomation!Put(contracts, n + 1, x) /\ UNCHANGED templates
  BY <1>2, AutomationCardinality DEF TheAutomation!Make
<1> HIDE DEF x
<1>5. DOMAIN contracts' = 1..(n + 1) /\ contracts'[n + 1] = x /\ \A d \in 1..n : contracts'[d] = contracts[d]
  BY <1>1, <1>4 DEF TheAutomation!Put
<1>6. ContractsMade'
  <2>1. \A d \in DOMAIN contracts' : d = n + 1 \/ d \in 1..n
    BY <1>5
  <2>2. \A d \in DOMAIN contracts' : contracts'[d] \in Contract
    BY <1>1, <1>3, <1>5, <2>1 DEF ContractsMade
  <2>3. n + 1 \in Nat /\ n + 1 <= MaxContracts
    BY <1>1, <1>2, AutomationCardinality DEF TheAutomation!Make, AutomationConstants
  <2> QED  BY <1>4, <1>5, <2>2, <2>3 DEF ContractsMade
<1>7. KeptSigned
  BY <1>1, <1>5 DEF KeptSigned
<1> QED  BY <1>6, <1>7

LEMMA MadeStep ==
    ASSUME AutomationConstants, ContractsMade, [TheAutomation!Next]_TheAutomation!automationVars
    PROVE  ContractsMade' /\ KeptSigned
<1>1. CASE UNCHANGED <<templates, contracts>>
  BY <1>1 DEF ContractsMade, KeptSigned
<1>2. ASSUME NEW t \in TemplateIds, TheAutomation!CreateTemplate(t)
      PROVE  ContractsMade' /\ KeptSigned
  <2>1. \A s \in DOMAIN templates' : templates'[s] \in TheAutomation!Kinds
    BY <1>2 DEF TheAutomation!CreateTemplate, TheAutomation!Put, ContractsMade, TheAutomation!Kinds
  <2> QED  BY <1>2, <2>1 DEF TheAutomation!CreateTemplate, ContractsMade, KeptSigned
<1>3. ASSUME NEW template, NEW kind, TheAutomation!Make(template, kind)
      PROVE  ContractsMade' /\ KeptSigned
  BY <1>3, MakeKeeps
<1>4. ASSUME NEW c, NEW ok \in BOOLEAN, TheAutomation!ContractLogged(c, ok)
      PROVE  ContractsMade' /\ KeptSigned
  <2>1. CASE contracts' = contracts
    BY <1>4, <2>1 DEF TheAutomation!ContractLogged, ContractsMade, KeptSigned
  <2>2. CASE contracts' = [contracts EXCEPT ![c].typed = TRUE]
    <3> DEFINE x == [contracts[c] EXCEPT !.typed = TRUE]
    <3>1. contracts' = [contracts EXCEPT ![c] = x] /\ UNCHANGED templates
      BY <1>4, <2>2 DEF TheAutomation!ContractLogged
    <3>2. ASSUME c \in DOMAIN contracts
          PROVE  x \in Contract /\ x.signed = contracts[c].signed
      <4>1. contracts[c] \in Contract
        BY <3>2 DEF ContractsMade
      <4> QED  BY <4>1 DEF Contract
    <3> HIDE DEF x
    <3> QED  BY <3>1, <3>2, ReplacedKeeps
  <2> QED  BY <1>4, <2>1, <2>2 DEF TheAutomation!ContractLogged
<1>5. ASSUME NEW c \in DOMAIN contracts, NEW p \in Signers, NEW s \in Signers, TheAutomation!SignContract(c, p, s)
      PROVE  ContractsMade' /\ KeptSigned
  <2> DEFINE x == [contracts[c] EXCEPT !.signed = contracts[c].signed \cup {p}]
  <2>1. contracts' = [contracts EXCEPT ![c] = x] /\ UNCHANGED templates
    BY <1>5 DEF TheAutomation!SignContract
  <2>2. x \in Contract /\ x.signed = contracts[c].signed \cup {p}
    <3>1. contracts[c] \in Contract
      BY DEF ContractsMade
    <3> QED  BY <3>1, SignedIsContract
  <2> HIDE DEF x
  <2> QED  BY <2>1, <2>2, ReplacedKeeps
<1>6. ASSUME NEW call, TheAutomation!PayrollEnds(call)
      PROVE  ContractsMade' /\ KeptSigned
  <2> DEFINE c == payrolls[call].contract
             x == [contracts[c] EXCEPT !.payDateMoved = TRUE]
  <2>1. contracts' = [contracts EXCEPT ![c] = x] /\ UNCHANGED templates
    BY <1>6 DEF TheAutomation!PayrollEnds
  <2>2. ASSUME c \in DOMAIN contracts
        PROVE  x \in Contract /\ x.signed = contracts[c].signed
    <3>1. contracts[c] \in Contract
      BY <2>2 DEF ContractsMade
    <3> QED  BY <3>1 DEF Contract
  <2> HIDE DEF c, x
  <2> QED  BY <2>1, <2>2, ReplacedKeeps
<1>7. CASE TheAutomation!Next
  <2>1. CASE \E t \in DOMAIN templates : TheAutomation!CreateContract(t)
    BY <1>3, <2>1 DEF TheAutomation!CreateContract
  <2>2. CASE TheAutomation!CreateLoanAgreement \/ TheAutomation!CreatePayrollContract
    BY <1>3, <2>2 DEF TheAutomation!CreateLoanAgreement, TheAutomation!CreatePayrollContract
  <2>3. ASSUME NEW c \in DOMAIN contracts, TheAutomation!ActivateContract(c) \/ \E call \in 1..MaxPayrolls : TheAutomation!ProcessPayroll(call, c)
        PROVE  ContractsMade' /\ KeptSigned
    BY <1>1, <2>3 DEF TheAutomation!ActivateContract, TheAutomation!ProcessPayroll, TheAutomation!automationVars
  <2>4. ASSUME NEW call \in DOMAIN payrolls, TheAutomation!Paid(call) \/ \E e \in Employees : TheAutomation!Pay(call, e)
        PROVE  ContractsMade' /\ KeptSigned
    BY <1>1, <2>4 DEF TheAutomation!Paid, TheAutomation!Pay
  <2> QED  BY <1>2, <1>4, <1>5, <1>6, <1>7, <2>1, <2>2, <2>3, <2>4 DEF TheAutomation!Next
<1> QED  BY <1>1, <1>7 DEF TheAutomation!automationVars

\* The default templates stay, a contract is typed when it is no longer being
\* made, and whom a payroll has gone through is not gone through again.
Payroll == [contract : TheAutomation!ContractIds, todo : SUBSET Employees, paying : SUBSET Employees, errors : SUBSET Employees]
TemplatesKept ==
    /\ DOMAIN templates \subseteq {"loan_agreement_template", "payroll_template"} \cup TemplateIds
    /\ "loan_agreement_template" \in DOMAIN templates /\ "payroll_template" \in DOMAIN templates
    /\ templates["loan_agreement_template"] = "loan" /\ templates["payroll_template"] = "payroll"
MakingKnown ==
    /\ \A c \in DOMAIN creating :
          /\ c \in DOMAIN contracts /\ ~contracts[c].typed /\ creating[c] \in TheAutomation!Kinds
          /\ creating[c] = "custom" \/ contracts[c].kind # "custom"
    /\ \A c \in DOMAIN contracts : contracts[c].typed => contracts[c].kind # "custom"
PaidOf(e) == {call \in DOMAIN payrolls : e \in payrolls[call].errors \cup payrolls[call].paying}
PaymentsKept ==
    /\ DOMAIN payrolls \subseteq 1..MaxPayrolls
    /\ \A call \in DOMAIN payrolls :
          /\ payrolls[call] \in Payroll
          /\ payrolls[call].todo \cap (payrolls[call].errors \cup payrolls[call].paying) = {}
    /\ paid \in [Employees -> Nat] /\ \A e \in Employees : paid[e] = Cardinality(PaidOf(e))

AutomationInv == ContractsMade /\ TemplatesKept /\ MakingKnown /\ PaymentsKept

LEMMA AutomationInit ==
    ASSUME AutomationConstants, TheAutomation!Init
    PROVE  AutomationInv
<1>1. DOMAIN contracts = {} /\ DOMAIN creating = {} /\ DOMAIN payrolls = {} /\ paid = [e \in Employees |-> 0] /\ templates = TheAutomation!DefaultTemplates
  BY DEF TheAutomation!Init, TheAutomation!Empty
<1>2. TemplatesKept /\ MakingKnown
  BY <1>1 DEF TemplatesKept, MakingKnown, TheAutomation!DefaultTemplates
<1>3. \A e \in Employees : PaidOf(e) = {}
  BY <1>1 DEF PaidOf
<1>4. PaymentsKept
  BY <1>1, <1>3, FS_EmptySet DEF PaymentsKept
<1> QED  BY <1>2, <1>4, MadeInit DEF AutomationInv

\* A contract made of a template that its kind has.
LEMMA MakingGoesOn ==
    ASSUME AutomationConstants, ContractsMade, MakingKnown, NEW template, NEW kind \in TheAutomation!Kinds, TheAutomation!Make(template, kind),
           kind # "custom" => templates[template] # "custom"
    PROVE  MakingKnown'
<1> DEFINE x == [kind |-> templates[template], status |-> "DRAFT", signed |-> {}, typed |-> FALSE, payDateMoved |-> FALSE]
           c == Cardinality(DOMAIN contracts) + 1
<1>1. PICK n \in Nat : DOMAIN contracts = 1..n
  BY DEF ContractsMade
<1>2. Cardinality(DOMAIN contracts) = n
  <2>1. 1 \in Int /\ n \in Int /\ (1 > n => n = 0)
    BY <1>1
  <2>2. Cardinality(1..n) = IF 1 > n THEN 0 ELSE n - 1 + 1
    BY <2>1, FS_Interval
  <2> QED  BY <1>1, <2>1, <2>2
<1>3. c \notin DOMAIN contracts
  BY <1>1, <1>2
<1>4. contracts' = TheAutomation!Put(contracts, c, x) /\ creating' = TheAutomation!Put(creating, c, kind)
  BY AutomationCardinality DEF TheAutomation!Make
<1>5. ~x.typed /\ x.kind = templates[template]
  OBVIOUS
<1> HIDE DEF x, c
<1>6. /\ DOMAIN contracts' = DOMAIN contracts \cup {c} /\ contracts'[c] = x
      /\ \A d \in DOMAIN contracts : contracts'[d] = contracts[d]
  BY <1>3, <1>4 DEF TheAutomation!Put
<1>7. /\ DOMAIN creating' = DOMAIN creating \cup {c} /\ creating'[c] = kind
      /\ \A d \in DOMAIN creating : d # c => creating'[d] = creating[d]
  BY <1>4 DEF TheAutomation!Put
<1> QED  BY <1>3, <1>5, <1>6, <1>7 DEF MakingKnown

\* A payroll's record is changed so that those it has gone through stay.
LEMMA PayrollChanged ==
    ASSUME AutomationConstants, PaymentsKept, NEW call \in DOMAIN payrolls, NEW r \in Payroll,
           payrolls' = [payrolls EXCEPT ![call] = r],
           r.todo \cap (r.errors \cup r.paying) = {},
           NEW who \in SUBSET Employees, Cardinality(who) <= 1, who \subseteq payrolls[call].todo,
           r.errors \cup r.paying = payrolls[call].errors \cup payrolls[call].paying \cup who,
           paid' = [e \in Employees |-> IF e \in who THEN paid[e] + 1 ELSE paid[e]]
    PROVE  PaymentsKept'
<1>1. DOMAIN payrolls' = DOMAIN payrolls /\ \A d \in DOMAIN payrolls : payrolls'[d] = IF d = call THEN r ELSE payrolls[d]
  OBVIOUS
<1>2. IsFiniteSet(DOMAIN payrolls)
  <2>1. IsFiniteSet(1..MaxPayrolls)
    BY FS_Interval DEF AutomationConstants
  <2> QED  BY <2>1, FS_Subset DEF PaymentsKept
<1>3. ASSUME NEW e \in Employees PROVE paid'[e] \in Nat /\ paid'[e] = Cardinality(PaidOf(e)')
  <2>1. IsFiniteSet(PaidOf(e))
    BY <1>2, FS_Subset DEF PaidOf
  <2>2. paid[e] = Cardinality(PaidOf(e)) /\ paid[e] \in Nat
    BY DEF PaymentsKept
  <2>3. CASE e \in who
    <3>1. PaidOf(e)' = PaidOf(e) \cup {call}
      BY <1>1, <2>3 DEF PaidOf
    <3>2. call \notin PaidOf(e)
      BY <2>3 DEF PaidOf, PaymentsKept
    <3>3. Cardinality(PaidOf(e) \cup {call}) = Cardinality(PaidOf(e)) + 1
      BY <2>1, <3>2, FS_AddElement
    <3> QED  BY <2>2, <2>3, <3>1, <3>3
  <2>4. CASE e \notin who
    <3>1. PaidOf(e)' = PaidOf(e)
      BY <1>1, <2>4 DEF PaidOf
    <3> QED  BY <2>2, <2>4, <3>1
  <2> QED  BY <2>3, <2>4
<1>4. paid' \in [Employees -> Nat]
  BY <1>3
<1> QED  BY <1>1, <1>3, <1>4 DEF PaymentsKept

LEMMA AutomationStep ==
    ASSUME AutomationConstants, AutomationInv, [TheAutomation!Next]_TheAutomation!automationVars
    PROVE  AutomationInv' /\ KeptSigned
<1>0. ContractsMade /\ TemplatesKept /\ MakingKnown /\ PaymentsKept
  BY DEF AutomationInv
<1>1. ContractsMade' /\ KeptSigned
  BY <1>0, MadeStep
<1>2. ASSUME UNCHANGED templates PROVE TemplatesKept'
  BY <1>0, <1>2 DEF TemplatesKept
<1>3. ASSUME UNCHANGED <<contracts, creating>> PROVE MakingKnown'
  BY <1>0, <1>3 DEF MakingKnown
<1>4. ASSUME UNCHANGED <<payrolls, paid>> PROVE PaymentsKept'
  BY <1>0, <1>4 DEF PaymentsKept, PaidOf
<1>5. CASE UNCHANGED TheAutomation!automationVars
  BY <1>1, <1>2, <1>3, <1>4, <1>5 DEF TheAutomation!automationVars, AutomationInv
<1>6. ASSUME NEW t \in TemplateIds, TheAutomation!CreateTemplate(t)
      PROVE  TemplatesKept' /\ MakingKnown' /\ PaymentsKept'
  <2>1. TemplatesKept'
    BY <1>0, <1>6 DEF TheAutomation!CreateTemplate, TheAutomation!Put, TemplatesKept
  <2> QED  BY <1>3, <1>4, <1>6, <2>1 DEF TheAutomation!CreateTemplate
<1>7. ASSUME NEW template, NEW kind \in TheAutomation!Kinds, TheAutomation!Make(template, kind), kind # "custom" => templates[template] # "custom"
      PROVE  TemplatesKept' /\ MakingKnown' /\ PaymentsKept'
  <2>1. MakingKnown'
    BY <1>0, <1>7, MakingGoesOn
  <2> QED  BY <1>2, <1>4, <1>7, <2>1, AutomationCardinality DEF TheAutomation!Make
<1>8. ASSUME NEW c \in DOMAIN creating, NEW ok \in BOOLEAN, TheAutomation!ContractLogged(c, ok)
      PROVE  TemplatesKept' /\ MakingKnown' /\ PaymentsKept'
  <2>1. c \in DOMAIN contracts /\ contracts[c] \in Contract
    BY <1>0 DEF MakingKnown, ContractsMade
  <2>2. DOMAIN creating' = DOMAIN creating \ {c} /\ \A d \in DOMAIN creating' : creating'[d] = creating[d]
    BY <1>8 DEF TheAutomation!ContractLogged, TheAutomation!Drop
  <2>3. /\ DOMAIN contracts' = DOMAIN contracts
        /\ \A d \in DOMAIN contracts : d # c => contracts'[d] = contracts[d]
        /\ contracts'[c].kind = contracts[c].kind
        /\ contracts'[c].typed => contracts[c].typed \/ creating[c] # "custom"
    <3> DEFINE x == [contracts[c] EXCEPT !.typed = TRUE]
    <3>1. x.kind = contracts[c].kind
      BY <2>1 DEF Contract
    <3>2. contracts' = IF ok /\ creating[c] # "custom" THEN [contracts EXCEPT ![c] = x] ELSE contracts
      BY <1>8 DEF TheAutomation!ContractLogged
    <3> HIDE DEF x
    <3> QED  BY <2>1, <3>1, <3>2
  <2>4. MakingKnown'
    BY <1>0, <2>1, <2>2, <2>3 DEF MakingKnown
  <2> QED  BY <1>2, <1>4, <1>8, <2>4 DEF TheAutomation!ContractLogged
<1>9. ASSUME NEW c \in DOMAIN contracts, NEW x \in Contract, contracts' = [contracts EXCEPT ![c] = x],
             x.kind = contracts[c].kind, x.typed = contracts[c].typed, UNCHANGED creating
      PROVE  MakingKnown'
  <2>1. DOMAIN contracts' = DOMAIN contracts /\ \A d \in DOMAIN contracts : contracts'[d].kind = contracts[d].kind /\ contracts'[d].typed = contracts[d].typed
    BY <1>9
  <2> QED  BY <1>0, <1>9, <2>1 DEF MakingKnown
<1>10. ASSUME NEW c \in DOMAIN contracts, NEW p \in Signers, NEW s \in Signers, TheAutomation!SignContract(c, p, s)
       PROVE  TemplatesKept' /\ MakingKnown' /\ PaymentsKept'
  <2> DEFINE x == [contracts[c] EXCEPT !.signed = contracts[c].signed \cup {p}]
  <2>1. contracts' = [contracts EXCEPT ![c] = x] /\ UNCHANGED <<templates, creating, payrolls, paid>>
    BY <1>10 DEF TheAutomation!SignContract
  <2>2. contracts[c] \in Contract
    BY <1>0 DEF ContractsMade
  <2>3. x \in Contract /\ x.kind = contracts[c].kind /\ x.typed = contracts[c].typed
    BY <2>2 DEF Contract
  <2> HIDE DEF x
  <2> QED  BY <1>2, <1>4, <1>9, <2>1, <2>3
<1>11. ASSUME NEW call \in DOMAIN payrolls, TheAutomation!PayrollEnds(call)
       PROVE  TemplatesKept' /\ MakingKnown' /\ PaymentsKept'
  <2> DEFINE c == payrolls[call].contract
             x == [contracts[c] EXCEPT !.payDateMoved = TRUE]
  <2>1. contracts' = [contracts EXCEPT ![c] = x] /\ UNCHANGED <<templates, creating, payrolls, paid>>
    BY <1>11 DEF TheAutomation!PayrollEnds
  <2>2. CASE c \in DOMAIN contracts
    <3>1. contracts[c] \in Contract
      BY <1>0, <2>2 DEF ContractsMade
    <3>2. x \in Contract /\ x.kind = contracts[c].kind /\ x.typed = contracts[c].typed
      BY <3>1 DEF Contract
    <3> HIDE DEF x, c
    <3> QED  BY <1>2, <1>4, <1>9, <2>1, <2>2, <3>2
  <2>3. CASE c \notin DOMAIN contracts
    <3>1. DOMAIN contracts' = DOMAIN contracts /\ \A d \in DOMAIN contracts : contracts'[d] = contracts[d]
      BY <2>1, <2>3
    <3>2. MakingKnown'
      BY <1>0, <2>1, <3>1 DEF MakingKnown
    <3> QED  BY <1>2, <1>4, <2>1, <3>2
  <2> QED  BY <2>2, <2>3
<1>12. ASSUME NEW c \in DOMAIN contracts, NEW call \in 1..MaxPayrolls, TheAutomation!ProcessPayroll(call, c)
       PROVE  TemplatesKept' /\ MakingKnown' /\ PaymentsKept'
  <2> DEFINE r == [contract |-> c, todo |-> Employees, paying |-> {}, errors |-> {}]
  <2>1. call \notin DOMAIN payrolls /\ payrolls' = TheAutomation!Put(payrolls, call, r) /\ UNCHANGED <<templates, contracts, creating, paid>>
    BY <1>12 DEF TheAutomation!ProcessPayroll
  <2>2. r \in Payroll /\ r.errors = {} /\ r.paying = {}
    <3>1. c \in TheAutomation!ContractIds
      BY <1>0 DEF ContractsMade, TheAutomation!ContractIds, AutomationConstants
    <3> QED  BY <3>1 DEF Payroll
  <2> HIDE DEF r
  <2>3. DOMAIN payrolls' = DOMAIN payrolls \cup {call} /\ payrolls'[call] = r /\ \A d \in DOMAIN payrolls : payrolls'[d] = payrolls[d]
    BY <2>1 DEF TheAutomation!Put
  <2>4. \A e \in Employees : PaidOf(e)' = PaidOf(e)
    BY <2>1, <2>2, <2>3 DEF PaidOf
  <2>5. PaymentsKept'
    BY <1>0, <2>1, <2>2, <2>3, <2>4 DEF PaymentsKept
  <2> QED  BY <1>2, <1>3, <2>1, <2>5
<1>13. ASSUME NEW call \in DOMAIN payrolls, NEW e \in Employees, TheAutomation!Pay(call, e)
       PROVE  TemplatesKept' /\ MakingKnown' /\ PaymentsKept'
  <2> DEFINE o == payrolls[call]
             r == [o EXCEPT !.paying = {e}, !.todo = o.todo \ {e}]
  <2>1. o \in Payroll /\ o.todo \cap (o.errors \cup o.paying) = {} /\ o.paying = {} /\ e \in o.todo
    BY <1>0, <1>13 DEF PaymentsKept, TheAutomation!Pay
  <2>2. payrolls' = [payrolls EXCEPT ![call] = r] /\ paid' = [paid EXCEPT ![e] = paid[e] + 1] /\ UNCHANGED <<templates, contracts, creating>>
    BY <1>13 DEF TheAutomation!Pay
  <2>3. r \in Payroll /\ r.todo = o.todo \ {e} /\ r.paying = {e} /\ r.errors = o.errors
    <3> HIDE DEF o
    <3> QED  BY <2>1 DEF Payroll
  <2> HIDE DEF o, r
  <2>4. paid' = [f \in Employees |-> IF f \in {e} THEN paid[f] + 1 ELSE paid[f]]
    BY <1>0, <2>2 DEF PaymentsKept
  <2>5. Cardinality({e}) <= 1 /\ {e} \in SUBSET Employees
    <3>1. Cardinality({e}) = 1
      BY FS_Singleton
    <3> QED  BY <3>1
  <2>6. /\ r.todo \cap (r.errors \cup r.paying) = {} /\ {e} \subseteq o.todo
        /\ r.errors \cup r.paying = o.errors \cup o.paying \cup {e}
    BY <2>1, <2>3
  <2>7. PaymentsKept'
    BY <1>0, <2>2, <2>3, <2>4, <2>5, <2>6, PayrollChanged DEF o
  <2> QED  BY <1>2, <1>3, <2>2, <2>7
<1>14. ASSUME NEW call \in DOMAIN payrolls, TheAutomation!Paid(call)
       PROVE  TemplatesKept' /\ MakingKnown' /\ PaymentsKept'
  <2> DEFINE o == payrolls[call]
             r == [o EXCEPT !.paying = {}, !.errors = o.errors \cup o.paying]
  <2>1. o \in Payroll /\ o.todo \cap (o.errors \cup o.paying) = {}
    BY <1>0 DEF PaymentsKept
  <2>2. payrolls' = [payrolls EXCEPT ![call] = r] /\ UNCHANGED <<templates, contracts, creating, paid>>
    BY <1>14 DEF TheAutomation!Paid
  <2>3. r \in Payroll /\ r.todo = o.todo /\ r.paying = {} /\ r.errors = o.errors \cup o.paying
    <3> HIDE DEF o
    <3> QED  BY <2>1 DEF Payroll
  <2> HIDE DEF o, r
  <2>4. paid' = [f \in Employees |-> IF f \in {} THEN paid[f] + 1 ELSE paid[f]]
    BY <1>0, <2>2 DEF PaymentsKept
  <2>5. Cardinality({}) <= 1 /\ {} \in SUBSET Employees
    BY FS_EmptySet
  <2>6. /\ r.todo \cap (r.errors \cup r.paying) = {} /\ {} \subseteq o.todo
        /\ r.errors \cup r.paying = o.errors \cup o.paying \cup {}
    BY <2>1, <2>3
  <2>7. PaymentsKept'
    BY <1>0, <2>2, <2>3, <2>4, <2>5, <2>6, PayrollChanged DEF o
  <2> QED  BY <1>2, <1>3, <2>2, <2>7
<1>15. CASE TheAutomation!Next
  <2>1. CASE \E t \in DOMAIN templates : TheAutomation!CreateContract(t)
    BY <1>1, <1>7, <2>1 DEF TheAutomation!CreateContract, AutomationInv, TheAutomation!Kinds
  <2>2. CASE TheAutomation!CreateLoanAgreement \/ TheAutomation!CreatePayrollContract
    <3>1. \A kind \in {"loan", "payroll"} : kind \in TheAutomation!Kinds /\ templates[TheAutomation!TemplateOf(kind)] # "custom"
      BY <1>0 DEF TemplatesKept, TheAutomation!TemplateOf, TheAutomation!Kinds
    <3> QED  BY <1>1, <1>7, <2>2, <3>1 DEF TheAutomation!CreateLoanAgreement, TheAutomation!CreatePayrollContract, AutomationInv
  <2>3. ASSUME NEW c \in DOMAIN contracts, TheAutomation!ActivateContract(c) PROVE AutomationInv'
    BY <1>1, <1>5, <2>3 DEF TheAutomation!ActivateContract, TheAutomation!automationVars, AutomationInv
  <2> QED  BY <1>1, <1>6, <1>8, <1>10, <1>11, <1>12, <1>13, <1>14, <1>15, <2>1, <2>2, <2>3 DEF TheAutomation!Next, AutomationInv
<1> QED  BY <1>1, <1>5, <1>15 DEF AutomationInv, TheAutomation!automationVars

LEMMA AutomationInvSays ==
    ASSUME AutomationConstants, AutomationInv
    PROVE  TheAutomation!TypeOK /\ TheAutomation!PaymentsAreReported /\ TheAutomation!TypedWhenMade
<1>0. ContractsMade /\ TemplatesKept /\ MakingKnown /\ PaymentsKept
  BY DEF AutomationInv
<1>1. \A c \in DOMAIN contracts : c \in TheAutomation!ContractIds /\ contracts[c] \in Contract
  BY <1>0 DEF ContractsMade, TheAutomation!ContractIds, AutomationConstants
<1>2. TheAutomation!TypeOK
  <2>1. TheAutomation!DefaultTemplates = [t \in DOMAIN TheAutomation!DefaultTemplates |-> templates[t]]
    BY <1>0 DEF TemplatesKept, TheAutomation!DefaultTemplates
  <2>2. TheAutomation!IsMap(contracts, TheAutomation!ContractIds, Contract) /\ TheAutomation!IsMap(creating, TheAutomation!ContractIds, TheAutomation!Kinds)
    BY <1>0, <1>1 DEF TheAutomation!IsMap, MakingKnown
  <2>3. \A call \in DOMAIN payrolls : payrolls[call].contract \in TheAutomation!ContractIds
    BY <1>0 DEF PaymentsKept, Payroll
  <2> QED  BY <1>0, <2>1, <2>2, <2>3 DEF TheAutomation!TypeOK, Contract, PaymentsKept
<1>3. TheAutomation!PaymentsAreReported
  BY <1>0, AutomationCardinality DEF TheAutomation!PaymentsAreReported, PaymentsKept, PaidOf
<1>4. TheAutomation!TypedWhenMade
  <2>1. \A kind \in {"escrow", "insurance", "royalty"} : TheAutomation!TemplateMissing(kind)
    BY <1>0 DEF TheAutomation!TemplateMissing, TheAutomation!TemplateOf, TemplatesKept, AutomationConstants, TheAutomation!Kinds
  <2> QED  BY <1>0, <2>1 DEF TheAutomation!TypedWhenMade, MakingKnown
<1> QED  BY <1>2, <1>3, <1>4

-----------------------------------------------------------------------------
\* Sums, which are taken in an order nobody knows.
Some(s) == CHOOSE x \in s : TRUE

Adds(sum, S, f) == sum = [s \in SUBSET S |-> IF s = {} THEN 0 ELSE f[Some(s)] + sum[s \ {Some(s)}]]

LEMMA SumUnfolds == \A f : Sum(f) = (CHOOSE sum : Adds(sum, DOMAIN f, f))[DOMAIN f]
BY DEF Sum, Adds, Some

LEMMA SomeIsIn == \A s : s # {} => Some(s) \in s
BY DEF Some

\* The subsets of a finite set, and how many elements one less has.
LEMMA OneLess ==
    ASSUME NEW S, IsFiniteSet(S), NEW T \in SUBSET S
    PROVE  /\ Cardinality(T) \in Nat /\ (Cardinality(T) = 0 <=> T = {})
           /\ Cardinality(T) <= Cardinality(S)
           /\ \A x \in T : T \ {x} \in SUBSET S /\ Cardinality(T \ {x}) = Cardinality(T) - 1
<1>1. IsFiniteSet(T) /\ Cardinality(T) <= Cardinality(S)
  BY FS_Subset
<1>2. Cardinality(T) \in Nat /\ (Cardinality(T) = 0 <=> T = {})
  BY <1>1, FS_CardinalityType, FS_EmptySet
<1>3. \A x \in T : Cardinality(T \ {x}) = Cardinality(T) - 1
  BY <1>1, FS_RemoveElement
<1> QED  BY <1>1, <1>2, <1>3

\* There is a sum, for a set of any size.
LEMMA SumExists ==
    ASSUME NEW S, IsFiniteSet(S), NEW f
    PROVE  \E sum : Adds(sum, S, f)
<1> DEFINE UpTo(k) == {s \in SUBSET S : Cardinality(s) <= k}
           Made(g, k) == g = [s \in UpTo(k) |-> IF s = {} THEN 0 ELSE f[Some(s)] + g[s \ {Some(s)}]]
           Missing == {k \in Nat : ~ \E g : Made(g, k)}
<1>1. \A s \in SUBSET S : s # {} => /\ Some(s) \in s /\ s \ {Some(s)} \in SUBSET S
                                    /\ Cardinality(s \ {Some(s)}) = Cardinality(s) - 1
  BY SomeIsIn, OneLess
<1>2. \A s \in SUBSET S : Cardinality(s) \in Nat /\ (Cardinality(s) = 0 <=> s = {})
  BY OneLess
<1>3. Missing = {}
  <2> SUFFICES ASSUME Missing # {} PROVE FALSE
    OBVIOUS
  <2> HIDE DEF Made, UpTo
  <2>1. PICK m \in Missing : \A k \in Missing : m <= k
    BY LeastNatural
  <2>2. m \in Nat /\ ~ \E g : Made(g, m)
    OBVIOUS
  <2>3. m # 0
    <3>1. \A s \in UpTo(0) : s = {}
      BY <1>2 DEF UpTo
    <3>2. Made([s \in UpTo(0) |-> 0], 0)
      BY <3>1 DEF Made
    <3> QED  BY <2>2, <3>2
  <2>4. m - 1 \in Nat /\ m - 1 \notin Missing
    BY <2>1, <2>2, <2>3
  <2>5. PICK g : Made(g, m - 1)
    BY <2>4
  <2> DEFINE h == [s \in UpTo(m) |-> IF s = {} THEN 0 ELSE f[Some(s)] + g[s \ {Some(s)}]]
  <2>6. \A s \in UpTo(m - 1) : s \in UpTo(m) /\ h[s] = g[s]
    <3>1. \A s \in UpTo(m - 1) : s \in UpTo(m)
      BY <1>2, <2>2 DEF UpTo
    <3>2. \A s \in UpTo(m - 1) : g[s] = IF s = {} THEN 0 ELSE f[Some(s)] + g[s \ {Some(s)}]
      BY <2>5 DEF Made
    <3> QED  BY <3>1, <3>2
  <2>7. \A s \in UpTo(m) : s # {} => s \ {Some(s)} \in UpTo(m - 1)
    BY <1>1, <1>2, <2>2 DEF UpTo
  <2>8. \A s \in UpTo(m) : h[s] = IF s = {} THEN 0 ELSE f[Some(s)] + h[s \ {Some(s)}]
    BY <2>6, <2>7
  <2>9. h = [s \in UpTo(m) |-> h[s]]
    OBVIOUS
  <2> HIDE DEF h
  <2>10. Made(h, m)
    BY <2>8, <2>9 DEF Made
  <2> QED  BY <2>2, <2>10
<1>4. Cardinality(S) \in Nat /\ UpTo(Cardinality(S)) = SUBSET S
  BY OneLess
<1>5. PICK g : Made(g, Cardinality(S))
  BY <1>3, <1>4
<1> HIDE DEF UpTo
<1> QED  BY <1>4, <1>5 DEF Adds

\* Any element may be the one taken out of it.
LEMMA SumTakes ==
    ASSUME NEW S, IsFiniteSet(S), NEW f, \A x \in S : f[x] \in Int, NEW sum, Adds(sum, S, f)
    PROVE  \A T \in SUBSET S : sum[T] \in Int /\ \A x \in T : sum[T] = f[x] + sum[T \ {x}]
<1> DEFINE Right(T) == sum[T] \in Int /\ \A x \in T : sum[T] = f[x] + sum[T \ {x}]
           Wrong == {k \in Nat : \E T \in SUBSET S : Cardinality(T) = k /\ ~ Right(T)}
<1>1. \A T \in SUBSET S : sum[T] = IF T = {} THEN 0 ELSE f[Some(T)] + sum[T \ {Some(T)}]
  BY DEF Adds
<1>2. \A T \in SUBSET S : /\ Cardinality(T) \in Nat
                          /\ \A x \in T : T \ {x} \in SUBSET S /\ Cardinality(T \ {x}) = Cardinality(T) - 1
  BY OneLess
<1> HIDE DEF Right
<1>3. ASSUME NEW T \in SUBSET S, \A U \in SUBSET S : Cardinality(U) < Cardinality(T) => Right(U)
      PROVE  Right(T)
  <2>1. CASE T = {}
    <3>1. sum[T] = 0
      BY <1>1, <2>1
    <3> QED  BY <2>1, <3>1 DEF Right
  <2>2. CASE T # {}
    <3> DEFINE y == Some(T)
    <3>1. y \in T
      BY <2>2, SomeIsIn
    <3>2. f[y] \in Int /\ sum[T] = f[y] + sum[T \ {y}]
      BY <1>1, <2>2, <3>1
    <3> HIDE DEF y
    <3>3. \A x \in T : Right(T \ {x})
      <4> TAKE x \in T
      <4>1. Cardinality(T \ {x}) < Cardinality(T)
        <5> DEFINE c == Cardinality(T)
                   d == Cardinality(T \ {x})
        <5>1. c \in Nat /\ d = c - 1
          BY <1>2
        <5> HIDE DEF c, d
        <5>2. d < c
          BY <5>1
        <5> QED  BY <5>2 DEF c, d
      <4> QED  BY <1>2, <1>3, <4>1
    <3>4. sum[T \ {y}] \in Int
      BY <3>1, <3>3 DEF Right
    <3>5. ASSUME NEW x \in T, x # y PROVE sum[T] = f[x] + sum[T \ {x}]
      <4> DEFINE rest == (T \ {x}) \ {y}
      <4>1. rest = (T \ {y}) \ {x} /\ x \in T \ {y} /\ y \in T \ {x}
        BY <3>1, <3>5
      <4>2. sum[T \ {y}] = f[x] + sum[rest]
        BY <3>1, <3>3, <4>1 DEF Right
      <4>3. sum[T \ {x}] = f[y] + sum[rest]
        BY <3>3, <4>1 DEF Right
      <4>4. sum[rest] \in Int
        <5>1. T \ {x} \in SUBSET S
          OBVIOUS
        <5>2. Cardinality(rest) < Cardinality(T)
          <6> DEFINE c == Cardinality(T)
                     d == Cardinality(T \ {x})
                     e == Cardinality(rest)
          <6>1. c \in Nat /\ d = c - 1
            BY <1>2
          <6>2. e = d - 1
            BY <1>2, <4>1, <5>1
          <6> HIDE DEF c, d, e
          <6>3. e < c
            BY <6>1, <6>2
          <6> QED  BY <6>3 DEF c, e
        <5> QED  BY <1>3, <5>2 DEF Right
      <4>5. f[x] \in Int
        OBVIOUS
      <4> DEFINE whole == sum[T]
                 sansX == sum[T \ {x}]
                 sansY == sum[T \ {y}]
                 least == sum[rest]
      <4>6. whole = f[y] + sansY /\ sansY = f[x] + least /\ sansX = f[y] + least /\ least \in Int
        BY <3>2, <4>2, <4>3, <4>4
      <4> HIDE DEF whole, sansX, sansY, least
      <4>7. whole = f[x] + sansX
        BY <3>2, <4>5, <4>6
      <4> QED  BY <4>7 DEF whole, sansX
    <3>6. sum[T] \in Int
      <4> DEFINE d == sum[T \ {y}]
      <4> HIDE DEF d
      <4> QED  BY <3>2, <3>4 DEF d
    <3> QED  BY <3>2, <3>5, <3>6 DEF Right
  <2> QED  BY <2>1, <2>2
<1>4. Wrong = {}
  <2> SUFFICES ASSUME Wrong # {} PROVE FALSE
    OBVIOUS
  <2>1. PICK m \in Wrong : \A k \in Wrong : m <= k
    BY LeastNatural
  <2>2. PICK T \in SUBSET S : Cardinality(T) = m /\ ~ Right(T)
    BY <2>1
  <2>3. \A U \in SUBSET S : Cardinality(U) < Cardinality(T) => Right(U)
    <3> SUFFICES ASSUME NEW U \in SUBSET S, Cardinality(U) < Cardinality(T), ~ Right(U) PROVE FALSE
      OBVIOUS
    <3>1. Cardinality(U) \in Wrong
      BY <1>2
    <3> QED  BY <1>2, <2>1, <2>2, <3>1
  <2> QED  BY <1>3, <2>2, <2>3
<1>5. \A T \in SUBSET S : Right(T)
  BY <1>2, <1>4
<1> QED  BY <1>5 DEF Right

\* Two sums over equal summands are equal.
LEMMA SumAgrees ==
    ASSUME NEW S, IsFiniteSet(S), NEW f, NEW sum, Adds(sum, S, f),
           NEW R, NEW g, NEW other, Adds(other, R, g),
           NEW T \in SUBSET S, T \in SUBSET R, \A x \in T : f[x] = g[x]
    PROVE  sum[T] = other[T]
<1> DEFINE Wrong == {k \in Nat : \E U \in SUBSET T : Cardinality(U) = k /\ sum[U] # other[U]}
<1>1. \A U \in SUBSET T :
        /\ sum[U] = IF U = {} THEN 0 ELSE f[Some(U)] + sum[U \ {Some(U)}]
        /\ other[U] = IF U = {} THEN 0 ELSE g[Some(U)] + other[U \ {Some(U)}]
  <2>1. \A U \in SUBSET T : sum[U] = IF U = {} THEN 0 ELSE f[Some(U)] + sum[U \ {Some(U)}]
    BY DEF Adds
  <2>2. \A U \in SUBSET T : other[U] = IF U = {} THEN 0 ELSE g[Some(U)] + other[U \ {Some(U)}]
    BY DEF Adds
  <2> QED  BY <2>1, <2>2
<1>2. \A U \in SUBSET T : /\ Cardinality(U) \in Nat
                          /\ \A x \in U : U \ {x} \in SUBSET T /\ Cardinality(U \ {x}) = Cardinality(U) - 1
  BY OneLess
<1>3. Wrong = {}
  <2> SUFFICES ASSUME Wrong # {} PROVE FALSE
    OBVIOUS
  <2>1. PICK m \in Wrong : \A k \in Wrong : m <= k
    <3>1. Wrong \subseteq Nat
      OBVIOUS
    <3> HIDE DEF Wrong
    <3> QED  BY <3>1, LeastNatural
  <2>2. PICK U \in SUBSET T : Cardinality(U) = m /\ sum[U] # other[U]
    BY <2>1
  <2>3. U # {} /\ Some(U) \in U
    BY <1>1, <2>2, SomeIsIn
  <2> DEFINE y == Some(U)
             V == U \ {y}
  <2>4. V \in SUBSET T /\ Cardinality(V) = m - 1 /\ Cardinality(V) \in Nat /\ m \in Nat
    BY <1>2, <2>2, <2>3
  <2>5. sum[V] = other[V]
    <3> HIDE DEF V
    <3>1. m - 1 \notin Wrong
      BY <2>1, <2>4
    <3> QED  BY <2>4, <3>1
  <2>6. f[y] = g[y]
    BY <2>3
  <2> QED  BY <1>1, <2>2, <2>3, <2>5, <2>6
<1> QED  BY <1>2, <1>3

LEMMA SumOver ==
    ASSUME NEW f, IsFiniteSet(DOMAIN f)
    PROVE  \E sum : Adds(sum, DOMAIN f, f) /\ Sum(f) = sum[DOMAIN f]
<1> DEFINE sum == CHOOSE s : Adds(s, DOMAIN f, f)
<1>1. Adds(sum, DOMAIN f, f)
  BY SumExists
<1>2. Sum(f) = sum[DOMAIN f]
  BY SumUnfolds
<1> QED  BY <1>1, <1>2

\* A sum of nothing, of one summand more, and of one summand changed.
LEMMA SumIsInt ==
    ASSUME NEW f, IsFiniteSet(DOMAIN f), \A x \in DOMAIN f : f[x] \in Int
    PROVE  Sum(f) \in Int /\ (DOMAIN f = {} => Sum(f) = 0)
<1>1. PICK sum : Adds(sum, DOMAIN f, f) /\ Sum(f) = sum[DOMAIN f]
  BY SumOver
<1>2. Sum(f) \in Int
  BY <1>1, SumTakes
<1>3. DOMAIN f = {} => sum[DOMAIN f] = 0
  BY <1>1 DEF Adds
<1> QED  BY <1>1, <1>2, <1>3

LEMMA SumExtended ==
    ASSUME NEW f, IsFiniteSet(DOMAIN f), NEW g, NEW x, x \notin DOMAIN f, DOMAIN g = DOMAIN f \cup {x},
           \A y \in DOMAIN g : g[y] \in Int, \A y \in DOMAIN f : g[y] = f[y]
    PROVE  Sum(g) = Sum(f) + g[x]
<1> DEFINE F == DOMAIN f
           G == DOMAIN g
<1>1. IsFiniteSet(F) /\ IsFiniteSet(G) /\ G = F \cup {x} /\ x \notin F /\ G \ {x} = F
  BY FS_AddElement
<1>2. \A y \in F : f[y] \in Int
  OBVIOUS
<1>3. PICK sum : Adds(sum, F, f) /\ Sum(f) = sum[F]
  BY SumOver
<1>4. PICK other : Adds(other, G, g) /\ Sum(g) = other[G]
  BY <1>1, SumOver
<1>5. \A y \in F : f[y] = g[y]
  OBVIOUS
<1>6. \A y \in G : g[y] \in Int
  OBVIOUS
<1> HIDE DEF F, G
<1>7. other[G] = g[x] + other[F]
  <2>1. \A T \in SUBSET G : other[T] \in Int /\ \A y \in T : other[T] = g[y] + other[T \ {y}]
    BY <1>1, <1>4, <1>6, SumTakes
  <2>2. x \in G /\ G \in SUBSET G
    BY <1>1
  <2>3. other[G] = g[x] + other[G \ {x}]
    BY <2>1, <2>2
  <2>4. G \ {x} = F
    BY <1>1
  <2> QED  BY <2>3, <2>4
<1>8. sum[F] = other[F]
  BY <1>1, <1>3, <1>4, <1>5, SumAgrees
<1>9. other[F] \in Int /\ g[x] \in Int
  <2>1. F \in SUBSET G
    BY <1>1
  <2> QED  BY <1>1, <1>4, <1>6, <2>1, SumTakes
<1> QED  BY <1>3, <1>4, <1>7, <1>8, <1>9

LEMMA SumChanged ==
    ASSUME NEW f, IsFiniteSet(DOMAIN f), NEW g, NEW x \in DOMAIN f, DOMAIN g = DOMAIN f,
           \A y \in DOMAIN f : f[y] \in Int /\ g[y] \in Int, \A y \in DOMAIN f \ {x} : g[y] = f[y]
    PROVE  Sum(g) = Sum(f) - f[x] + g[x]
<1> DEFINE F == DOMAIN f
           R == F \ {x}
<1>1. PICK sum : Adds(sum, F, f) /\ Sum(f) = sum[F]
  BY SumOver
<1>2. PICK other : Adds(other, F, g) /\ Sum(g) = other[F]
  BY SumOver
<1>3. IsFiniteSet(F) /\ x \in F /\ R \in SUBSET F
  OBVIOUS
<1>4. (\A y \in F : f[y] \in Int /\ g[y] \in Int) /\ (\A y \in R : f[y] = g[y])
  OBVIOUS
<1> HIDE DEF F
<1>5. sum[F] = f[x] + sum[R] /\ sum[R] \in Int
  <2>1. \A T \in SUBSET F : sum[T] \in Int /\ \A y \in T : sum[T] = f[y] + sum[T \ {y}]
    BY <1>1, <1>3, <1>4, SumTakes
  <2> QED  BY <1>3, <2>1
<1>6. other[F] = g[x] + other[R] /\ other[R] \in Int
  <2>1. \A T \in SUBSET F : other[T] \in Int /\ \A y \in T : other[T] = g[y] + other[T \ {y}]
    BY <1>2, <1>3, <1>4, SumTakes
  <2> QED  BY <1>3, <2>1
<1> HIDE DEF R
<1>7. sum[R] = other[R]
  BY <1>1, <1>2, <1>3, <1>4, SumAgrees
<1>8. f[x] \in Int /\ g[x] \in Int
  BY <1>3, <1>4
<1> QED  BY <1>1, <1>2, <1>5, <1>6, <1>7, <1>8

LEMMA SumIsNat ==
    ASSUME NEW f, IsFiniteSet(DOMAIN f), \A x \in DOMAIN f : f[x] \in Nat
    PROVE  Sum(f) \in Nat
<1> DEFINE S == DOMAIN f
<1>1. PICK sum : Adds(sum, S, f) /\ Sum(f) = sum[S]
  BY SumOver
<1>2. IsFiniteSet(S) /\ (\A x \in S : f[x] \in Int) /\ \A x \in S : f[x] \in Nat
  OBVIOUS
<1> HIDE DEF S
<1> DEFINE Wrong == {k \in Nat : \E T \in SUBSET S : Cardinality(T) = k /\ sum[T] \notin Nat}
<1>3. \A T \in SUBSET S : sum[T] = IF T = {} THEN 0 ELSE f[Some(T)] + sum[T \ {Some(T)}]
  BY <1>1 DEF Adds
<1>4. \A T \in SUBSET S : /\ Cardinality(T) \in Nat
                          /\ \A x \in T : T \ {x} \in SUBSET S /\ Cardinality(T \ {x}) = Cardinality(T) - 1
  BY <1>2, OneLess
<1>5. Wrong = {}
  <2> SUFFICES ASSUME Wrong # {} PROVE FALSE
    OBVIOUS
  <2>1. PICK m \in Wrong : \A k \in Wrong : m <= k
    <3>1. Wrong \subseteq Nat
      OBVIOUS
    <3> HIDE DEF Wrong
    <3> QED  BY <3>1, LeastNatural
  <2>2. PICK T \in SUBSET S : Cardinality(T) = m /\ sum[T] \notin Nat
    BY <2>1
  <2>3. T # {} /\ Some(T) \in T
    BY <1>3, <2>2, SomeIsIn
  <2> DEFINE y == Some(T)
             U == T \ {y}
  <2>4. U \in SUBSET S /\ Cardinality(U) = m - 1 /\ Cardinality(U) \in Nat /\ m \in Nat
    BY <1>4, <2>2, <2>3
  <2>5. sum[U] \in Nat
    <3> HIDE DEF U
    <3>1. m - 1 \notin Wrong
      BY <2>1, <2>4
    <3> QED  BY <2>4, <3>1
  <2>6. sum[T] = f[y] + sum[U] /\ f[y] \in Nat
    BY <1>2, <1>3, <2>3
  <2> DEFINE v == sum[U]
  <2> HIDE DEF v
  <2>7. sum[T] = f[y] + v /\ v \in Nat
    BY <2>5, <2>6 DEF v
  <2> QED  BY <2>2, <2>6, <2>7
<1>6. S \in SUBSET S
  OBVIOUS
<1>7. sum[S] \in Nat
  BY <1>4, <1>5, <1>6
<1> QED  BY <1>1, <1>7

-----------------------------------------------------------------------------
\* GasMeter: a price between two limits there were.
GasConstants ==
    /\ \A l \in Limits : l[1] \in Nat /\ l[2] \in Nat /\ l[1] <= l[2]
    /\ NewPrices \subseteq Nat
    /\ \A f \in ContractFunctions : f.inputs \in Nat /\ f.gasLimit \in Nat
    /\ \A d \in Discounts : d.percentage \in 0..100

PriceBetween(price) == \E low \in Limits, high \in Limits : low[1] <= price /\ price <= high[2]

GasInv ==
    /\ limits \in Limits /\ currentGasPrice \in Nat /\ PriceBetween(currentGasPrice)
    /\ gasDiscounts \subseteq Discounts

LEMMA GreaterOfTwo == \A a, b \in Int : TheGasMeter!Max({a, b}) \in {a, b} /\ a <= TheGasMeter!Max({a, b}) /\ b <= TheGasMeter!Max({a, b})
<1> TAKE a, b \in Int
<1>1. \E x \in {a, b} : \A y \in {a, b} : x >= y
  <2>1. CASE a <= b
    BY <2>1
  <2>2. CASE b <= a
    BY <2>2
  <2> QED  BY <2>1, <2>2
<1>2. TheGasMeter!Max({a, b}) \in {a, b} /\ \A y \in {a, b} : TheGasMeter!Max({a, b}) >= y
  BY <1>1 DEF TheGasMeter!Max
<1> QED  BY <1>2

LEMMA LesserOfTwo == \A a, b \in Int : TheGasMeter!Min({a, b}) \in {a, b} /\ TheGasMeter!Min({a, b}) <= a /\ TheGasMeter!Min({a, b}) <= b
<1> TAKE a, b \in Int
<1>1. \E x \in {a, b} : \A y \in {a, b} : x <= y
  <2>1. CASE a <= b
    BY <2>1
  <2>2. CASE b <= a
    BY <2>2
  <2> QED  BY <2>1, <2>2
<1>2. TheGasMeter!Min({a, b}) \in {a, b} /\ \A y \in {a, b} : TheGasMeter!Min({a, b}) <= y
  BY <1>1 DEF TheGasMeter!Min
<1> QED  BY <1>2

LEMMA BestIsPercentage == ASSUME GasConstants, GasInv PROVE TheGasMeter!BestDiscount \in 0..100
<1> DEFINE S == {0} \cup {d.percentage : d \in gasDiscounts}
           T == {n \in Nat : \E x \in S : n = 100 - x}
<1>1. S \subseteq 0..100 /\ S # {}
  BY DEF GasInv, GasConstants
<1> HIDE DEF S
<1>2. T \subseteq Nat /\ T # {}
  <2>1. PICK x \in S : TRUE
    BY <1>1
  <2>2. 100 - x \in Nat
    BY <1>1
  <2> QED  BY <2>1, <2>2
<1>3. PICK n \in T : \A k \in T : n <= k
  <2> HIDE DEF T
  <2> QED  BY <1>2, LeastNatural
<1>4. PICK x \in S : n = 100 - x
  BY <1>3
<1>5. \A y \in S : x >= y
  <2> TAKE y \in S
  <2>1. 100 - y \in T
    BY <1>1
  <2>2. n <= 100 - y
    <3> HIDE DEF T
    <3> QED  BY <1>3, <2>1
  <2> QED  BY <1>1, <1>4, <2>2
<1>6. TheGasMeter!Max(S) \in S
  BY <1>5 DEF TheGasMeter!Max
<1> QED  BY <1>1, <1>6 DEF TheGasMeter!BestDiscount, S

LEMMA ShareOfGas == \A gas \in Nat, share \in 0..100 : gas * share \in Nat /\ gas * share <= 100 * gas
OBVIOUS

LEMMA CostsGrow == \A price, less, more \in Nat : less <= more => less * price \in Nat /\ more * price \in Nat /\ less * price <= more * price
OBVIOUS

LEMMA GasInvSays == ASSUME GasConstants, GasInv PROVE TheGasMeter!PriceIsLimited
<1>1. ASSUME NEW f \in ContractFunctions
      PROVE  /\ TheGasMeter!CalculateGasCost(TheGasMeter!EstimateGas(f), currentGasPrice) \in 0 .. TheGasMeter!CalculateGasCost(TheGasMeter!GasOf(f), currentGasPrice)
             /\ f.gasLimit > 0 => "over the function's limit" \in TheGasMeter!Warnings(f)
  <2> DEFINE plain == 700 + 32 * f.inputs
             most == TheGasMeter!Max({plain, f.gasLimit})
             storage == (IF f.writes THEN 20000 ELSE 200) * f.inputs
             creation == IF f.creates THEN 32000 ELSE 0
  <2>1. f.inputs \in Nat /\ f.gasLimit \in Nat
    BY DEF GasConstants
  <2>2. most \in Nat /\ f.gasLimit <= most
    <3>1. plain \in Int /\ plain \in Nat /\ f.gasLimit \in Int
      BY <2>1
    <3> HIDE DEF plain
    <3>2. most \in {plain, f.gasLimit} /\ f.gasLimit <= most
      BY <3>1, GreaterOfTwo, Zenon
    <3> QED  BY <2>1, <3>1, <3>2
  <2>3. storage \in Nat /\ creation \in Nat
    BY <2>1
  <2>4. TheGasMeter!GasOf(f) = 21000 + most + storage + creation
    BY DEF TheGasMeter!GasOf
  <2> HIDE DEF plain, most, storage, creation
  <2>5. TheGasMeter!GasOf(f) \in Nat /\ TheGasMeter!GasOf(f) > f.gasLimit
    BY <2>1, <2>2, <2>3, <2>4
  <2>6. 100 - TheGasMeter!BestDiscount \in 0..100
    BY BestIsPercentage
  <2> DEFINE weighed == TheGasMeter!GasOf(f) * (100 - TheGasMeter!BestDiscount)
  <2>7. weighed \in Nat /\ weighed <= 100 * TheGasMeter!GasOf(f)
    BY <2>5, <2>6, ShareOfGas
  <2>8. TheGasMeter!EstimateGas(f) = (weighed + 50) \div 100
    BY DEF TheGasMeter!EstimateGas
  <2> HIDE DEF weighed
  <2>9. TheGasMeter!EstimateGas(f) \in Nat /\ TheGasMeter!EstimateGas(f) <= TheGasMeter!GasOf(f)
    BY <2>5, <2>7, <2>8
  <2>10. TheGasMeter!CalculateGasCost(TheGasMeter!EstimateGas(f), currentGasPrice) \in 0 .. TheGasMeter!CalculateGasCost(TheGasMeter!GasOf(f), currentGasPrice)
    <3>1. currentGasPrice \in Nat
      BY DEF GasInv
    <3>2. /\ TheGasMeter!EstimateGas(f) * currentGasPrice \in Nat /\ TheGasMeter!GasOf(f) * currentGasPrice \in Nat
          /\ TheGasMeter!EstimateGas(f) * currentGasPrice <= TheGasMeter!GasOf(f) * currentGasPrice
      BY <2>5, <2>9, <3>1, CostsGrow
    <3> QED  BY <3>2 DEF TheGasMeter!CalculateGasCost
  <2>11. f.gasLimit > 0 => "over the function's limit" \in TheGasMeter!Warnings(f)
    BY <2>5 DEF TheGasMeter!Warnings
  <2> QED  BY <2>10, <2>11
<1> QED  BY <1>1 DEF TheGasMeter!PriceIsLimited, GasInv, PriceBetween

\* A price between the current one and a limit of now is between two limits too.
LEMMA PriceMoves ==
    ASSUME GasConstants, GasInv, NEW price \in Nat,
           \/ price = currentGasPrice
           \/ currentGasPrice <= price /\ price <= limits[2]
           \/ limits[1] <= price /\ price <= currentGasPrice
           \/ limits[1] <= price /\ price <= limits[2]
    PROVE  PriceBetween(price)
<1>1. PICK low \in Limits, high \in Limits : low[1] <= currentGasPrice /\ currentGasPrice <= high[2]
  BY DEF GasInv, PriceBetween
<1>2. limits \in Limits /\ currentGasPrice \in Nat
  BY DEF GasInv
<1>3. \A l \in Limits : l[1] \in Nat /\ l[2] \in Nat
  BY DEF GasConstants
<1>4. CASE price = currentGasPrice
  BY <1>1, <1>4 DEF PriceBetween
<1>5. CASE currentGasPrice <= price /\ price <= limits[2]
  <2>1. low[1] <= price /\ price <= limits[2]
    BY <1>1, <1>2, <1>3, <1>5
  <2> QED  BY <1>2, <2>1 DEF PriceBetween
<1>6. CASE limits[1] <= price /\ price <= currentGasPrice
  <2>1. limits[1] <= price /\ price <= high[2]
    BY <1>1, <1>2, <1>3, <1>6
  <2> QED  BY <1>2, <2>1 DEF PriceBetween
<1>7. CASE limits[1] <= price /\ price <= limits[2]
  BY <1>2, <1>7 DEF PriceBetween
<1> QED  BY <1>4, <1>5, <1>6, <1>7

LEMMA GasInit == ASSUME GasConstants PROVE TheGasMeter!Init => GasInv
<1> SUFFICES ASSUME TheGasMeter!Init PROVE GasInv
  OBVIOUS
<1>1. limits \in Limits /\ currentGasPrice = limits[1] /\ gasDiscounts = {}
  BY DEF TheGasMeter!Init
<1>2. limits[1] \in Nat /\ limits[2] \in Nat /\ limits[1] <= limits[2]
  BY <1>1 DEF GasConstants
<1>3. currentGasPrice \in Nat /\ limits[1] <= currentGasPrice /\ currentGasPrice <= limits[2]
  BY <1>1, <1>2
<1> QED  BY <1>1, <1>3 DEF GasInv, PriceBetween

LEMMA GasStep == ASSUME GasConstants, GasInv, [TheGasMeter!Next]_TheGasMeter!gasVars PROVE GasInv'
<1>0. /\ limits \in Limits /\ currentGasPrice \in Nat /\ gasDiscounts \subseteq Discounts
      /\ limits[1] \in Nat /\ limits[2] \in Nat /\ limits[1] <= limits[2]
  BY DEF GasInv, GasConstants
<1>1. ASSUME UNCHANGED currentGasPrice, limits' \in Limits, gasDiscounts' \subseteq Discounts PROVE GasInv'
  BY <1>1 DEF GasInv, PriceBetween
<1>2. ASSUME NEW tx, NEW gas, NEW price, TheGasMeter!RecordGasUsage(tx, gas, price) PROVE GasInv'
  BY <1>0, <1>1, <1>2 DEF TheGasMeter!RecordGasUsage
<1>3. CASE TheGasMeter!UpdateGasPrice
  <2>1. UNCHANGED <<limits, gasDiscounts>>
    BY <1>3 DEF TheGasMeter!UpdateGasPrice
  <2> DEFINE up == (currentGasPrice * 21) \div 20
             down == (currentGasPrice * 19) \div 20
  <2>2. up \in Nat /\ currentGasPrice <= up /\ down \in Nat /\ down <= currentGasPrice
    BY <1>0
  <2>3. up \in Int /\ down \in Int /\ limits[1] \in Int /\ limits[2] \in Int
    BY <1>0, <2>2
  <2>4. \/ currentGasPrice' = TheGasMeter!Min({up, limits[2]})
        \/ currentGasPrice' = TheGasMeter!Max({down, limits[1]})
        \/ currentGasPrice' = currentGasPrice
    BY <1>3 DEF TheGasMeter!UpdateGasPrice
  <2> HIDE DEF up, down
  <2>5. currentGasPrice' \in Nat /\ PriceBetween(currentGasPrice')
    <3>1. CASE currentGasPrice' = TheGasMeter!Min({up, limits[2]})
      <4>1. currentGasPrice' \in {up, limits[2]} /\ currentGasPrice' <= limits[2]
        BY <2>3, <3>1, LesserOfTwo, Zenon
      <4>2. /\ currentGasPrice' \in Nat
            /\ \/ currentGasPrice <= currentGasPrice' /\ currentGasPrice' <= limits[2]
               \/ limits[1] <= currentGasPrice' /\ currentGasPrice' <= limits[2]
        BY <1>0, <2>2, <4>1
      <4> QED  BY <4>2, PriceMoves
    <3>2. CASE currentGasPrice' = TheGasMeter!Max({down, limits[1]})
      <4>1. currentGasPrice' \in {down, limits[1]} /\ limits[1] <= currentGasPrice'
        BY <2>3, <3>2, GreaterOfTwo, Zenon
      <4>2. /\ currentGasPrice' \in Nat
            /\ \/ limits[1] <= currentGasPrice' /\ currentGasPrice' <= currentGasPrice
               \/ limits[1] <= currentGasPrice' /\ currentGasPrice' <= limits[2]
        BY <1>0, <2>2, <4>1
      <4> QED  BY <4>2, PriceMoves
    <3>3. CASE currentGasPrice' = currentGasPrice
      BY <1>0, <3>3, PriceMoves
    <3> QED  BY <2>4, <3>1, <3>2, <3>3
  <2>6. PriceBetween(currentGasPrice)'
    BY <2>5 DEF PriceBetween
  <2> QED  BY <1>0, <2>1, <2>5, <2>6 DEF GasInv
<1>4. ASSUME NEW price \in NewPrices, TheGasMeter!SetGasPrice(price) PROVE GasInv'
  <2>1. /\ limits[1] <= price /\ price <= limits[2] /\ currentGasPrice' = price
        /\ UNCHANGED <<limits, gasDiscounts>>
    BY <1>4 DEF TheGasMeter!SetGasPrice
  <2>2. price \in Nat
    BY DEF GasConstants
  <2>3. PriceBetween(currentGasPrice)'
    BY <1>0, <2>1 DEF PriceBetween
  <2> QED  BY <1>0, <2>1, <2>2, <2>3 DEF GasInv
<1>5. ASSUME NEW discount \in Discounts, TheGasMeter!AddGasDiscount(discount) \/ TheGasMeter!RemoveGasDiscount(discount.condition) PROVE GasInv'
  BY <1>0, <1>1, <1>5 DEF TheGasMeter!AddGasDiscount, TheGasMeter!RemoveGasDiscount
<1>6. ASSUME NEW newLimits \in Limits, NEW refunds, TheGasMeter!UpdateConfig(newLimits, refunds) PROVE GasInv'
  BY <1>0, <1>1, <1>6 DEF TheGasMeter!UpdateConfig
<1>7. CASE TheGasMeter!ClearHistory
  BY <1>0, <1>1, <1>7 DEF TheGasMeter!ClearHistory
<1>8. CASE UNCHANGED TheGasMeter!gasVars
  BY <1>0, <1>1, <1>8 DEF TheGasMeter!gasVars
<1> QED  BY <1>2, <1>3, <1>4, <1>5, <1>6, <1>7, <1>8 DEF TheGasMeter!Next

\* What was used, of each transaction something, and the refunds of it.
UsageConstants ==
    /\ GasAmounts \subseteq Nat \ {0} /\ GasLimit \in Nat /\ HistoryLimit \in Nat

UsageRecord == [tx : Transactions, gas : GasAmounts, price : Prices, refunded : BOOLEAN]

UsageInv ==
    /\ gasRefundEnabled \in BOOLEAN
    /\ gasUsageHistory \in Seq(UsageRecord) /\ Len(gasUsageHistory) <= HistoryLimit
    /\ TheGasMeter!IsMap(gasRefunds, Transactions, Nat)
    /\ TheGasMeter!RefundIsOfLastRecord

LEMMA RefundIsHalf ==
    ASSUME UsageConstants, NEW gas \in GasAmounts, gas < GasLimit
    PROVE  TheGasMeter!RefundOf(gas) \in Nat /\ 2 * TheGasMeter!RefundOf(gas) <= GasLimit
<1> DEFINE x == GasLimit - gas
<1>1. x \in Nat /\ x <= GasLimit - 1 /\ GasLimit \in Nat
  BY DEF UsageConstants
<1>2. TheGasMeter!RefundOf(gas) = (x * 50 + 50) \div 100
  BY DEF TheGasMeter!RefundOf
<1> HIDE DEF x
<1>3. (x * 50 + 50) \div 100 \in Nat /\ 2 * ((x * 50 + 50) \div 100) <= x + 1
  BY <1>1
<1> QED  BY <1>1, <1>2, <1>3

LEMMA EndFrom ==
    ASSUME NEW T, NEW s \in Seq(T), NEW m \in 1..(Len(s) + 1)
    PROVE  /\ SubSeq(s, m, Len(s)) \in Seq(T) /\ Len(SubSeq(s, m, Len(s))) = Len(s) - m + 1
           /\ \A i \in 1..(Len(s) - m + 1) : SubSeq(s, m, Len(s))[i] = s[m + i - 1]
<1> DEFINE L == Len(s)
           r == SubSeq(s, m, L)
<1>1. L \in Nat /\ m \in 1..(L + 1) /\ \A i \in 1..L : s[i] \in T
  BY LenProperties, ElementOfSeq
<1> HIDE DEF L
<1>2. m \in Int /\ L \in Int /\ \A i \in m..L : s[i] \in T
  BY <1>1
<1>3. r \in Seq(T) /\ Len(r) = (IF m <= L THEN L - m + 1 ELSE 0) /\ \A i \in 1..(L - m + 1) : r[i] = s[m + i - 1]
  BY <1>2, SubSeqProperties
<1> HIDE DEF r
<1>4. Len(r) = L - m + 1
  BY <1>1, <1>3
<1> QED  BY <1>3, <1>4 DEF r, L

\* What a record leaves of a history: its end, and the record.
LEMMA RecordedHistory ==
    ASSUME NEW R, NEW h \in Seq(R), NEW r \in R, NEW limit \in Nat, Len(h) <= limit, NEW d \in {0, 1}, Len(h) = limit => d = 1
    PROVE  LET new == SubSeq(Append(h, r), 1 + d, Len(Append(h, r)))
           IN  /\ new \in Seq(R) /\ Len(new) <= limit /\ DOMAIN new = 1..(Len(h) + 1 - d)
               /\ \A i \in DOMAIN new : /\ i + d <= Len(h) => new[i] = h[i + d]
                                        /\ i + d = Len(h) + 1 => new[i] = r
<1> DEFINE n == Len(h)
           all == Append(h, r)
           new == SubSeq(all, 1 + d, Len(all))
<1>1. all \in Seq(R) /\ Len(all) = n + 1 /\ all[n + 1] = r /\ \A i \in 1..n : all[i] = h[i]
  BY AppendProperties
<1>2. n \in Nat /\ n <= limit /\ (n = limit => d = 1)
  BY LenProperties
<1> HIDE DEF all, n
<1>3. 1 + d \in 1..(Len(all) + 1)
  BY <1>1, <1>2
<1>4. /\ new \in Seq(R) /\ Len(new) = Len(all) - (1 + d) + 1
      /\ \A i \in 1..(Len(all) - (1 + d) + 1) : new[i] = all[1 + d + i - 1]
  BY <1>1, <1>3, EndFrom
<1> HIDE DEF new
<1>5. Len(new) = n + 1 - d
  BY <1>1, <1>2, <1>4
<1>6. DOMAIN new = 1..(n + 1 - d)
  BY <1>4, <1>5, LenProperties
<1>7. Len(new) <= limit
  BY <1>2, <1>5
<1>8. ASSUME NEW i \in DOMAIN new PROVE /\ i + d <= n => new[i] = h[i + d]
                                        /\ i + d = n + 1 => new[i] = r
  <2>1. i \in 1..(n + 1 - d) /\ Len(all) - (1 + d) + 1 = n + 1 - d /\ 1 + d + i - 1 = i + d
    BY <1>1, <1>2, <1>6
  <2>2. new[i] = all[i + d]
    BY <1>4, <2>1
  <2> QED  BY <1>1, <1>2, <2>1, <2>2
<1> QED  BY <1>4, <1>6, <1>7, <1>8 DEF new, all, n

LEMMA UsageInit == ASSUME UsageConstants PROVE TheGasMeter!Init => UsageInv
<1> SUFFICES ASSUME TheGasMeter!Init PROVE UsageInv
  OBVIOUS
<1>1. gasUsageHistory = <<>> /\ DOMAIN gasRefunds = {} /\ gasRefundEnabled = TRUE
  BY DEF TheGasMeter!Init, TheGasMeter!Empty
<1>2. gasUsageHistory \in Seq(UsageRecord) /\ Len(gasUsageHistory) = 0 /\ DOMAIN gasUsageHistory = {}
  BY <1>1, EmptySeq
<1> QED  BY <1>1, <1>2 DEF UsageConstants, UsageInv, TheGasMeter!IsMap, TheGasMeter!RefundIsOfLastRecord

LEMMA RecordKeeps ==
    ASSUME UsageConstants, UsageInv, NEW tx \in Transactions, NEW gas \in GasAmounts, NEW price \in Prices,
           TheGasMeter!RecordGasUsage(tx, gas, price)
    PROVE  UsageInv'
<1> DEFINE refunded == gasRefundEnabled /\ gas < GasLimit
           r == [tx |-> tx, gas |-> gas, price |-> price, refunded |-> refunded]
           h == gasUsageHistory
           new == gasUsageHistory'
           all == Append(h, r)
<1>1. gasRefundEnabled \in BOOLEAN /\ gasRefundEnabled' \in BOOLEAN
  BY DEF UsageInv, TheGasMeter!RecordGasUsage
<1>2. refunded \in BOOLEAN /\ r.tx = tx /\ r.gas = gas /\ r.refunded = refunded
  BY <1>1
<1>3. r \in UsageRecord
  BY <1>2 DEF UsageRecord
<1>4. PICK d \in {0, 1} : new = SubSeq(all, 1 + d, Len(all)) /\ (Len(h) = HistoryLimit => d = 1)
  <2> DEFINE first == IF Len(all) > HistoryLimit THEN 2 ELSE 1
  <2>1. new = SubSeq(all, first, Len(all))
    BY DEF TheGasMeter!RecordGasUsage
  <2>2. Len(all) = Len(h) + 1 /\ Len(h) \in Nat /\ HistoryLimit \in Nat
    BY <1>3, AppendProperties, LenProperties DEF UsageInv, UsageConstants
  <2> HIDE DEF all, new, h
  <2>3. CASE Len(all) > HistoryLimit
    BY <2>1, <2>3, 1 + 1 = 2
  <2>4. CASE ~(Len(all) > HistoryLimit)
    <3>1. Len(h) # HistoryLimit
      BY <2>2, <2>4
    <3> QED  BY <2>1, <2>4, <3>1, 1 + 0 = 1
  <2> QED  BY <2>3, <2>4
<1>5. gasRefunds' = IF refunded THEN TheGasMeter!Put(gasRefunds, tx, TheGasMeter!RefundOf(gas)) ELSE gasRefunds
  BY DEF TheGasMeter!RecordGasUsage
<1>6. h \in Seq(UsageRecord) /\ Len(h) <= HistoryLimit /\ HistoryLimit \in Nat
  BY DEF UsageInv, UsageConstants
<1>7. Len(h) \in Nat /\ DOMAIN h = 1..Len(h)
  BY <1>6, LenProperties
<1>8. refunded => TheGasMeter!RefundOf(gas) \in Nat /\ 2 * TheGasMeter!RefundOf(gas) <= GasLimit
  BY RefundIsHalf
<1>9. /\ DOMAIN gasRefunds' = IF refunded THEN DOMAIN gasRefunds \cup {tx} ELSE DOMAIN gasRefunds
      /\ \A t \in DOMAIN gasRefunds' : gasRefunds'[t] = IF refunded /\ t = tx THEN TheGasMeter!RefundOf(gas) ELSE gasRefunds[t]
  BY <1>5 DEF TheGasMeter!Put
<1> HIDE DEF refunded, r
<1>10. /\ new \in Seq(UsageRecord) /\ Len(new) <= HistoryLimit /\ DOMAIN new = 1..(Len(h) + 1 - d)
       /\ \A i \in DOMAIN new : /\ i + d <= Len(h) => new[i] = h[i + d]
                                /\ i + d = Len(h) + 1 => new[i] = r
  <2> HIDE DEF h, new
  <2>1. LET last == SubSeq(Append(h, r), 1 + d, Len(Append(h, r)))
        IN  /\ last \in Seq(UsageRecord) /\ Len(last) <= HistoryLimit /\ DOMAIN last = 1..(Len(h) + 1 - d)
            /\ \A i \in DOMAIN last : /\ i + d <= Len(h) => last[i] = h[i + d]
                                      /\ i + d = Len(h) + 1 => last[i] = r
    BY <1>3, <1>4, <1>6, RecordedHistory
  <2> QED  BY <1>4, <2>1
<1>11. \A i \in DOMAIN new :
             /\ i + d \in 1..(Len(h) + 1) /\ (i + d <= Len(h) => new[i] = h[i + d])
             /\ i + d = Len(h) + 1 => new[i] = r
             /\ \A j \in DOMAIN h : j >= i + d => j - d \in DOMAIN new
             /\ Len(h) + 1 - d \in DOMAIN new
  <2> HIDE DEF h, new
  <2> QED  BY <1>7, <1>10
<1>12. DOMAIN new \subseteq Int
  BY <1>10, LenProperties
<1>13. TheGasMeter!IsMap(gasRefunds', Transactions, Nat) /\ \A t \in DOMAIN gasRefunds' : 2 * gasRefunds'[t] <= GasLimit
  BY <1>8, <1>9 DEF UsageInv, TheGasMeter!IsMap, TheGasMeter!RefundIsOfLastRecord
<1>14. ASSUME NEW i \in DOMAIN new, new[i].refunded,
              \A j \in DOMAIN new : new[j].refunded /\ new[j].tx = new[i].tx => j <= i
       PROVE  new[i].tx \in DOMAIN gasRefunds' /\ gasRefunds'[new[i].tx] = TheGasMeter!RefundOf(new[i].gas)
  <2>1. /\ i + d \in 1..(Len(h) + 1) /\ i \in Int /\ d \in Int
        /\ i + d <= Len(h) => new[i] = h[i + d]
        /\ i + d = Len(h) + 1 => new[i] = r
        /\ \A j \in DOMAIN h : j >= i + d => j - d \in DOMAIN new
        /\ Len(h) + 1 - d \in DOMAIN new
    BY <1>11, <1>12
  <2>2. CASE i + d = Len(h) + 1
    <3>1. new[i] = r
      BY <2>1, <2>2
    <3> QED  BY <1>2, <1>9, <1>14, <3>1
  <2>3. CASE i + d # Len(h) + 1
    <3>1. i + d \in DOMAIN h /\ new[i] = h[i + d]
      BY <1>7, <2>1, <2>3
    <3>2. ~(refunded /\ tx = new[i].tx)
      <4> SUFFICES ASSUME refunded, tx = new[i].tx PROVE FALSE
        OBVIOUS
      <4> DEFINE k == Len(h) + 1 - d
      <4>1. k \in DOMAIN new /\ k \in Int /\ k + d = Len(h) + 1 /\ k > i
        BY <1>7, <2>1, <2>3
      <4> HIDE DEF k
      <4>2. new[k] = r
        BY <1>11, <4>1
      <4>3. new[k].refunded /\ new[k].tx = new[i].tx
        BY <1>2, <4>2
      <4>4. k <= i
        BY <1>14, <4>1, <4>3
      <4> QED  BY <2>1, <4>1, <4>4
    <3>3. ASSUME NEW j \in DOMAIN h, h[j].refunded, h[j].tx = h[i + d].tx PROVE j <= i + d
      <4> SUFFICES ASSUME ~(j <= i + d) PROVE FALSE
        OBVIOUS
      <4>1. j \in Int /\ j > i + d
        BY <1>7, <2>1
      <4>2. j - d \in DOMAIN new
        BY <2>1, <4>1
      <4>3. j - d + d = j /\ j <= Len(h)
        BY <1>7, <2>1, <4>1
      <4>4. new[j - d] = h[j]
        BY <1>11, <4>2, <4>3
      <4>5. j - d <= i
        BY <1>14, <3>1, <3>3, <4>2, <4>4
      <4> QED  BY <2>1, <4>1, <4>5
    <3>4. h[i + d].tx \in DOMAIN gasRefunds /\ gasRefunds[h[i + d].tx] = TheGasMeter!RefundOf(h[i + d].gas)
      <4>1. h[i + d].refunded
        BY <1>14, <3>1
      <4> QED  BY <3>1, <3>3, <4>1 DEF UsageInv, TheGasMeter!RefundIsOfLastRecord
    <3> QED  BY <1>9, <3>1, <3>2, <3>4
  <2> QED  BY <2>2, <2>3
<1>15. TheGasMeter!RefundIsOfLastRecord'
  BY <1>13, <1>14 DEF TheGasMeter!RefundIsOfLastRecord, TheGasMeter!RefundOf
<1> QED  BY <1>1, <1>10, <1>13, <1>15 DEF UsageInv

LEMMA UsageStep == ASSUME UsageConstants, UsageInv, [TheGasMeter!Next]_TheGasMeter!gasVars PROVE UsageInv'
<1>1. ASSUME UNCHANGED <<gasUsageHistory, gasRefunds>>, gasRefundEnabled' \in BOOLEAN PROVE UsageInv'
  BY <1>1 DEF UsageInv, TheGasMeter!RefundIsOfLastRecord, TheGasMeter!RefundOf
<1>2. gasRefundEnabled \in BOOLEAN
  BY DEF UsageInv
<1>3. ASSUME NEW tx \in Transactions, NEW gas \in GasAmounts, NEW price \in Prices, TheGasMeter!RecordGasUsage(tx, gas, price) PROVE UsageInv'
  BY <1>3, RecordKeeps
<1>4. CASE TheGasMeter!UpdateGasPrice
  BY <1>1, <1>2, <1>4 DEF TheGasMeter!UpdateGasPrice
<1>5. ASSUME NEW price, TheGasMeter!SetGasPrice(price) PROVE UsageInv'
  BY <1>1, <1>2, <1>5 DEF TheGasMeter!SetGasPrice
<1>6. ASSUME NEW discount, TheGasMeter!AddGasDiscount(discount) \/ TheGasMeter!RemoveGasDiscount(discount.condition) PROVE UsageInv'
  BY <1>1, <1>2, <1>6 DEF TheGasMeter!AddGasDiscount, TheGasMeter!RemoveGasDiscount
<1>7. ASSUME NEW newLimits, NEW refunds \in BOOLEAN, TheGasMeter!UpdateConfig(newLimits, refunds) PROVE UsageInv'
  BY <1>1, <1>7 DEF TheGasMeter!UpdateConfig
<1>8. CASE TheGasMeter!ClearHistory
  <2>1. gasUsageHistory' = <<>> /\ DOMAIN gasRefunds' = {} /\ UNCHANGED gasRefundEnabled
    BY <1>8 DEF TheGasMeter!ClearHistory, TheGasMeter!Empty
  <2>2. gasUsageHistory' \in Seq(UsageRecord) /\ Len(gasUsageHistory') = 0 /\ DOMAIN gasUsageHistory' = {}
    BY <2>1, EmptySeq
  <2>3. TheGasMeter!RefundIsOfLastRecord'
    BY <2>1, <2>2 DEF TheGasMeter!RefundIsOfLastRecord
  <2> QED  BY <1>2, <2>1, <2>2, <2>3 DEF UsageConstants, UsageInv, TheGasMeter!IsMap
<1>9. CASE UNCHANGED TheGasMeter!gasVars
  BY <1>1, <1>2, <1>9 DEF TheGasMeter!gasVars
<1> QED  BY <1>3, <1>4, <1>5, <1>6, <1>7, <1>8, <1>9 DEF TheGasMeter!Next

LEMMA UsageInvSays == ASSUME GasInv, UsageInv PROVE TheGasMeter!TypeOK /\ TheGasMeter!RefundIsOfLastRecord
<1>1. \A i \in DOMAIN gasUsageHistory : gasUsageHistory[i] \in UsageRecord
  BY LenProperties, ElementOfSeq DEF UsageInv
<1> QED  BY <1>1 DEF GasInv, UsageInv, TheGasMeter!TypeOK, UsageRecord

-----------------------------------------------------------------------------
\* SecureFinancialLedger.  What is on the chain's list is there by number, once each;
\* the record of a completion is made of a transaction that is COMPLETED and stays so,
\* because no reversal is accepted.
LEMMA FinancialLedgerCardinality == \A S : TheFinancialLedger!Cardinality(S) = Cardinality(S)
BY DEF Cardinality, TheFinancialLedger!Cardinality

FinancialConstants == MaxFinancial \in Nat /\ \A tx \in FinancialTransactions : tx.amount \in Int

FinTxType ==
    [tx : {tx \in FinancialTransactions : tx.amount > 0}, status : {"HELD", "PROCESSING", "COMPLETED", "FAILED", "REVERSED"},
     method : {"swift", "rtgs", "ach", "crypto", "none"},
     at : {"TRANSACTION_HELD", "SETTLEMENT_INITIATED", "TRANSACTION_COMPLETED", "TRANSACTION_FAILED", "maps"}]
\* Where a transaction waits goes with its status.
Consistent(f) ==
    /\ f.at = "TRANSACTION_HELD" => f.status = "HELD"
    /\ f.at \in {"SETTLEMENT_INITIATED", "TRANSACTION_FAILED"} => f.status # "HELD"
    /\ f.at = "TRANSACTION_COMPLETED" => f.status = "COMPLETED"

FinEvents == {"TRANSACTION_HELD", "SETTLEMENT_INITIATED", "TRANSACTION_COMPLETED", "TRANSACTION_FAILED"}

ChainTyped == TheFinancialLedger!ChainTypeOK(Int) /\ \A t \in DOMAIN pendingTransactions : pendingTransactions[t] \in 0..submitted
FinTyped ==
    /\ submitted \in 0..MaxFinancial
    /\ TheFinancialLedger!IsMap(finTxs, 1..submitted, FinTxType) /\ \A id \in DOMAIN finTxs : Consistent(finTxs[id])
    /\ finAudit \subseteq FinEvents \X (-submitted..submitted)
OnLedgerOnce == \A id \in DOMAIN finTxs : TheFinancialLedger!TimesOnLedger(id) = IF finTxs[id].status = "HELD" THEN 0 ELSE 1
CompletedOnRecord ==
    \A id \in DOMAIN finTxs : <<"TRANSACTION_COMPLETED", id>> \in finAudit => finTxs[id].status = "COMPLETED" /\ finTxs[id].at = "maps"

FinancialInv == ChainTyped /\ FinTyped /\ OnLedgerOnce /\ CompletedOnRecord

\* A record added to the trail.
LEMMA TrailGrows ==
    ASSUME NEW A, NEW T, T \subseteq FinEvents \X A, NEW e \in FinEvents, NEW x \in A
    PROVE  T \cup {<<e, x>>} \subseteq FinEvents \X A
OBVIOUS

\* The chain's list when it is empty.
LEMMA NothingPending == <<>> \in Seq(Int \cup {TheFinancialLedger!Reward}) /\ DOMAIN <<>> = {}
OBVIOUS

LEMMA FinancialInit == ASSUME FinancialConstants PROVE TheFinancialLedger!Init => FinancialInv
<1> SUFFICES ASSUME TheFinancialLedger!Init PROVE FinancialInv
  OBVIOUS
<1>1. genesis = "none" /\ pendingTransactions = <<>> /\ mining = FALSE /\ submitted = 0 /\ DOMAIN finTxs = {} /\ finAudit = {}
  BY DEF TheFinancialLedger!Init, TheFinancialLedger!BlockchainInit, TheFinancialLedger!Empty
<1>2. ChainTyped
  BY <1>1, NothingPending DEF ChainTyped, TheFinancialLedger!ChainTypeOK
<1>3. FinTyped
  BY <1>1 DEF FinTyped, TheFinancialLedger!IsMap, FinancialConstants
<1> QED  BY <1>1, <1>2, <1>3 DEF FinancialInv, OnLedgerOnce, CompletedOnRecord

\* A number added to the list is there once more, every other as often as before.
LEMMA TimesAppended ==
    ASSUME pendingTransactions \in Seq(Int), NEW n \in Int, pendingTransactions' = Append(pendingTransactions, n)
    PROVE  /\ pendingTransactions' \in Seq(Int)
           /\ DOMAIN pendingTransactions' = 1..(Len(pendingTransactions) + 1)
           /\ pendingTransactions'[Len(pendingTransactions) + 1] = n
           /\ \A t \in DOMAIN pendingTransactions : pendingTransactions'[t] = pendingTransactions[t]
           /\ \A id : TheFinancialLedger!TimesOnLedger(id)' = IF id = n THEN TheFinancialLedger!TimesOnLedger(id) + 1 ELSE TheFinancialLedger!TimesOnLedger(id)
<1> DEFINE N == Len(pendingTransactions)
           Places(id) == {t \in DOMAIN pendingTransactions : pendingTransactions[t] = id}
           After(id) == {t \in DOMAIN pendingTransactions' : pendingTransactions'[t] = id}
<1>1. /\ N \in Nat /\ DOMAIN pendingTransactions = 1..N /\ pendingTransactions' \in Seq(Int)
      /\ DOMAIN pendingTransactions' = 1..(N + 1) /\ pendingTransactions'[N + 1] = n
      /\ \A t \in 1..N : pendingTransactions'[t] = pendingTransactions[t]
  BY AppendProperties, LenProperties
<1> HIDE DEF N
<1>2. \A t : t \in 1..(N + 1) <=> t \in 1..N \/ t = N + 1
  BY <1>1
<1>3. N + 1 \notin 1..N
  BY <1>1
<1>4. \A id : After(id) = (IF id = n THEN Places(id) \cup {N + 1} ELSE Places(id)) /\ N + 1 \notin Places(id)
  BY <1>1, <1>2, <1>3
<1>5. ASSUME NEW id PROVE IsFiniteSet(Places(id))
  <2>1. IsFiniteSet(1..N)
    BY <1>1, FS_Interval
  <2> QED  BY <1>1, <2>1, FS_Subset
<1>6. \A id : TheFinancialLedger!TimesOnLedger(id) = Cardinality(Places(id)) /\ TheFinancialLedger!TimesOnLedger(id)' = Cardinality(After(id))
  BY FinancialLedgerCardinality DEF TheFinancialLedger!TimesOnLedger
<1> HIDE DEF Places, After
<1>7. ASSUME NEW id PROVE Cardinality(After(id)) = IF id = n THEN Cardinality(Places(id)) + 1 ELSE Cardinality(Places(id))
  BY <1>4, <1>5, FS_AddElement
<1> QED  BY <1>1, <1>6, <1>7 DEF N

\* A number that is not on the list is there no time.
LEMMA NotOnLedger ==
    ASSUME NEW id, \A t \in DOMAIN pendingTransactions : pendingTransactions[t] # id
    PROVE  TheFinancialLedger!TimesOnLedger(id) = 0
<1>1. {t \in DOMAIN pendingTransactions : pendingTransactions[t] = id} = {}
  OBVIOUS
<1> QED  BY <1>1, FS_EmptySet, FinancialLedgerCardinality DEF TheFinancialLedger!TimesOnLedger

LEMMA MethodIs == ASSUME FinancialConstants, NEW tx \in FinancialTransactions PROVE TheFinancialLedger!SettlementMethod(tx) \in {"swift", "rtgs", "ach", "crypto", "none"}
BY DEF TheFinancialLedger!SettlementMethod

\* One transaction of the list goes on with the same status on the ledger.
LEMMA GoesOn ==
    ASSUME FinancialConstants, FinancialInv, NEW id \in DOMAIN finTxs, NEW f \in FinTxType, Consistent(f),
           finTxs' = [finTxs EXCEPT ![id] = f], f.status = "HELD" <=> finTxs[id].status = "HELD",
           UNCHANGED <<genesis, pendingTransactions, mining, submitted>>,
           NEW new \in FinEvents, finAudit' = finAudit \/ finAudit' = finAudit \cup {<<new, id>>},
           <<"TRANSACTION_COMPLETED", id>> \in finAudit' => f.status = "COMPLETED" /\ f.at = "maps"
    PROVE  FinancialInv'
<1>0. ChainTyped /\ FinTyped /\ OnLedgerOnce /\ CompletedOnRecord
  BY DEF FinancialInv
<1>1. DOMAIN finTxs' = DOMAIN finTxs /\ \A j \in DOMAIN finTxs : finTxs'[j] = IF j = id THEN f ELSE finTxs[j]
  OBVIOUS
<1>2. ChainTyped'
  BY <1>0 DEF ChainTyped, TheFinancialLedger!ChainTypeOK
<1>3. submitted \in Nat /\ DOMAIN finTxs \subseteq 1..submitted
  BY <1>0 DEF FinTyped, TheFinancialLedger!IsMap, FinancialConstants
<1>4. id \in -submitted..submitted
  BY <1>3
<1>5. finAudit' \subseteq FinEvents \X (-submitted..submitted)
  <2> DEFINE A == -submitted..submitted
  <2>1. finAudit \subseteq FinEvents \X A /\ id \in A
    BY <1>0, <1>4 DEF FinTyped
  <2> HIDE DEF A
  <2>2. finAudit' \subseteq FinEvents \X A
    BY <2>1, TrailGrows
  <2> QED  BY <2>2 DEF A
<1>6. TheFinancialLedger!IsMap(finTxs', 1..submitted, FinTxType)
  BY <1>0, <1>1 DEF FinTyped, TheFinancialLedger!IsMap
<1>7. \A j \in DOMAIN finTxs' : Consistent(finTxs'[j])
  BY <1>0, <1>1 DEF FinTyped
<1>8. FinTyped'
  BY <1>0, <1>5, <1>6, <1>7 DEF FinTyped, TheFinancialLedger!IsMap, FinTxType, Consistent
<1>9. OnLedgerOnce'
  BY <1>0, <1>1, FinancialLedgerCardinality DEF OnLedgerOnce, TheFinancialLedger!TimesOnLedger
<1>10. CompletedOnRecord'
  BY <1>0, <1>1 DEF CompletedOnRecord
<1> QED  BY <1>2, <1>8, <1>9, <1>10 DEF FinancialInv

\* Transactions forgotten by the maps.
LEMMA Forgotten ==
    ASSUME FinancialConstants, FinancialInv, NEW gone, finTxs' = TheFinancialLedger!Drop(finTxs, gone),
           UNCHANGED <<genesis, pendingTransactions, mining, submitted>>,
           NEW id \in DOMAIN finTxs, finAudit' = finAudit \/ finAudit' = finAudit \cup {<<"TRANSACTION_FAILED", id>>}
    PROVE  FinancialInv'
<1>0. ChainTyped /\ FinTyped /\ OnLedgerOnce /\ CompletedOnRecord
  BY DEF FinancialInv
<1>1. DOMAIN finTxs' \subseteq DOMAIN finTxs /\ \A j \in DOMAIN finTxs' : finTxs'[j] = finTxs[j]
  BY DEF TheFinancialLedger!Drop
<1>2. ChainTyped'
  BY <1>0 DEF ChainTyped, TheFinancialLedger!ChainTypeOK
<1>3. submitted \in Nat /\ DOMAIN finTxs \subseteq 1..submitted
  BY <1>0 DEF FinTyped, TheFinancialLedger!IsMap, FinancialConstants
<1>4. id \in -submitted..submitted
  BY <1>3
<1>5. finAudit' \subseteq FinEvents \X (-submitted..submitted)
  <2> DEFINE A == -submitted..submitted
  <2>1. finAudit \subseteq FinEvents \X A /\ id \in A
    BY <1>0, <1>4 DEF FinTyped
  <2> HIDE DEF A
  <2>2. finAudit' \subseteq FinEvents \X A
    BY <2>1, TrailGrows DEF FinEvents
  <2> QED  BY <2>2 DEF A
<1>6. FinTyped'
  BY <1>0, <1>1, <1>5 DEF FinTyped, TheFinancialLedger!IsMap, FinTxType, Consistent
<1>7. OnLedgerOnce'
  BY <1>0, <1>1, FinancialLedgerCardinality DEF OnLedgerOnce, TheFinancialLedger!TimesOnLedger
<1>8. CompletedOnRecord'
  BY <1>0, <1>1 DEF CompletedOnRecord
<1> QED  BY <1>2, <1>6, <1>7, <1>8 DEF FinancialInv

LEMMA FinancialStep == ASSUME FinancialConstants, FinancialInv, [TheFinancialLedger!Next]_TheFinancialLedger!finVars PROVE FinancialInv'
<1>0. ChainTyped /\ FinTyped /\ OnLedgerOnce /\ CompletedOnRecord
  BY DEF FinancialInv
<1>1. /\ submitted \in Nat /\ MaxFinancial \in Nat /\ submitted <= MaxFinancial /\ DOMAIN finTxs \subseteq 1..submitted
      /\ pendingTransactions \in Seq(Int) /\ genesis \in {"none", "stored", "loaded"} /\ mining \in BOOLEAN
      /\ \A id \in DOMAIN finTxs : finTxs[id] \in FinTxType /\ Consistent(finTxs[id])
  <2>1. pendingTransactions \in Seq(Int)
    <3>1. Int \cup {TheFinancialLedger!Reward} = Int
      BY DEF TheFinancialLedger!Reward
    <3> QED  BY <1>0, <3>1 DEF ChainTyped, TheFinancialLedger!ChainTypeOK
  <2> QED  BY <1>0, <2>1 DEF FinTyped, TheFinancialLedger!IsMap, FinancialConstants, ChainTyped, TheFinancialLedger!ChainTypeOK
<1>2. Seq(Int \cup {TheFinancialLedger!Reward}) = Seq(Int)
  <2>1. Int \cup {TheFinancialLedger!Reward} = Int
    BY DEF TheFinancialLedger!Reward
  <2> QED  BY <2>1
<1>3. ASSUME NEW tx \in FinancialTransactions, TheFinancialLedger!SubmitTransaction(tx) PROVE FinancialInv'
  <2> DEFINE held == TheFinancialLedger!FraudRisk(tx) \in {"HIGH", "CRITICAL"} \/ TheFinancialLedger!NeedsReview(tx)
             settled == tx.type \in {"SETTLEMENT", "CROSS_BORDER"}
             id == submitted + 1
             f == [tx |-> tx, method |-> "none",
                   status |-> IF held THEN "HELD" ELSE IF settled THEN "PROCESSING" ELSE "COMPLETED",
                   at |-> IF held THEN "TRANSACTION_HELD" ELSE IF settled THEN "SETTLEMENT_INITIATED" ELSE "TRANSACTION_COMPLETED"]
  <2>1. /\ id <= MaxFinancial /\ tx.amount > 0 /\ submitted' = id /\ finTxs' = TheFinancialLedger!Put(finTxs, id, f)
        /\ IF held THEN UNCHANGED pendingTransactions ELSE pendingTransactions' = Append(pendingTransactions, id)
        /\ UNCHANGED <<genesis, mining, finAudit>>
    BY <1>3 DEF TheFinancialLedger!SubmitTransaction, TheFinancialLedger!IsValidTransaction, TheFinancialLedger!AddTransaction
  <2> HIDE DEF held, settled
  <2>2. f \in FinTxType /\ Consistent(f) /\ (f.status = "HELD" <=> held)
    BY <2>1 DEF FinTxType, Consistent
  <2> HIDE DEF f
  <2>3. /\ id \in Nat \ {0} /\ id \notin DOMAIN finTxs /\ submitted' \in 0..MaxFinancial
        /\ 1..submitted \subseteq 1..submitted' /\ id \in 1..submitted' /\ -submitted..submitted \subseteq -submitted'..submitted'
        /\ 0..submitted \subseteq 0..submitted' /\ id \in 0..submitted' /\ id \notin -submitted..submitted /\ id \notin 0..submitted
    BY <1>1, <2>1
  <2>4. DOMAIN finTxs' = DOMAIN finTxs \cup {id} /\ finTxs'[id] = f /\ \A j \in DOMAIN finTxs : finTxs'[j] = finTxs[j]
    BY <2>1, <2>3 DEF TheFinancialLedger!Put
  <2>5. FinTyped'
    <3>1. TheFinancialLedger!IsMap(finTxs', 1..submitted', FinTxType)
      BY <1>1, <2>2, <2>3, <2>4 DEF TheFinancialLedger!IsMap
    <3>2. \A j \in DOMAIN finTxs' : Consistent(finTxs'[j])
      BY <1>1, <2>2, <2>4
    <3>3. finAudit' \subseteq FinEvents \X (-submitted'..submitted')
      <4> DEFINE A == -submitted..submitted
                 B == -submitted'..submitted'
      <4>1. A \subseteq B /\ finAudit \subseteq FinEvents \X A /\ finAudit' = finAudit
        BY <1>0, <2>1, <2>3 DEF FinTyped
      <4> HIDE DEF A, B
      <4>2. finAudit' \subseteq FinEvents \X B
        BY <4>1
      <4> QED  BY <4>2 DEF B
    <3>4. submitted' \in 0..MaxFinancial
      BY <2>3
    <3> QED  BY <3>1, <3>2, <3>3, <3>4 DEF FinTyped, TheFinancialLedger!IsMap, FinTxType, Consistent
  <2>6. <<"TRANSACTION_COMPLETED", id>> \notin finAudit
    <3> DEFINE A == -submitted..submitted
    <3>1. finAudit \subseteq FinEvents \X A /\ id \notin A
      BY <1>0, <2>3 DEF FinTyped
    <3> HIDE DEF A, id
    <3> QED  BY <3>1
  <2>7. CompletedOnRecord'
    BY <1>0, <2>1, <2>4, <2>6 DEF CompletedOnRecord
  <2>8. TheFinancialLedger!TimesOnLedger(id) = 0
    BY <1>0, <2>3, NotOnLedger DEF ChainTyped
  <2>9. CASE held
    <3>1. UNCHANGED pendingTransactions
      BY <2>1, <2>9
    <3>2. ChainTyped'
      BY <1>0, <2>1, <2>3, <3>1 DEF ChainTyped, TheFinancialLedger!ChainTypeOK
    <3>3. \A j : TheFinancialLedger!TimesOnLedger(j)' = TheFinancialLedger!TimesOnLedger(j)
      BY <3>1, FinancialLedgerCardinality DEF TheFinancialLedger!TimesOnLedger
    <3>4. OnLedgerOnce'
      BY <1>0, <2>2, <2>4, <2>8, <2>9, <3>3 DEF OnLedgerOnce
    <3> QED  BY <2>5, <2>7, <3>2, <3>4 DEF FinancialInv
  <2>10. CASE ~held
    <3>1. pendingTransactions' = Append(pendingTransactions, id) /\ id \in Int
      BY <2>1, <2>3, <2>10
    <3>2. /\ pendingTransactions' \in Seq(Int)
          /\ DOMAIN pendingTransactions' = 1..(Len(pendingTransactions) + 1)
          /\ pendingTransactions'[Len(pendingTransactions) + 1] = id
          /\ \A t \in DOMAIN pendingTransactions : pendingTransactions'[t] = pendingTransactions[t]
          /\ \A j : TheFinancialLedger!TimesOnLedger(j)' = IF j = id THEN TheFinancialLedger!TimesOnLedger(j) + 1 ELSE TheFinancialLedger!TimesOnLedger(j)
      <4> HIDE DEF id
      <4> QED  BY <1>1, <3>1, TimesAppended
    <3>3. ASSUME NEW t \in DOMAIN pendingTransactions' PROVE pendingTransactions'[t] \in 0..submitted'
      <4>1. t = Len(pendingTransactions) + 1 \/ t \in DOMAIN pendingTransactions
        BY <1>1, <3>2, LenProperties
      <4> QED  BY <1>0, <2>3, <3>2, <4>1 DEF ChainTyped
    <3>4. ChainTyped'
      BY <1>1, <1>2, <2>1, <3>2, <3>3 DEF ChainTyped, TheFinancialLedger!ChainTypeOK, TheFinancialLedger!Reward
    <3>5. OnLedgerOnce'
      BY <1>0, <2>2, <2>3, <2>4, <2>8, <2>10, <3>2 DEF OnLedgerOnce
    <3> QED  BY <2>5, <2>7, <3>4, <3>5 DEF FinancialInv
  <2> QED  BY <2>9, <2>10
<1>4. ASSUME NEW id \in 1..MaxFinancial, TheFinancialLedger!Recorded(id) PROVE FinancialInv'
  <2> DEFINE f == finTxs[id]
  <2>1. /\ id \in DOMAIN finTxs /\ f.at \notin {"maps", "TRANSACTION_FAILED"}
        /\ finAudit' = finAudit \cup {<<f.at, id>>} /\ UNCHANGED <<genesis, pendingTransactions, mining, submitted>>
    BY <1>4 DEF TheFinancialLedger!Recorded
  <2>2. f \in FinTxType /\ Consistent(f) /\ f.at \in FinEvents
    BY <1>1, <2>1 DEF FinTxType, FinEvents
  <2>3. <<"TRANSACTION_COMPLETED", id>> \notin finAudit
    BY <1>0, <2>1 DEF CompletedOnRecord
  <2>4. CASE f.at = "SETTLEMENT_INITIATED"
    <3> DEFINE m == TheFinancialLedger!SettlementMethod(f.tx)
               g == [f EXCEPT !.method = m, !.status = "COMPLETED", !.at = "TRANSACTION_COMPLETED"]
    <3>1. finTxs' = [finTxs EXCEPT ![id] = g]
      <4>1. finTxs' = [finTxs EXCEPT ![id].method = TheFinancialLedger!SettlementMethod(finTxs[id].tx),
                                     ![id].status = "COMPLETED", ![id].at = "TRANSACTION_COMPLETED"]
        BY <1>4, <2>4 DEF TheFinancialLedger!Recorded
      <4> QED  BY <4>1
    <3>2. m \in {"swift", "rtgs", "ach", "crypto", "none"}
      BY <2>2, MethodIs DEF FinTxType
    <3> HIDE DEF m
    <3>3. g \in FinTxType /\ Consistent(g) /\ g.status # "HELD"
      BY <2>2, <3>2 DEF FinTxType, Consistent
    <3>4. f.status # "HELD"
      BY <2>2, <2>4 DEF Consistent
    <3>5. <<"TRANSACTION_COMPLETED", id>> \notin finAudit'
      BY <2>1, <2>3, <2>4
    <3> HIDE DEF g
    <3> QED  BY <2>1, <2>2, <3>1, <3>3, <3>4, <3>5, GoesOn
  <2>5. CASE f.at # "SETTLEMENT_INITIATED"
    <3> DEFINE g == [f EXCEPT !.at = "maps"]
    <3>1. finTxs' = [finTxs EXCEPT ![id] = g]
      <4>1. finTxs' = [finTxs EXCEPT ![id].at = "maps"]
        BY <1>4, <2>5 DEF TheFinancialLedger!Recorded
      <4> QED  BY <4>1
    <3>2. g \in FinTxType /\ g.at = "maps" /\ g.status = f.status
      BY <2>2 DEF FinTxType
    <3>3. Consistent(g)
      BY <3>2 DEF Consistent
    <3>4. <<"TRANSACTION_COMPLETED", id>> \in finAudit' => g.status = "COMPLETED"
      <4>1. <<"TRANSACTION_COMPLETED", id>> \in finAudit' => f.at = "TRANSACTION_COMPLETED"
        BY <2>1, <2>3
      <4> QED  BY <2>2, <3>2, <4>1 DEF Consistent
    <3> HIDE DEF g
    <3> QED  BY <2>1, <2>2, <3>1, <3>2, <3>3, <3>4, GoesOn
  <2> QED  BY <2>4, <2>5
<1>5. ASSUME NEW id \in 1..MaxFinancial, TheFinancialLedger!NotRecorded(id) PROVE FinancialInv'
  <2> DEFINE f == finTxs[id]
  <2>1. /\ id \in DOMAIN finTxs /\ f.at \notin {"maps", "TRANSACTION_FAILED"}
        /\ UNCHANGED <<genesis, pendingTransactions, mining, submitted, finAudit>>
    BY <1>5 DEF TheFinancialLedger!NotRecorded
  <2>2. f \in FinTxType /\ Consistent(f)
    BY <1>1, <2>1
  <2>3. CASE f.at = "TRANSACTION_HELD"
    <3>1. finTxs' = TheFinancialLedger!Drop(finTxs, {id})
      BY <1>5, <2>3 DEF TheFinancialLedger!NotRecorded
    <3> QED  BY <2>1, <3>1, Forgotten
  <2>4. CASE f.at # "TRANSACTION_HELD"
    <3> DEFINE g == [f EXCEPT !.status = "FAILED", !.at = "TRANSACTION_FAILED"]
    <3>1. finTxs' = [finTxs EXCEPT ![id] = g]
      <4>1. finTxs' = [finTxs EXCEPT ![id].status = "FAILED", ![id].at = "TRANSACTION_FAILED"]
        BY <1>5, <2>4 DEF TheFinancialLedger!NotRecorded
      <4> QED  BY <4>1
    <3>2. g \in FinTxType /\ Consistent(g) /\ g.status # "HELD"
      BY <2>2 DEF FinTxType, Consistent
    <3>3. f.status # "HELD"
      BY <2>1, <2>2, <2>4 DEF Consistent, FinTxType
    <3>4. <<"TRANSACTION_COMPLETED", id>> \notin finAudit'
      BY <1>0, <2>1 DEF CompletedOnRecord
    <3> HIDE DEF g
    <3>5. "TRANSACTION_FAILED" \in FinEvents
      BY DEF FinEvents
    <3> QED  BY <2>1, <3>1, <3>2, <3>3, <3>4, <3>5, GoesOn
  <2> QED  BY <2>3, <2>4
<1>6. ASSUME NEW id \in 1..MaxFinancial, NEW recorded \in BOOLEAN, TheFinancialLedger!FailureThrown(id, recorded) PROVE FinancialInv'
  <2>1. /\ id \in DOMAIN finTxs /\ finTxs' = TheFinancialLedger!Drop(finTxs, {id}) /\ UNCHANGED <<genesis, pendingTransactions, mining, submitted>>
        /\ (finAudit' = finAudit \/ finAudit' = finAudit \cup {<<"TRANSACTION_FAILED", id>>})
    BY <1>6 DEF TheFinancialLedger!FailureThrown
  <2> QED  BY <2>1, Forgotten
<1>7. ASSUME NEW id \in 1..MaxFinancial, TheFinancialLedger!ReverseTransaction(id) PROVE FinancialInv'
  <2>1. id \in DOMAIN finTxs
    BY <1>7 DEF TheFinancialLedger!ReverseTransaction
  <2>2. finTxs[id].tx.amount \in Int /\ finTxs[id].tx.amount > 0
    BY <1>1, <2>1 DEF FinTxType, FinancialConstants
  <2>3. ~TheFinancialLedger!IsValidTransaction(-finTxs[id].tx.amount)
    BY <2>2 DEF TheFinancialLedger!IsValidTransaction
  <2>4. /\ finAudit' = finAudit \cup {<<"TRANSACTION_FAILED", -id>>}
        /\ UNCHANGED <<genesis, pendingTransactions, mining, submitted, finTxs>>
    BY <1>7, <2>3 DEF TheFinancialLedger!ReverseTransaction
  <2>5. -id \in -submitted..submitted
    BY <1>1, <2>1
  <2>6. finAudit' \subseteq FinEvents \X (-submitted..submitted)
    <3> DEFINE A == -submitted..submitted
               x == -id
    <3>1. finAudit \subseteq FinEvents \X A /\ x \in A
      BY <1>0, <2>5 DEF FinTyped
    <3>2. finAudit' = finAudit \cup {<<"TRANSACTION_FAILED", x>>}
      BY <2>4
    <3> HIDE DEF A, x
    <3>3. finAudit' \subseteq FinEvents \X A
      BY <3>1, <3>2, TrailGrows DEF FinEvents
    <3> QED  BY <3>3 DEF A
  <2>7. \A j : <<"TRANSACTION_COMPLETED", j>> \in finAudit' => <<"TRANSACTION_COMPLETED", j>> \in finAudit
    BY <2>4
  <2>8. ChainTyped' /\ OnLedgerOnce'
    BY <1>0, <2>4, FinancialLedgerCardinality DEF ChainTyped, TheFinancialLedger!ChainTypeOK, OnLedgerOnce, TheFinancialLedger!TimesOnLedger
  <2>9. FinTyped'
    BY <1>0, <2>4, <2>6 DEF FinTyped, TheFinancialLedger!IsMap, FinTxType, Consistent
  <2>10. CompletedOnRecord'
    BY <1>0, <2>4, <2>7 DEF CompletedOnRecord
  <2> QED  BY <2>8, <2>9, <2>10 DEF FinancialInv
<1>8. ASSUME UNCHANGED <<submitted, finTxs, finAudit>> PROVE FinTyped' /\ CompletedOnRecord'
  BY <1>0, <1>8 DEF FinTyped, TheFinancialLedger!IsMap, FinTxType, Consistent, CompletedOnRecord
<1>9. CASE TheFinancialLedger!Chain
  <2>1. UNCHANGED <<submitted, finTxs, finAudit>>
    BY <1>9 DEF TheFinancialLedger!Chain
  <2>2. CASE TheFinancialLedger!InitializeChain
    <3>1. ChainTyped' /\ OnLedgerOnce'
      BY <1>0, <2>1, <2>2, FinancialLedgerCardinality DEF TheFinancialLedger!InitializeChain, ChainTyped, TheFinancialLedger!ChainTypeOK, OnLedgerOnce, TheFinancialLedger!TimesOnLedger
    <3> QED  BY <1>8, <2>1, <3>1 DEF FinancialInv
  <2>3. CASE TheFinancialLedger!MinePendingTransactions
    <3>1. pendingTransactions' = Append(pendingTransactions, 0) /\ genesis' = genesis /\ mining' \in BOOLEAN
      BY <2>3 DEF TheFinancialLedger!MinePendingTransactions, TheFinancialLedger!AddTransaction, TheFinancialLedger!Reward
    <3>2. /\ pendingTransactions' \in Seq(Int)
          /\ DOMAIN pendingTransactions' = 1..(Len(pendingTransactions) + 1)
          /\ pendingTransactions'[Len(pendingTransactions) + 1] = 0
          /\ \A t \in DOMAIN pendingTransactions : pendingTransactions'[t] = pendingTransactions[t]
          /\ \A j : TheFinancialLedger!TimesOnLedger(j)' = IF j = 0 THEN TheFinancialLedger!TimesOnLedger(j) + 1 ELSE TheFinancialLedger!TimesOnLedger(j)
      BY <1>1, <3>1, TimesAppended
    <3>3. ASSUME NEW t \in DOMAIN pendingTransactions' PROVE pendingTransactions'[t] \in 0..submitted'
      <4>1. t = Len(pendingTransactions) + 1 \/ t \in DOMAIN pendingTransactions
        BY <1>1, <3>2, LenProperties
      <4> QED  BY <1>0, <1>1, <2>1, <3>2, <4>1 DEF ChainTyped
    <3>4. ChainTyped'
      BY <1>1, <1>2, <3>1, <3>2, <3>3 DEF ChainTyped, TheFinancialLedger!ChainTypeOK, TheFinancialLedger!Reward
    <3>5. \A j \in DOMAIN finTxs : j # 0
      BY <1>1
    <3>6. OnLedgerOnce'
      BY <1>0, <2>1, <3>2, <3>5 DEF OnLedgerOnce
    <3> QED  BY <1>8, <2>1, <3>4, <3>6 DEF FinancialInv
  <2> QED  BY <1>9, <2>2, <2>3 DEF TheFinancialLedger!Chain
<1>10. CASE TheFinancialLedger!Restart
  <2>1. pendingTransactions' = <<>> /\ genesis' \in {"none", "stored", "loaded"} /\ mining' = FALSE /\ DOMAIN finTxs' = {}
        /\ UNCHANGED <<submitted, finAudit>>
    BY <1>10 DEF TheFinancialLedger!Restart, TheFinancialLedger!RestartChain, TheFinancialLedger!Empty
  <2>2. ChainTyped'
    <3>1. pendingTransactions' \in Seq(Int \cup {TheFinancialLedger!Reward}) /\ DOMAIN pendingTransactions' = {}
      BY <2>1, NothingPending
    <3>2. \A t \in DOMAIN pendingTransactions' : pendingTransactions'[t] \in 0..submitted'
      BY <3>1
    <3> QED  BY <2>1, <3>1, <3>2 DEF ChainTyped, TheFinancialLedger!ChainTypeOK, TheFinancialLedger!Reward
  <2>3. FinTyped'
    BY <1>0, <2>1 DEF FinTyped, TheFinancialLedger!IsMap
  <2>4. OnLedgerOnce' /\ CompletedOnRecord'
    BY <2>1 DEF OnLedgerOnce, CompletedOnRecord
  <2> QED  BY <2>2, <2>3, <2>4 DEF FinancialInv
<1>11. CASE UNCHANGED TheFinancialLedger!finVars
  <2>1. ChainTyped' /\ OnLedgerOnce'
    BY <1>0, <1>11, FinancialLedgerCardinality DEF TheFinancialLedger!finVars, ChainTyped, TheFinancialLedger!ChainTypeOK, OnLedgerOnce, TheFinancialLedger!TimesOnLedger
  <2> QED  BY <1>8, <1>11, <2>1 DEF TheFinancialLedger!finVars, FinancialInv
<1> QED  BY <1>3, <1>4, <1>5, <1>6, <1>7, <1>9, <1>10, <1>11 DEF TheFinancialLedger!Next

LEMMA FinancialInvSays == FinancialInv => TheFinancialLedger!TypeOK /\ TheFinancialLedger!LedgerHasTheCompleted
<1> SUFFICES ASSUME FinancialInv PROVE TheFinancialLedger!TypeOK /\ TheFinancialLedger!LedgerHasTheCompleted
  OBVIOUS
<1>0. ChainTyped /\ FinTyped /\ OnLedgerOnce /\ CompletedOnRecord
  BY DEF FinancialInv
<1>1. TheFinancialLedger!TypeOK
  <2>1. \A entry \in finAudit : entry[2] \in -submitted..submitted
    <3> DEFINE A == -submitted..submitted
    <3>1. finAudit \subseteq FinEvents \X A
      BY <1>0 DEF FinTyped
    <3> HIDE DEF A
    <3>2. \A entry \in finAudit : entry[2] \in A
      BY <3>1
    <3> QED  BY <3>2 DEF A
  <2> QED  BY <1>0, <2>1 DEF TheFinancialLedger!TypeOK, ChainTyped, FinTyped, TheFinancialLedger!IsMap, FinTxType
<1>2. \A t \in DOMAIN pendingTransactions : pendingTransactions[t] >= TheFinancialLedger!Reward
  BY <1>0 DEF ChainTyped, TheFinancialLedger!Reward
<1> QED  BY <1>0, <1>1, <1>2 DEF OnLedgerOnce, CompletedOnRecord, TheFinancialLedger!LedgerHasTheCompleted

-----------------------------------------------------------------------------
\* ConsensusEngine.  The validators stand on the list once each, every vote is of
\* another validator, and the turn that is waited for is another's.
LEMMA EngineCardinality == \A S : TheEngine!Cardinality(S) = Cardinality(S)
BY DEF Cardinality, TheEngine!Cardinality

LEMMA EngineKept == \A s, S : TheEngine!Kept(s, S) = Kept(s, S)
BY DEF Kept, TheEngine!Kept, Nth, TheEngine!Nth, Below, TheEngine!Below, Cardinality, TheEngine!Cardinality

LEMMA EngineListed == \A S : TheEngine!Listed(S) = Listed(S)
BY DEF Listed, TheEngine!Listed, Cardinality, TheEngine!Cardinality

RoundsConstants ==
    /\ IsFiniteSet(Validators) /\ Self \in Validators /\ MaxRound \in Nat /\ MaxAsked \in Nat

OncePerPlace(s) == \A i, j \in 1..Len(s) : s[i] = s[j] => i = j
ValidatorsOnce == validatorSet \in Seq(Validators) /\ OncePerPlace(validatorSet)
TurnIsAnothers == phase \in {"PROPOSAL", "VOTING"} /\ (phase = "VOTING" => proposer # Self)
VotesOnce ==
    /\ roundVotes \subseteq [validator : Validators, decision : BOOLEAN]
    /\ \A a, b \in roundVotes : a.validator = b.validator => a = b
RoundTyped ==
    /\ engineActive \in BOOLEAN /\ round \in 0..MaxRound /\ asked \in 0..MaxAsked
    /\ proposer \in Validators \cup {Undefined}

RoundsInv == ValidatorsOnce /\ TurnIsAnothers /\ VotesOnce /\ RoundTyped

\* The proposer of a round is of the set, or there is none.
LEMMA ProposerIs ==
    ASSUME NEW s \in Seq(Validators), NEW r \in Nat
    PROVE  TheEngine!GetNextValidator(s, r) \in Validators \cup {Undefined}
<1>1. CASE s = <<>>
  BY <1>1 DEF TheEngine!GetNextValidator
<1>2. CASE s # <<>>
  <2> DEFINE n == Len(s)
             i == (r % n) + 1
  <2>1. n \in Nat /\ n > 0
    BY <1>2, EmptySeq
  <2>2. i \in 1..n
    BY <2>1
  <2>3. s[i] \in Validators
    BY <2>2, ElementOfSeq
  <2> QED  BY <1>2, <2>3 DEF TheEngine!GetNextValidator
<1> QED  BY <1>1, <1>2

\* The validators in some order, each once.
LEMMA ListedOnce ==
    ASSUME IsFiniteSet(Validators)
    PROVE  Listed(Validators) \in Seq(Validators) /\ OncePerPlace(Listed(Validators))
<1>1. /\ Listed(Validators) \in Seq(Validators) /\ Len(Listed(Validators)) = Cardinality(Validators)
      /\ \A i, j \in 1..Cardinality(Validators) : Listed(Validators)[i] = Listed(Validators)[j] => i = j
  BY ListedIs
<1> QED  BY <1>1 DEF OncePerPlace

LEMMA RoundsInit == ASSUME RoundsConstants PROVE TheEngine!Init => RoundsInv
<1> SUFFICES ASSUME TheEngine!Init PROVE RoundsInv
  OBVIOUS
<1>1. ValidatorsOnce
  <2>1. CASE validatorSet = Listed(Validators)
    BY <2>1, ListedOnce DEF ValidatorsOnce, RoundsConstants
  <2>2. CASE validatorSet = <<Self>>
    <3>1. <<Self>> \in Seq(Validators) /\ Len(<<Self>>) = 1
      BY DEF RoundsConstants
    <3> QED  BY <2>2, <3>1 DEF ValidatorsOnce, OncePerPlace
  <2> QED  BY <2>1, <2>2, EngineListed DEF TheEngine!Init
<1>2. proposer \in Validators \cup {Undefined}
  BY <1>1, ProposerIs, EngineListed DEF TheEngine!Init, ValidatorsOnce
<1>3. RoundTyped
  <2>1. engineActive = FALSE /\ round = 0 /\ asked = 0 /\ MaxRound \in Nat /\ MaxAsked \in Nat
    BY EngineListed DEF TheEngine!Init, RoundsConstants
  <2>2. 0 \in 0..MaxRound /\ 0 \in 0..MaxAsked
    BY <2>1
  <2> QED  BY <1>2, <2>1, <2>2 DEF RoundTyped
<1>4. TurnIsAnothers /\ VotesOnce
  BY EngineListed DEF TheEngine!Init, TurnIsAnothers, VotesOnce
<1> QED  BY <1>1, <1>3, <1>4 DEF RoundsInv

\* The next round begins.
LEMMA RoundAdvances ==
    ASSUME RoundsConstants, RoundsInv, TheEngine!AdvanceToNextRound
    PROVE  /\ round' \in 0..MaxRound /\ proposer' \in Validators \cup {Undefined}
           /\ TurnIsAnothers' /\ VotesOnce'
<1>1. round \in Nat /\ round < MaxRound /\ round' = round + 1 /\ validatorSet \in Seq(Validators) /\ MaxRound \in Nat
  BY DEF RoundsInv, RoundTyped, TheEngine!AdvanceToNextRound, RoundsConstants, ValidatorsOnce
<1>2. proposer' \in Validators \cup {Undefined}
  BY <1>1, ProposerIs DEF TheEngine!AdvanceToNextRound
<1>3. phase' = "PROPOSAL" /\ roundVotes' = {}
  BY DEF TheEngine!AdvanceToNextRound
<1> QED  BY <1>1, <1>2, <1>3 DEF TurnIsAnothers, VotesOnce

\* A step of the round.
LEMMA RoundRuns ==
    ASSUME RoundsConstants, RoundsInv, TheEngine!RunConsensusRound
    PROVE  /\ round' \in 0..MaxRound /\ proposer' \in Validators \cup {Undefined} /\ asked' \in 0..MaxAsked
           /\ TurnIsAnothers' /\ VotesOnce'
<1>0. /\ TurnIsAnothers /\ VotesOnce /\ round \in 0..MaxRound /\ asked \in 0..MaxAsked
      /\ MaxAsked \in Nat /\ proposer \in Validators \cup {Undefined}
  BY DEF RoundsInv, RoundTyped, RoundsConstants
<1>1. CASE phase = "PROPOSAL" /\ proposer = Self /\ asked < MaxAsked /\ asked' = asked + 1 /\ UNCHANGED <<round, phase, proposer, roundVotes>>
  BY <1>0, <1>1 DEF TurnIsAnothers, VotesOnce
<1>2. CASE phase = "PROPOSAL" /\ proposer # Self /\ phase' = "VOTING" /\ UNCHANGED <<round, proposer, roundVotes, asked>>
  BY <1>0, <1>2 DEF TurnIsAnothers, VotesOnce
<1>3. CASE TheEngine!AdvanceToNextRound /\ UNCHANGED asked
  BY <1>0, <1>3, RoundAdvances
<1> QED  BY <1>1, <1>2, <1>3 DEF TheEngine!RunConsensusRound

LEMMA RoundsStep == ASSUME RoundsConstants, RoundsInv, [TheEngine!Next]_TheEngine!engineVars PROVE RoundsInv'
<1>0. ValidatorsOnce /\ TurnIsAnothers /\ VotesOnce /\ RoundTyped
  BY DEF RoundsInv
<1>1. validatorSet' = validatorSet => ValidatorsOnce'
  BY <1>0 DEF ValidatorsOnce, OncePerPlace
<1>2. CASE TheEngine!Start
  <2>1. TheEngine!RunConsensusRound /\ engineActive' = TRUE /\ validatorSet' = validatorSet
    BY <1>2 DEF TheEngine!Start
  <2> QED  BY <1>0, <1>1, <2>1, RoundRuns DEF RoundTyped, RoundsInv
<1>3. CASE TheEngine!ConsensusTimer
  <2>1. TheEngine!RunConsensusRound /\ engineActive' = engineActive /\ validatorSet' = validatorSet
    BY <1>3 DEF TheEngine!ConsensusTimer
  <2> QED  BY <1>0, <1>1, <2>1, RoundRuns DEF RoundTyped, RoundsInv
<1>4. CASE TheEngine!NoTransactions
  <2>1. TheEngine!AdvanceToNextRound /\ asked > 0 /\ asked' = asked - 1 /\ engineActive' = engineActive /\ validatorSet' = validatorSet
    BY <1>4 DEF TheEngine!NoTransactions
  <2>2. asked' \in 0..MaxAsked
    BY <1>0, <2>1 DEF RoundTyped, RoundsConstants
  <2> QED  BY <1>0, <1>1, <2>1, <2>2, RoundAdvances DEF RoundTyped, RoundsInv
<1>5. CASE TheEngine!Stop
  BY <1>0, <1>1, <1>5 DEF TheEngine!Stop, RoundTyped, TurnIsAnothers, VotesOnce, RoundsInv
<1>6. ASSUME NEW v \in Validators, NEW decision \in BOOLEAN, TheEngine!AddVote(v, decision) PROVE RoundsInv'
  <2> DEFINE vote == [validator |-> v, decision |-> decision]
  <2>1. /\ \A a \in roundVotes : a.validator # v
        /\ roundVotes' = roundVotes \cup {vote} /\ UNCHANGED <<engineActive, validatorSet, round, phase, proposer, asked>>
    BY <1>6 DEF TheEngine!AddVote
  <2>2. vote \in [validator : Validators, decision : BOOLEAN] /\ vote.validator = v
    OBVIOUS
  <2> HIDE DEF vote
  <2>3. VotesOnce'
    BY <1>0, <2>1, <2>2 DEF VotesOnce
  <2> QED  BY <1>0, <1>1, <2>1, <2>3 DEF RoundTyped, TurnIsAnothers, RoundsInv
<1>7. ASSUME NEW v \in Validators, TheEngine!AddValidator(v) PROVE RoundsInv'
  <2>1. /\ v \notin TheEngine!ToSet(validatorSet) /\ validatorSet' = Append(validatorSet, v)
        /\ UNCHANGED <<engineActive, round, phase, proposer, roundVotes, asked>>
    BY <1>7 DEF TheEngine!AddValidator
  <2> DEFINE n == Len(validatorSet)
  <2>2. /\ n \in Nat /\ validatorSet' \in Seq(Validators) /\ Len(validatorSet') = n + 1
        /\ validatorSet'[n + 1] = v /\ \A i \in 1..n : validatorSet'[i] = validatorSet[i]
    BY <1>0, <2>1, AppendProperties, LenProperties DEF ValidatorsOnce
  <2>3. \A i \in 1..n : validatorSet[i] # v
    BY <1>0, <2>1, LenProperties DEF TheEngine!ToSet, ValidatorsOnce
  <2> HIDE DEF n
  <2>4. \A i \in 1..(n + 1) : i \in 1..n \/ i = n + 1
    BY <2>2
  <2>5. \A i, j \in 1..n : validatorSet[i] = validatorSet[j] => i = j
    BY <1>0 DEF ValidatorsOnce, OncePerPlace, n
  <2>6. \A i, j \in 1..(n + 1) : validatorSet'[i] = validatorSet'[j] => i = j
    BY <2>2, <2>3, <2>4, <2>5
  <2>7. ValidatorsOnce'
    BY <2>2, <2>6 DEF ValidatorsOnce, OncePerPlace
  <2> QED  BY <1>0, <2>1, <2>7 DEF RoundTyped, TurnIsAnothers, VotesOnce, RoundsInv
<1>8. ASSUME NEW v \in Validators, TheEngine!RemoveValidator(v) PROVE RoundsInv'
  <2> DEFINE S == {i \in DOMAIN validatorSet : validatorSet[i] # v}
             w == Kept(validatorSet, S)
             c == Cardinality(S)
             N == Len(validatorSet)
  <2>1. validatorSet' = w /\ UNCHANGED <<engineActive, round, phase, proposer, roundVotes, asked>>
    BY <1>8, EngineKept DEF TheEngine!RemoveValidator
  <2>2. N \in Nat /\ DOMAIN validatorSet = 1..N /\ validatorSet \in Seq(Validators) /\ S \subseteq 1..N
    BY <1>0, LenProperties DEF ValidatorsOnce
  <2> HIDE DEF S, N
  <2>3. w \in Seq(Validators) /\ Len(w) = c
    BY <2>2, KeptIsSeq
  <2>4. \A m \in 1..c : Nth(S, m) \in S /\ w[m] = validatorSet[Nth(S, m)]
    <3>1. \A m \in 1..Cardinality(S) : Nth(S, m) \in S /\ Kept(validatorSet, S)[m] = validatorSet[Nth(S, m)]
      <4>1. N \in Nat /\ S \subseteq 1..N
        BY <2>2
      <4>2. \A m \in 1..Cardinality(S) : Nth(S, m) \in S
        BY <4>1, NthIs
      <4> QED  BY <4>2 DEF Kept
    <3> QED  BY <3>1
  <2>5. c \in Nat /\ \A m, k \in 1..c : m < k => Nth(S, m) < Nth(S, k)
    <3>1. \A m, k \in 1..Cardinality(S) : m < k => Nth(S, m) < Nth(S, k)
      BY <2>2, NthIs
    <3>2. Cardinality(S) \in 0..N
      BY <2>2, BelowGrows
    <3> QED  BY <2>2, <3>1, <3>2
  <2>6. \A m, k \in 1..c : w[m] = w[k] => Nth(S, m) = Nth(S, k)
    BY <1>0, <2>2, <2>4 DEF ValidatorsOnce, OncePerPlace, N
  <2>7. \A m, k \in 1..c : w[m] = w[k] => m = k
    <3> SUFFICES ASSUME NEW m \in 1..c, NEW k \in 1..c, Nth(S, m) = Nth(S, k) PROVE m = k
      BY <2>6
    <3> DEFINE p == Nth(S, m)
    <3>1. p \in Int /\ ~(p < p)
      BY <2>2, <2>4
    <3>2. ~(m < k) /\ ~(k < m)
      BY <2>5, <3>1
    <3> QED  BY <2>5, <3>2
  <2>8. ValidatorsOnce'
    BY <2>1, <2>3, <2>7 DEF ValidatorsOnce, OncePerPlace
  <2> QED  BY <1>0, <2>1, <2>8 DEF RoundTyped, TurnIsAnothers, VotesOnce, RoundsInv
<1>9. CASE UNCHANGED TheEngine!engineVars
  BY <1>0, <1>1, <1>9 DEF TheEngine!engineVars, RoundTyped, TurnIsAnothers, VotesOnce, RoundsInv
<1> QED  BY <1>2, <1>3, <1>4, <1>5, <1>6, <1>7, <1>8, <1>9 DEF TheEngine!Next

\* A list without repetitions is as long as the set of what is on it.
LEMMA ValidatorsCounted ==
    ASSUME RoundsInv
    PROVE  /\ IsFiniteSet(TheEngine!ToSet(validatorSet)) /\ Len(validatorSet) = Cardinality(TheEngine!ToSet(validatorSet))
           /\ TheEngine!ToSet(validatorSet) \subseteq Validators
<1> DEFINE s == validatorSet
           N == Len(s)
<1>1. N \in Nat /\ DOMAIN s = 1..N /\ s \in [1..N -> Validators] /\ \A i, j \in 1..N : s[i] = s[j] => i = j
  BY LenProperties DEF RoundsInv, ValidatorsOnce, OncePerPlace
<1>2. IsFiniteSet(1..N) /\ Cardinality(1..N) = N
  BY <1>1, FS_Interval
<1>3. s \in [1..N -> TheEngine!ToSet(s)] /\ \A x \in TheEngine!ToSet(s) : \E i \in 1..N : s[i] = x
  BY <1>1 DEF TheEngine!ToSet
<1>4. s \in Bijection(1..N, TheEngine!ToSet(s))
  BY <1>1, <1>3 DEF Bijection, Injection, IsInjective, Surjection
<1>5. ExistsBijection(1..N, TheEngine!ToSet(s))
  BY <1>4 DEF ExistsBijection
<1>6. TheEngine!ToSet(s) \subseteq Validators
  BY <1>1 DEF TheEngine!ToSet
<1> QED  BY <1>2, <1>5, <1>6, FS_Bijection

\* The members' votes both ways are no more than the members.
LEMMA VotesWithinMembers ==
    ASSUME RoundsInv, NEW M, IsFiniteSet(M)
    PROVE  /\ TheEngine!Votes(M, TRUE) \in Nat /\ TheEngine!Votes(M, FALSE) \in Nat
           /\ TheEngine!Votes(M, TRUE) + TheEngine!Votes(M, FALSE) <= Cardinality(M)
<1> DEFINE Of(d) == {vote \in roundVotes : vote.validator \in M /\ vote.decision = d}
           By(d) == {vote.validator : vote \in Of(d)}
           f == [vote \in Of(TRUE) \cup Of(FALSE) |-> vote.validator]
           All == Of(TRUE) \cup Of(FALSE)
<1>1. \A a, b \in roundVotes : a.validator = b.validator => a = b
  BY DEF RoundsInv, VotesOnce
<1>2. f \in Injection(All, M)
  <2>1. f \in [All -> M]
    OBVIOUS
  <2>2. \A a, b \in All : f[a] = f[b] => a = b
    BY <1>1
  <2> HIDE DEF f, All
  <2> QED  BY <2>1, <2>2 DEF Injection, IsInjective
<1>3. Of(TRUE) \cap Of(FALSE) = {} /\ Of(TRUE) \subseteq All /\ Of(FALSE) \subseteq All
  OBVIOUS
<1>4. TheEngine!Votes(M, TRUE) = Cardinality(Of(TRUE)) /\ TheEngine!Votes(M, FALSE) = Cardinality(Of(FALSE))
  BY EngineCardinality DEF TheEngine!Votes
<1>5. Of(TRUE) \cup Of(FALSE) = All
  OBVIOUS
<1> DEFINE T == Of(TRUE)
           F == Of(FALSE)
<1>6. T \cap F = {} /\ T \subseteq All /\ F \subseteq All /\ T \cup F = All /\ TheEngine!Votes(M, TRUE) = Cardinality(T) /\ TheEngine!Votes(M, FALSE) = Cardinality(F)
  BY <1>3, <1>4, <1>5
<1> HIDE DEF f, All, T, F
<1>7. IsFiniteSet(All) /\ Cardinality(All) <= Cardinality(M)
  BY <1>2, FS_Injection
<1>8. IsFiniteSet(T) /\ IsFiniteSet(F)
  BY <1>6, <1>7, FS_Subset
<1>9. Cardinality(T) \in Nat /\ Cardinality(F) \in Nat /\ Cardinality(M) \in Nat
  BY <1>8, FS_CardinalityType
<1>10. Cardinality(All) = Cardinality(T) + Cardinality(F) - 0
  BY <1>6, <1>8, FS_Union, FS_EmptySet
<1> DEFINE a == Cardinality(All)
           m == Cardinality(M)
           t == Cardinality(T)
           g == Cardinality(F)
<1>11. a <= m /\ t \in Nat /\ g \in Nat /\ m \in Nat /\ a = t + g - 0 /\ TheEngine!Votes(M, TRUE) = t /\ TheEngine!Votes(M, FALSE) = g
  BY <1>6, <1>7, <1>9, <1>10
<1> HIDE DEF a, m, t, g
<1>12. t + g <= m
  BY <1>11
<1> QED  BY <1>11, <1>12 DEF m

LEMMA RoundsInvSays == ASSUME RoundsConstants PROVE RoundsInv => TheEngine!TypeOK /\ TheEngine!OneOutcome
<1> SUFFICES ASSUME RoundsInv PROVE TheEngine!TypeOK /\ TheEngine!OneOutcome
  OBVIOUS
<1>1. TheEngine!TypeOK
  BY ValidatorsCounted, EngineCardinality DEF RoundsInv, TheEngine!TypeOK, RoundTyped, TurnIsAnothers, VotesOnce
<1>2. phase = "VOTING" => proposer # Self
  BY DEF RoundsInv, TurnIsAnothers
<1> DEFINE M == TheEngine!ToSet(validatorSet)
           n == Len(validatorSet)
           t == TheEngine!Votes(M, TRUE)
           f == TheEngine!Votes(M, FALSE)
<1>3. n \in Nat /\ t \in Nat /\ f \in Nat /\ t + f <= n
  BY ValidatorsCounted, VotesWithinMembers, FS_CardinalityType
<1>4. (TheEngine!Reached(M, TRUE) <=> t >= ((2 * n) \div 3) + 1) /\ (TheEngine!Reached(M, FALSE) <=> f >= ((2 * n) \div 3) + 1)
  BY DEF TheEngine!Reached
<1> HIDE DEF M, n, t, f
<1>5. ~(TheEngine!Reached(M, TRUE) /\ TheEngine!Reached(M, FALSE))
  <2>1. ~(t >= ((2 * n) \div 3) + 1 /\ f >= ((2 * n) \div 3) + 1)
    <3> DEFINE q == (2 * n) \div 3
    <3>1. q \in Int /\ 3 * q > 2 * n - 3
      BY <1>3
    <3> HIDE DEF q
    <3> QED  BY <1>3, <3>1 DEF q
  <2> QED  BY <1>4, <2>1
<1> QED  BY <1>1, <1>2, <1>5 DEF M, TheEngine!OneOutcome

\* BlockSelection.  The pool's own invariant is the one its module is proved with;
\* besides, the places are in the order of the admissions, and what is kept of the
\* attempts is kept of the pending transactions.
LEMMA SelectionCardinality == \A S : TheSelection!Cardinality(S) = Cardinality(S)
BY DEF Cardinality, TheSelection!Cardinality

SelectionConstants ==
    /\ \A t \in PoolTransactions : t.from \in PoolAccounts /\ t.nonce \in Nat /\ t.gasPrice \in Nat
    /\ PoolConfigs \subseteq TheSelection!Config /\ PoolConfig \in PoolConfigs
    /\ MaxAdded \in Nat /\ MaxPoolTime \in Nat /\ MaxUpdates \in Nat
    /\ BlockGasLimits \subseteq Nat /\ Sizes \subseteq Nat /\ Cooldown \in Nat /\ MaxAttempts \in Nat

LEMMA TxsAre == ASSUME SelectionConstants PROVE \A t \in PoolTransactions : t.from \in PoolAccounts /\ t.nonce \in Nat /\ t.gasPrice \in Nat
BY DEF SelectionConstants

LEMMA ConfigsAre == ASSUME SelectionConstants PROVE PoolConfigs \subseteq TheSelection!Config /\ PoolConfig \in PoolConfigs
BY DEF SelectionConstants

LEMMA BoundsAre == ASSUME SelectionConstants PROVE MaxAdded \in Nat /\ MaxPoolTime \in Nat /\ MaxUpdates \in Nat
BY DEF SelectionConstants

TrackerAhead == protected => \A t \in TheSelection!Pending : t.nonce < nonceTracker[t.from]

ProtectedOn == protected => config.spamProtection

PoolInv ==
    /\ TheSelection!TypeOK
    /\ TheSelection!IndexMatchesPending
    /\ ProtectedOn
    /\ TrackerAhead
    /\ TheSelection!NonceOrder

\* What untrackAccountTransaction leaves of an exact index: the index of the
\* transactions that stay.
LEMMA UntrackedIsIndex ==
    ASSUME TheSelection!IndexMatchesPending, NEW S
    PROVE  TheSelection!Untracked(S) = [a \in {t.from : t \in TheSelection!Pending \ S} |-> TheSelection!Of(a) \ S]
<1>1. {a \in DOMAIN accountTransactions : accountTransactions[a] \ S # {}}
        = {t.from : t \in TheSelection!Pending \ S}
  BY DEF TheSelection!IndexMatchesPending, TheSelection!Of
<1>2. \A a \in {t.from : t \in TheSelection!Pending \ S} : accountTransactions[a] = TheSelection!Of(a)
  BY DEF TheSelection!IndexMatchesPending
<1> QED
  BY <1>1, <1>2 DEF TheSelection!Untracked

\* Removing transactions keeps pool and index well typed, exact and in order.
LEMMA PoolRemoves ==
    ASSUME SelectionConstants, PoolInv, NEW S, TheSelection!Removed(S)
    PROVE  /\ DOMAIN pending' = TheSelection!Pending \ S
           /\ \A t \in TheSelection!Pending \ S : pending'[t] = pending[t]
           /\ TheSelection!IndexMatchesPending'
<1>1. pending' = [t \in TheSelection!Pending \ S |-> pending[t]]
  BY DEF TheSelection!Removed
<1>2. accountTransactions' = [a \in {t.from : t \in TheSelection!Pending \ S} |-> TheSelection!Of(a) \ S]
  BY UntrackedIsIndex DEF TheSelection!Removed, PoolInv
<1>3. DOMAIN pending' = TheSelection!Pending \ S
  BY <1>1
<1>4. TheSelection!IndexMatchesPending'
  BY <1>2, <1>3 DEF TheSelection!IndexMatchesPending, TheSelection!Of, TheSelection!Pending
<1> QED
  BY <1>1, <1>3, <1>4

\* What a step that only takes transactions out leaves of the invariant.
LEMMA PoolShrinks ==
    ASSUME SelectionConstants, PoolInv, NEW S, DOMAIN pending' = TheSelection!Pending \ S,
           \A t \in TheSelection!Pending \ S : pending'[t] = pending[t],
           TheSelection!IndexMatchesPending', processed' \subseteq PoolTransactions, blacklisted' \subseteq PoolTransactions,
           UNCHANGED <<nonceTracker, config, now, spinning, added, updates, protected>>
    PROVE  PoolInv'
<1>1. TheSelection!Pending' = TheSelection!Pending \ S
  BY DEF TheSelection!Pending
<1>2. /\ TheSelection!Pending' \subseteq PoolTransactions
      /\ \A t \in TheSelection!Pending' : pending'[t] \in [addedAt : 0 .. now', place : 1 .. added']
  BY <1>1 DEF PoolInv, TheSelection!TypeOK
<1>3. /\ DOMAIN accountTransactions' \subseteq PoolAccounts
      /\ \A a \in DOMAIN accountTransactions' : accountTransactions'[a] \subseteq PoolTransactions
  BY <1>2, TxsAre DEF TheSelection!IndexMatchesPending, TheSelection!Of
<1>4. TheSelection!TypeOK'
  BY <1>2, <1>3 DEF PoolInv, TheSelection!TypeOK
<1>5. TrackerAhead' /\ TheSelection!NonceOrder' /\ ProtectedOn'
  BY <1>1 DEF PoolInv, TrackerAhead, TheSelection!NonceOrder, ProtectedOn
<1> QED
  BY <1>4, <1>5 DEF PoolInv

LEMMA PoolInit == ASSUME SelectionConstants PROVE TheSelection!Init => PoolInv
<1> SUFFICES ASSUME TheSelection!Init PROVE PoolInv
  OBVIOUS
<1> USE DEF TheSelection!Init
<1>1. TheSelection!Pending = {}
  BY DEF TheSelection!Pending
<1>2. PoolConfig.spamProtection \in BOOLEAN
  BY ConfigsAre DEF TheSelection!Config
<1>3. TheSelection!TypeOK
  <2>1. protected \in BOOLEAN /\ spinning \in BOOLEAN
    BY <1>2
  <2>2. nonceTracker \in [PoolAccounts -> Nat] /\ DOMAIN accountTransactions = {}
    OBVIOUS
  <2>3. now \in 0 .. MaxPoolTime /\ added \in 0 .. MaxAdded /\ updates \in 0 .. MaxUpdates
    BY BoundsAre
  <2>4. processed \subseteq PoolTransactions /\ blacklisted \subseteq PoolTransactions /\ config \in PoolConfigs
    BY ConfigsAre
  <2> QED
    BY <2>1, <2>2, <2>3, <2>4, <1>1 DEF TheSelection!TypeOK
<1>4. TheSelection!IndexMatchesPending
  BY <1>1 DEF TheSelection!IndexMatchesPending
<1> QED
  BY <1>1, <1>3, <1>4 DEF PoolInv, TrackerAhead, TheSelection!NonceOrder, ProtectedOn

\* An admission: evictions first, then the new transaction.
LEMMA PoolAdds ==
    ASSUME SelectionConstants, PoolInv, NEW t \in PoolTransactions, TheSelection!AddTransaction(t)
    PROVE  PoolInv'
<1> DEFINE stay == TheSelection!Pending \ TheSelection!Evicted
<1>1. /\ t \notin TheSelection!Pending /\ t.from \in PoolAccounts /\ t.nonce \in Nat
      /\ config.spamProtection => t.nonce >= nonceTracker[t.from]
  BY TxsAre, SelectionCardinality DEF TheSelection!AddTransaction, TheSelection!Acceptable, TheSelection!WithinAccountLimits
<1>2. /\ pending' = [u \in stay \cup {t} |->
                        IF u = t THEN [addedAt |-> now, place |-> added + 1] ELSE pending[u]]
      /\ TheSelection!Pending' = stay \cup {t}
  BY DEF TheSelection!AddTransaction, TheSelection!Admitted, TheSelection!Pending
<1>3. /\ pending'[t] = [addedAt |-> now, place |-> added + 1]
      /\ \A u \in stay : pending'[u] = pending[u]
  BY <1>1, <1>2
<1>4. /\ UNCHANGED <<processed, blacklisted, config, now, spinning, updates, protected>>
      /\ added' = added + 1 /\ added < MaxAdded
  BY DEF TheSelection!AddTransaction, TheSelection!Admitted
<1>5. /\ nonceTracker \in [PoolAccounts -> Nat]
      /\ nonceTracker' = [nonceTracker EXCEPT ![t.from] = IF t.nonce >= @ THEN t.nonce + 1 ELSE @]
  BY DEF TheSelection!AddTransaction, TheSelection!Admitted, PoolInv, TheSelection!TypeOK
<1>6. /\ nonceTracker' \in [PoolAccounts -> Nat]
      /\ \A a \in PoolAccounts : nonceTracker'[a] >= nonceTracker[a]
      /\ nonceTracker'[t.from] > t.nonce
  BY <1>1, <1>5
<1>7. accountTransactions' = [a \in {u.from : u \in TheSelection!Pending'} |-> {u \in TheSelection!Pending' : u.from = a}]
  <2>1. TheSelection!Untracked(TheSelection!Evicted) = [a \in {u.from : u \in stay} |-> TheSelection!Of(a) \ TheSelection!Evicted]
    BY UntrackedIsIndex DEF PoolInv
  <2>2. {u.from : u \in stay} \cup {t.from} = {u.from : u \in TheSelection!Pending'}
    BY <1>2
  <2>3. \A a \in {u.from : u \in TheSelection!Pending'} :
          (IF a \in {u.from : u \in stay} THEN TheSelection!Of(a) \ TheSelection!Evicted ELSE {})
              \cup (IF a = t.from THEN {t} ELSE {}) = {u \in TheSelection!Pending' : u.from = a}
    BY <1>1, <1>2 DEF TheSelection!Of
  <2> QED
    BY <2>1, <2>2, <2>3 DEF TheSelection!AddTransaction, TheSelection!Admitted
<1>8. TheSelection!IndexMatchesPending'
  BY <1>7 DEF TheSelection!IndexMatchesPending, TheSelection!Of
<1>9. TheSelection!TypeOK'
  <2>1. /\ TheSelection!Pending' \subseteq PoolTransactions
        /\ \A u \in TheSelection!Pending' : pending'[u] \in [addedAt : 0 .. now', place : 1 .. added']
    BY <1>2, <1>3, <1>4, BoundsAre DEF PoolInv, TheSelection!TypeOK
  <2>2. /\ DOMAIN accountTransactions' \subseteq PoolAccounts
        /\ \A a \in DOMAIN accountTransactions' : accountTransactions'[a] \subseteq PoolTransactions
    BY <1>7, <2>1, TxsAre
  <2> QED
    BY <2>1, <2>2, <1>4, <1>6, BoundsAre DEF PoolInv, TheSelection!TypeOK
<1>10. TrackerAhead'
  <2> SUFFICES ASSUME protected', NEW u \in TheSelection!Pending' PROVE u.nonce < nonceTracker'[u.from]
    BY DEF TrackerAhead
  <2>1. CASE u = t
    BY <2>1, <1>1, <1>6
  <2>2. CASE u # t
    <3>1. u \in TheSelection!Pending /\ u.nonce < nonceTracker[u.from]
      BY <2>2, <1>2, <1>4 DEF PoolInv, TrackerAhead
    <3>2. u.from \in PoolAccounts /\ u.nonce \in Nat
      BY <3>1, TxsAre DEF PoolInv, TheSelection!TypeOK
    <3> QED
      BY <3>1, <3>2, <1>5, <1>6
  <2> QED
    BY <2>1, <2>2
<1>11. TheSelection!NonceOrder'
  <2> SUFFICES ASSUME protected', NEW u \in TheSelection!Pending', NEW v \in TheSelection!Pending',
                      u.from = v.from, pending'[u].place < pending'[v].place
               PROVE  u.nonce < v.nonce
    BY DEF TheSelection!NonceOrder
  <2>1. protected /\ config.spamProtection
    BY <1>4 DEF PoolInv, ProtectedOn
  <2>2. \A w \in stay : pending[w].place \in 1 .. added
    BY DEF PoolInv, TheSelection!TypeOK
  <2>3. added \in Nat
    BY DEF PoolInv, TheSelection!TypeOK
  <2>4. CASE u = t
    BY <2>2, <2>3, <2>4, <1>2, <1>3
  <2>5. CASE u # t /\ v = t
    <3>1. u \in TheSelection!Pending /\ u.nonce < nonceTracker[u.from]
      BY <2>1, <2>5, <1>2 DEF PoolInv, TrackerAhead
    <3>2. u.nonce \in Nat /\ u.from \in PoolAccounts
      BY <3>1, TxsAre DEF PoolInv, TheSelection!TypeOK
    <3> QED
      BY <3>1, <3>2, <2>1, <2>5, <1>1, <1>5
  <2>6. CASE u # t /\ v # t
    BY <2>1, <2>6, <1>2, <1>3 DEF PoolInv, TheSelection!NonceOrder
  <2> QED
    BY <2>4, <2>5, <2>6
<1> QED
  BY <1>4, <1>8, <1>9, <1>10, <1>11 DEF PoolInv, ProtectedOn

\* The invariant is inductive.
LEMMA PoolNext == ASSUME SelectionConstants PROVE PoolInv /\ [TheSelection!Next]_TheSelection!vars => PoolInv'
<1> SUFFICES ASSUME PoolInv, [TheSelection!Next]_TheSelection!vars PROVE PoolInv'
  OBVIOUS
<1>1. ASSUME NEW t \in PoolTransactions, TheSelection!AddTransaction(t) PROVE PoolInv'
  BY <1>1, PoolAdds
<1>2. ASSUME NEW t \in PoolTransactions, TheSelection!AddTransactionSpins(t) PROVE PoolInv'
  BY <1>2 DEF TheSelection!AddTransactionSpins, PoolInv, TheSelection!TypeOK, TheSelection!IndexMatchesPending, TheSelection!Of, TheSelection!Pending, ProtectedOn,
              TrackerAhead, TheSelection!NonceOrder
<1>3. ASSUME NEW t \in PoolTransactions, TheSelection!RemoveTransaction(t) PROVE PoolInv'
  BY <1>3, PoolRemoves, PoolShrinks DEF TheSelection!RemoveTransaction, PoolInv, TheSelection!TypeOK
<1>4. ASSUME NEW t \in PoolTransactions, TheSelection!BlacklistTransaction(t) PROVE PoolInv'
  BY <1>4, PoolRemoves, PoolShrinks DEF TheSelection!BlacklistTransaction, PoolInv, TheSelection!TypeOK
<1>5. ASSUME NEW S \in SUBSET PoolTransactions, TheSelection!MarkTransactionsProcessed(S) PROVE PoolInv'
  BY <1>5, PoolRemoves, PoolShrinks DEF TheSelection!MarkTransactionsProcessed, PoolInv, TheSelection!TypeOK
<1>6. ASSUME NEW maxAge, TheSelection!CleanupOldTransactions(maxAge) PROVE PoolInv'
  BY <1>6, PoolRemoves, PoolShrinks DEF TheSelection!CleanupOldTransactions, PoolInv, TheSelection!TypeOK
<1>7. ASSUME NEW c \in PoolConfigs, TheSelection!UpdateConfig(c) PROVE PoolInv'
  <2>1. c.spamProtection \in BOOLEAN
    BY ConfigsAre DEF TheSelection!Config
  <2>2. TheSelection!TypeOK'
    BY <1>7, <2>1, BoundsAre DEF TheSelection!UpdateConfig, PoolInv, TheSelection!TypeOK, TheSelection!Pending
  <2>3. TheSelection!IndexMatchesPending'
    BY <1>7 DEF TheSelection!UpdateConfig, PoolInv, TheSelection!IndexMatchesPending, TheSelection!Of, TheSelection!Pending
  <2>4. ProtectedOn' /\ TrackerAhead' /\ TheSelection!NonceOrder'
    BY <1>7, <2>1 DEF TheSelection!UpdateConfig, PoolInv, TheSelection!TypeOK, ProtectedOn, TrackerAhead, TheSelection!NonceOrder, TheSelection!Pending
  <2> QED
    BY <2>2, <2>3, <2>4 DEF PoolInv
<1>8. ASSUME TheSelection!Clear PROVE PoolInv'
  <2>1. TheSelection!Pending' = {} /\ accountTransactions' = [a \in {} |-> {}]
    BY <1>8 DEF TheSelection!Clear, TheSelection!Pending
  <2>2. TheSelection!TypeOK'
    BY <1>8, <2>1 DEF TheSelection!Clear, PoolInv, TheSelection!TypeOK
  <2>3. TheSelection!IndexMatchesPending' /\ TrackerAhead' /\ TheSelection!NonceOrder'
    BY <2>1 DEF TheSelection!IndexMatchesPending, TrackerAhead, TheSelection!NonceOrder
  <2> QED
    BY <1>8, <2>2, <2>3 DEF TheSelection!Clear, PoolInv, ProtectedOn
<1>9. ASSUME TheSelection!Tick PROVE PoolInv'
  <2>1. TheSelection!TypeOK'
    BY <1>9, BoundsAre DEF TheSelection!Tick, PoolInv, TheSelection!TypeOK, TheSelection!Pending
  <2> QED
    BY <1>9, <2>1 DEF TheSelection!Tick, PoolInv, TheSelection!IndexMatchesPending, TheSelection!Of, TheSelection!Pending, ProtectedOn, TrackerAhead,
                      TheSelection!NonceOrder
<1>10. CASE UNCHANGED TheSelection!vars
  BY <1>10 DEF TheSelection!vars, PoolInv, TheSelection!TypeOK, TheSelection!IndexMatchesPending, TheSelection!Of, TheSelection!Pending, ProtectedOn, TrackerAhead,
               TheSelection!NonceOrder
<1> QED
  BY <1>1, <1>2, <1>3, <1>4, <1>5, <1>6, <1>7, <1>8, <1>9, <1>10 DEF TheSelection!Next

\* A step of the pool takes in one transaction at most, and the clock goes on.
LEMMA PoolGoesOn ==
    ASSUME PoolInv, [TheSelection!Next]_TheSelection!vars
    PROVE  /\ now <= now'
           /\ \/ DOMAIN pending' \subseteq TheSelection!Pending /\ \A t \in DOMAIN pending' : pending'[t] = pending[t]
              \/ \E t : /\ DOMAIN pending' \subseteq TheSelection!Pending \cup {t} /\ t \in DOMAIN pending'
                        /\ pending'[t] = [addedAt |-> now, place |-> added + 1]
                        /\ \A u \in DOMAIN pending' : u # t => pending'[u] = pending[u]
<1>0. now \in Nat
  BY DEF PoolInv, TheSelection!TypeOK
<1>1. ASSUME NEW t \in PoolTransactions, TheSelection!AddTransaction(t)
      PROVE  /\ now' = now /\ DOMAIN pending' \subseteq TheSelection!Pending \cup {t} /\ t \in DOMAIN pending'
             /\ pending'[t] = [addedAt |-> now, place |-> added + 1]
             /\ \A u \in DOMAIN pending' : u # t => pending'[u] = pending[u]
  <2> DEFINE e == [addedAt |-> now, place |-> added + 1]
  <2>1. now' = now /\ pending' = [u \in (TheSelection!Pending \ TheSelection!Evicted) \cup {t} |-> IF u = t THEN e ELSE pending[u]]
    BY <1>1 DEF TheSelection!AddTransaction, TheSelection!Admitted
  <2> HIDE DEF e
  <2>2. /\ DOMAIN pending' \subseteq TheSelection!Pending \cup {t} /\ t \in DOMAIN pending' /\ pending'[t] = e
        /\ \A u \in DOMAIN pending' : u # t => pending'[u] = pending[u]
    BY <2>1
  <2> QED  BY <2>1, <2>2 DEF e
<1>2. ASSUME NEW S, TheSelection!Removed(S) PROVE DOMAIN pending' \subseteq TheSelection!Pending /\ \A t \in DOMAIN pending' : pending'[t] = pending[t]
  BY <1>2 DEF TheSelection!Removed
<1>3. ASSUME NEW t \in PoolTransactions, TheSelection!RemoveTransaction(t) \/ TheSelection!BlacklistTransaction(t)
      PROVE  now' = now /\ DOMAIN pending' \subseteq TheSelection!Pending /\ \A u \in DOMAIN pending' : pending'[u] = pending[u]
  BY <1>2, <1>3 DEF TheSelection!RemoveTransaction, TheSelection!BlacklistTransaction
<1>4. ASSUME NEW S, TheSelection!MarkTransactionsProcessed(S)
      PROVE  now' = now /\ DOMAIN pending' \subseteq TheSelection!Pending /\ \A u \in DOMAIN pending' : pending'[u] = pending[u]
  BY <1>2, <1>4 DEF TheSelection!MarkTransactionsProcessed
<1>5. ASSUME NEW maxAge, TheSelection!CleanupOldTransactions(maxAge)
      PROVE  now' = now /\ DOMAIN pending' \subseteq TheSelection!Pending /\ \A u \in DOMAIN pending' : pending'[u] = pending[u]
  BY <1>2, <1>5 DEF TheSelection!CleanupOldTransactions
<1>6. ASSUME TheSelection!Clear PROVE now' = now /\ DOMAIN pending' = {}
  BY <1>6 DEF TheSelection!Clear
<1>7. ASSUME pending' = pending, now' = now \/ now' = now + 1
      PROVE  now <= now' /\ DOMAIN pending' \subseteq TheSelection!Pending /\ \A t \in DOMAIN pending' : pending'[t] = pending[t]
  BY <1>0, <1>7 DEF TheSelection!Pending
<1>8. CASE UNCHANGED TheSelection!vars
  BY <1>7, <1>8 DEF TheSelection!vars
<1>9. CASE TheSelection!Next
  <2>1. ASSUME NEW t \in PoolTransactions, TheSelection!AddTransactionSpins(t) PROVE pending' = pending /\ now' = now
    BY <2>1 DEF TheSelection!AddTransactionSpins
  <2>2. ASSUME NEW c, TheSelection!UpdateConfig(c) PROVE pending' = pending /\ now' = now
    BY <2>2 DEF TheSelection!UpdateConfig
  <2>3. ASSUME TheSelection!Tick PROVE pending' = pending /\ now' = now + 1
    BY <2>3 DEF TheSelection!Tick
  <2>4. CASE \E t \in PoolTransactions : TheSelection!AddTransaction(t)
    BY <1>0, <1>1, <2>4
  <2>5. CASE \E t \in PoolTransactions : TheSelection!RemoveTransaction(t) \/ TheSelection!BlacklistTransaction(t)
    BY <1>0, <1>3, <2>5
  <2>6. CASE \E S \in SUBSET PoolTransactions : TheSelection!MarkTransactionsProcessed(S)
    BY <1>0, <1>4, <2>6
  <2>7. CASE \E maxAge \in 0..MaxPoolTime : TheSelection!CleanupOldTransactions(maxAge)
    BY <1>0, <1>5, <2>7
  <2>8. CASE TheSelection!Clear
    BY <1>0, <1>6, <2>8
  <2>9. CASE (\E t \in PoolTransactions : TheSelection!AddTransactionSpins(t)) \/ (\E c \in PoolConfigs : TheSelection!UpdateConfig(c)) \/ TheSelection!Tick
    BY <1>7, <2>1, <2>2, <2>3, <2>9
  <2> QED  BY <1>9, <2>4, <2>5, <2>6, <2>7, <2>8, <2>9 DEF TheSelection!Next
<1> QED  BY <1>8, <1>9

PlacesOrdered ==
    /\ IsFiniteSet(TheSelection!Pending)
    /\ \A t, u \in TheSelection!Pending :
          /\ pending[t].place = pending[u].place => t = u
          /\ pending[t].place < pending[u].place => pending[t].addedAt <= pending[u].addedAt
TriedKept ==
    /\ DOMAIN tried = TheSelection!Pending
    /\ \A t \in TheSelection!Pending : tried[t].retryCount \in 0..MaxAttempts /\ tried[t].lastAttempt \in Int /\ tried[t].lastAttempt <= now

SelectionInv == PoolInv /\ PlacesOrdered /\ TriedKept

LEMMA EntriesTyped ==
    ASSUME PoolInv
    PROVE  /\ now \in Nat /\ added \in Nat
           /\ \A t \in TheSelection!Pending : /\ pending[t].addedAt \in Nat /\ pending[t].addedAt <= now
                                 /\ pending[t].place \in Nat /\ pending[t].place <= added
BY DEF PoolInv, TheSelection!TypeOK

LEMMA PlacesStay ==
    ASSUME SelectionConstants, PoolInv, PlacesOrdered, [TheSelection!Next]_TheSelection!vars
    PROVE  PlacesOrdered'
<1>1. /\ now \in Nat /\ added \in Nat
      /\ \A t \in TheSelection!Pending : /\ pending[t].addedAt \in Nat /\ pending[t].addedAt <= now
                            /\ pending[t].place \in Nat /\ pending[t].place <= added
  BY EntriesTyped
<1>2. TheSelection!Pending' = DOMAIN pending'
  BY DEF TheSelection!Pending
<1>3. CASE DOMAIN pending' \subseteq TheSelection!Pending /\ \A t \in DOMAIN pending' : pending'[t] = pending[t]
  <2>1. IsFiniteSet(TheSelection!Pending')
    BY <1>2, <1>3, FS_Subset DEF PlacesOrdered
  <2> QED  BY <1>2, <1>3, <2>1 DEF PlacesOrdered
<1>4. ASSUME NEW t, DOMAIN pending' \subseteq TheSelection!Pending \cup {t}, t \in DOMAIN pending',
             pending'[t] = [addedAt |-> now, place |-> added + 1],
             \A u \in DOMAIN pending' : u # t => pending'[u] = pending[u]
      PROVE  PlacesOrdered'
  <2>1. IsFiniteSet(TheSelection!Pending')
    <3>1. IsFiniteSet(TheSelection!Pending \cup {t})
      BY FS_AddElement DEF PlacesOrdered
    <3>2. TheSelection!Pending' \in SUBSET (TheSelection!Pending \cup {t})
      BY <1>2, <1>4
    <3> QED  BY <3>1, <3>2, FS_Subset
  <2>2. pending'[t].addedAt = now /\ pending'[t].place = added + 1
    BY <1>4
  <2>3. \A u \in DOMAIN pending' : u # t =>
           /\ u \in TheSelection!Pending /\ pending'[u] = pending[u] /\ pending'[u].addedAt <= now
           /\ pending'[u].place \in Nat /\ pending'[u].place <= added
    BY <1>1, <1>4
  <2>4. ASSUME NEW u \in TheSelection!Pending', NEW v \in TheSelection!Pending'
        PROVE  /\ pending'[u].place = pending'[v].place => u = v
               /\ pending'[u].place < pending'[v].place => pending'[u].addedAt <= pending'[v].addedAt
    <3>1. CASE u = t \/ v = t
      BY <1>1, <1>2, <2>2, <2>3, <3>1
    <3>2. CASE u # t /\ v # t
      BY <1>2, <2>3, <3>2 DEF PlacesOrdered
    <3> QED  BY <3>1, <3>2
  <2> QED  BY <2>1, <2>4 DEF PlacesOrdered
<1> QED  BY <1>3, <1>4, PoolGoesOn

LEMMA SelectionStarts == ASSUME SelectionConstants, TheSelection!SelectionInit PROVE SelectionInv
<1>1. TheSelection!Pending = {} /\ DOMAIN tried = {}
  BY DEF TheSelection!SelectionInit, TheSelection!Init, TheSelection!Pending
<1>2. PlacesOrdered
  BY <1>1, FS_EmptySet DEF PlacesOrdered
<1> QED  BY <1>1, <1>2, PoolInit DEF SelectionInv, TheSelection!SelectionInit, TriedKept

LEMMA AttemptsCounted ==
    ASSUME SelectionConstants, SelectionInv, NEW S, TheSelection!Attempted(S), \A t \in S : tried[t].retryCount < MaxAttempts,
           UNCHANGED TheSelection!poolState
    PROVE  SelectionInv'
<1>0. PoolInv /\ PlacesOrdered /\ TriedKept /\ now \in Nat
  BY EntriesTyped DEF SelectionInv
<1>1. TheSelection!Pending' = TheSelection!Pending /\ now' = now /\ pending' = pending
  BY DEF TheSelection!poolState, TheSelection!vars, TheSelection!Pending
<1>2. PoolInv'
  BY <1>0, PoolNext DEF TheSelection!poolState
<1>3. PlacesOrdered'
  BY <1>0, <1>1 DEF PlacesOrdered
<1>4. TriedKept'
  <2>1. DOMAIN tried' = TheSelection!Pending
    BY DEF TheSelection!Attempted
  <2>2. ASSUME NEW t \in TheSelection!Pending
        PROVE  tried'[t].retryCount \in 0..MaxAttempts /\ tried'[t].lastAttempt \in Int /\ tried'[t].lastAttempt <= now
    <3>1. tried[t].retryCount \in 0..MaxAttempts /\ tried[t].lastAttempt \in Int /\ tried[t].lastAttempt <= now
      BY <1>0 DEF TriedKept
    <3>2. CASE t \in S
      <4>1. tried'[t] = [retryCount |-> tried[t].retryCount + 1, lastAttempt |-> now]
        BY <3>2 DEF TheSelection!Attempted
      <4>2. tried[t].retryCount < MaxAttempts
        BY <3>2
      <4> QED  BY <1>0, <3>1, <4>1, <4>2 DEF SelectionConstants
    <3>3. CASE t \notin S
      <4>1. tried'[t] = tried[t]
        BY <3>3 DEF TheSelection!Attempted
      <4> QED  BY <3>1, <4>1
    <3> QED  BY <3>2, <3>3
  <2> QED  BY <1>1, <2>1, <2>2 DEF TriedKept
<1> QED  BY <1>2, <1>3, <1>4 DEF SelectionInv

LEMMA SelectionStep ==
    ASSUME SelectionConstants, SelectionInv, [TheSelection!SelectionNext]_TheSelection!selectionVars
    PROVE  SelectionInv'
<1>0. PoolInv /\ PlacesOrdered /\ TriedKept /\ now \in Nat
  BY EntriesTyped DEF SelectionInv
<1>1. CASE TheSelection!PoolStep
  <2>1. PoolInv' /\ PlacesOrdered' /\ now <= now'
    BY <1>0, <1>1, PoolNext, PlacesStay, PoolGoesOn DEF TheSelection!PoolStep
  <2>2. now' \in Nat
    BY <2>1 DEF PoolInv, TheSelection!TypeOK
  <2>3. TriedKept'
    <3>1. TheSelection!Pending' = DOMAIN pending' /\ DOMAIN tried' = DOMAIN pending'
      BY <1>1 DEF TheSelection!PoolStep, TheSelection!Pending
    <3>2. ASSUME NEW t \in DOMAIN pending'
          PROVE  tried'[t].retryCount \in 0..MaxAttempts /\ tried'[t].lastAttempt \in Int /\ tried'[t].lastAttempt <= now'
      <4>1. CASE t \in TheSelection!Pending
        <5>1. tried'[t] = tried[t]
          BY <1>1, <4>1 DEF TheSelection!PoolStep
        <5>2. tried[t].retryCount \in 0..MaxAttempts /\ tried[t].lastAttempt \in Int /\ tried[t].lastAttempt <= now
          BY <1>0, <4>1 DEF TriedKept
        <5> QED  BY <1>0, <2>1, <2>2, <5>1, <5>2
      <4>2. CASE t \notin TheSelection!Pending
        <5>1. tried'[t] = TheSelection!NotAttempted
          BY <1>1, <4>2 DEF TheSelection!PoolStep
        <5> QED  BY <2>2, <5>1 DEF TheSelection!NotAttempted, SelectionConstants
      <4> QED  BY <4>1, <4>2
    <3> QED  BY <3>1, <3>2 DEF TriedKept
  <2> QED  BY <2>1, <2>3 DEF SelectionInv
<1>2. ASSUME NEW strategy, NEW gasLimit, NEW size, TheSelection!GetTransactionsForBlock(strategy, gasLimit, size) PROVE SelectionInv'
  <2> DEFINE S == TheSelection!ToSet(TheSelection!Selected(strategy, gasLimit, size))
  <2>1. TheSelection!Attempted(S) /\ (\A t \in S : tried[t].retryCount < MaxAttempts) /\ UNCHANGED TheSelection!poolState
    BY <1>2 DEF TheSelection!GetTransactionsForBlock
  <2> HIDE DEF S
  <2> QED  BY <2>1, AttemptsCounted
<1>3. ASSUME NEW maxRetries, TheSelection!RetryFailedTransactions(maxRetries) PROVE SelectionInv'
  <2> DEFINE S == {t \in TheSelection!Pending : tried[t].retryCount < maxRetries /\ now - tried[t].lastAttempt > Cooldown}
  <2>1. TheSelection!Attempted(S) /\ (\A t \in S : tried[t].retryCount < MaxAttempts) /\ UNCHANGED TheSelection!poolState
    BY <1>3 DEF TheSelection!RetryFailedTransactions
  <2> HIDE DEF S
  <2> QED  BY <2>1, AttemptsCounted
<1>4. CASE UNCHANGED TheSelection!selectionVars
  <2>1. UNCHANGED TheSelection!poolState /\ UNCHANGED tried
    BY <1>4 DEF TheSelection!selectionVars, TheSelection!poolState, TheSelection!vars
  <2>2. PoolInv'
    BY <1>0, <2>1, PoolNext DEF TheSelection!poolState
  <2>3. PlacesOrdered' /\ TriedKept'
    BY <1>0, <2>1 DEF TheSelection!poolState, TheSelection!vars, PlacesOrdered, TriedKept, TheSelection!Pending
  <2> QED  BY <2>2, <2>3 DEF SelectionInv
<1> QED  BY <1>1, <1>2, <1>3, <1>4 DEF TheSelection!SelectionNext

-----------------------------------------------------------------------------
\* The order of every strategy is one of all that are pending.
Strategies == {"PRIORITY", "PRICE", "FIFO"}

LEMMA OrderIs ==
    ASSUME SelectionConstants, SelectionInv, NEW strategy \in Strategies
    PROVE  /\ \A t \in TheSelection!Pending : ~TheSelection!ComesBefore(t, t, strategy)
           /\ \A t, u \in TheSelection!Pending : t # u => TheSelection!ComesBefore(t, u, strategy) \/ TheSelection!ComesBefore(u, t, strategy)
           /\ \A t, u, v \in TheSelection!Pending : TheSelection!ComesBefore(t, u, strategy) /\ TheSelection!ComesBefore(u, v, strategy) => TheSelection!ComesBefore(t, v, strategy)
<1>1. \A t \in TheSelection!Pending : pending[t].addedAt \in Nat /\ pending[t].place \in Nat /\ t.gasPrice \in Nat
  BY EntriesTyped, TxsAre DEF SelectionInv, PoolInv, TheSelection!TypeOK
<1>2. \A t \in TheSelection!Pending : TheSelection!Priority(t) \in Int
  BY <1>1 DEF TheSelection!Priority
<1>3. \A t \in TheSelection!Pending : TheSelection!Rank(t, strategy) \in Int
  BY <1>1, <1>2 DEF TheSelection!Rank, Strategies
<1>4. \A t, u \in TheSelection!Pending : pending[t].place = pending[u].place => t = u
  BY DEF SelectionInv, PlacesOrdered
<1> QED  BY <1>1, <1>3, <1>4 DEF TheSelection!ComesBefore

LEMMA SortedIs ==
    ASSUME SelectionConstants, SelectionInv, NEW strategy \in Strategies
    PROVE  \E N \in Nat :
              /\ DOMAIN TheSelection!Sorted(strategy) = 1..N /\ Len(TheSelection!Sorted(strategy)) = N
              /\ \A n \in 1..N : TheSelection!Sorted(strategy)[n] \in TheSelection!Pending
              /\ \A t \in TheSelection!Pending : \E n \in 1..N : TheSelection!Sorted(strategy)[n] = t
              /\ \A m, n \in 1..N : TheSelection!ComesBefore(TheSelection!Sorted(strategy)[m], TheSelection!Sorted(strategy)[n], strategy) => m < n
<1> DEFINE N == Cardinality(TheSelection!Pending)
           Ahead(t) == {u \in TheSelection!Pending : TheSelection!ComesBefore(u, t, strategy)}
           turn == [t \in TheSelection!Pending |-> TheSelection!Turn(t, strategy)]
<1>1. IsFiniteSet(TheSelection!Pending) /\ N \in Nat
  BY FS_CardinalityType DEF SelectionInv, PlacesOrdered
<1>2. ASSUME NEW t \in TheSelection!Pending
      PROVE  IsFiniteSet(Ahead(t)) /\ Cardinality(Ahead(t)) \in Nat /\ Cardinality(Ahead(t)) < N /\ TheSelection!Turn(t, strategy) = 1 + Cardinality(Ahead(t))
  <2>1. Ahead(t) \in SUBSET TheSelection!Pending /\ t \notin Ahead(t)
    BY OrderIs
  <2>2. TheSelection!Turn(t, strategy) = 1 + Cardinality(Ahead(t))
    BY SelectionCardinality DEF TheSelection!Turn
  <2> HIDE DEF Ahead
  <2>3. IsFiniteSet(Ahead(t)) /\ Cardinality(Ahead(t)) <= N /\ Cardinality(Ahead(t)) # N
    BY <1>1, <2>1, FS_Subset
  <2> QED  BY <1>1, <2>2, <2>3, FS_CardinalityType
<1>3. ASSUME NEW t \in TheSelection!Pending, NEW u \in TheSelection!Pending, TheSelection!ComesBefore(t, u, strategy)
      PROVE  TheSelection!Turn(t, strategy) < TheSelection!Turn(u, strategy)
  <2>1. Ahead(t) \in SUBSET Ahead(u) /\ t \in Ahead(u) /\ t \notin Ahead(t)
    BY <1>3, OrderIs
  <2>2. /\ IsFiniteSet(Ahead(u)) /\ Cardinality(Ahead(t)) \in Nat /\ Cardinality(Ahead(u)) \in Nat
        /\ TheSelection!Turn(t, strategy) = 1 + Cardinality(Ahead(t)) /\ TheSelection!Turn(u, strategy) = 1 + Cardinality(Ahead(u))
    BY <1>2
  <2> HIDE DEF Ahead
  <2>3. Cardinality(Ahead(t)) <= Cardinality(Ahead(u)) /\ Cardinality(Ahead(t)) # Cardinality(Ahead(u))
    BY <2>1, <2>2, FS_Subset
  <2> QED  BY <2>2, <2>3
<1>4. \A t \in TheSelection!Pending : TheSelection!Turn(t, strategy) \in 1..N
  <2> TAKE t \in TheSelection!Pending
  <2> DEFINE c == Cardinality(Ahead(t))
  <2>1. c \in Nat /\ c < N /\ TheSelection!Turn(t, strategy) = 1 + c
    BY <1>2
  <2> HIDE DEF c, N
  <2> QED  BY <1>1, <2>1
<1>5. \A t, u \in TheSelection!Pending : TheSelection!Turn(t, strategy) = TheSelection!Turn(u, strategy) => t = u
  <2> SUFFICES ASSUME NEW t \in TheSelection!Pending, NEW u \in TheSelection!Pending, TheSelection!Turn(t, strategy) = TheSelection!Turn(u, strategy), t # u PROVE FALSE
    OBVIOUS
  <2>1. TheSelection!ComesBefore(t, u, strategy) \/ TheSelection!ComesBefore(u, t, strategy)
    BY OrderIs
  <2>2. TheSelection!Turn(t, strategy) < TheSelection!Turn(u, strategy) \/ TheSelection!Turn(u, strategy) < TheSelection!Turn(t, strategy)
    BY <1>3, <2>1
  <2>3. TheSelection!Turn(t, strategy) \in 1..N /\ TheSelection!Turn(u, strategy) \in 1..N
    BY <1>4
  <2> HIDE DEF N
  <2> QED  BY <1>1, <2>2, <2>3
<1> HIDE DEF Ahead
<1>6. turn \in Injection(TheSelection!Pending, 1..N)
  BY <1>4, <1>5 DEF Injection, IsInjective
<1>7. IsFiniteSet(1..N) /\ Cardinality(1..N) = N
  <2> HIDE DEF N
  <2>1. N \in Int /\ 1 \in Int /\ (1 > N => N = 0)
    BY <1>1
  <2>2. IsFiniteSet(1..N) /\ Cardinality(1..N) = IF 1 > N THEN 0 ELSE N - 1 + 1
    BY <2>1, FS_Interval
  <2> QED  BY <1>1, <2>1, <2>2
<1>8. turn \in Surjection(TheSelection!Pending, 1..N)
  <2>1. Cardinality(TheSelection!Pending) = Cardinality(1..N)
    BY <1>7
  <2> HIDE DEF turn, N
  <2> QED  BY <1>6, <1>7, <2>1, FS_Injection
<1>9. \A n \in 1..N : \E t \in TheSelection!Pending : TheSelection!Turn(t, strategy) = n
  BY <1>8 DEF Surjection
<1> DEFINE s == TheSelection!Sorted(strategy)
<1>10. s = [n \in 1..N |-> CHOOSE t \in TheSelection!Pending : TheSelection!Turn(t, strategy) = n]
  BY SelectionCardinality DEF TheSelection!Sorted
<1> HIDE DEF N, s, turn
<1>11. DOMAIN s = 1..N /\ \A n \in 1..N : s[n] \in TheSelection!Pending /\ TheSelection!Turn(s[n], strategy) = n
  BY <1>9, <1>10
<1>12. Len(s) = N
  <2>1. s \in Seq(TheSelection!Pending)
    <3>1. s \in [1..N -> TheSelection!Pending]
      <4>1. s = [n \in 1..N |-> s[n]]
        BY <1>10
      <4> QED  BY <1>11, <4>1
    <3> QED  BY <1>1, <3>1
  <2>2. Len(s) \in Nat /\ DOMAIN s = 1..Len(s)
    BY <2>1, LenProperties
  <2> QED  BY <1>1, <1>11, <2>2
<1>13. \A t \in TheSelection!Pending : \E n \in 1..N : s[n] = t
  <2> TAKE t \in TheSelection!Pending
  <2>1. TheSelection!Turn(t, strategy) \in 1..N
    BY <1>4 DEF N
  <2> QED  BY <1>5, <1>11, <2>1
<1>14. \A m, n \in 1..N : TheSelection!ComesBefore(s[m], s[n], strategy) => m < n
  <2> SUFFICES ASSUME NEW m \in 1..N, NEW n \in 1..N, TheSelection!ComesBefore(s[m], s[n], strategy) PROVE m < n
    OBVIOUS
  <2>1. s[m] \in TheSelection!Pending /\ s[n] \in TheSelection!Pending /\ TheSelection!Turn(s[m], strategy) = m /\ TheSelection!Turn(s[n], strategy) = n
    BY <1>11
  <2>2. TheSelection!Turn(s[m], strategy) < TheSelection!Turn(s[n], strategy)
    BY <1>3, <2>1
  <2> QED  BY <2>1, <2>2
<1> QED  BY <1>1, <1>11, <1>12, <1>13, <1>14 DEF s

LEMMA NoGasOfNone == ASSUME NEW txs, Len(txs) = 0 PROVE TheSelection!GasOf(txs) = 0
<1> DEFINE Step(g) == [n \in 0..0 |-> IF n = 0 THEN 0 ELSE g[n - 1] + TheSelection!GasNeeded(txs[n])]
           gas == CHOOSE g : g = Step(g)
<1>1. TheSelection!GasOf(txs) = gas[0]
  BY DEF TheSelection!GasOf
<1>2. \E g : g = Step(g)
  <2> WITNESS [n \in 0..0 |-> 0]
  <2> QED  OBVIOUS
<1>3. gas = Step(gas)
  <2> HIDE DEF Step
  <2> QED  BY <1>2
<1> HIDE DEF gas
<1>4. 0 \in 0..0
  OBVIOUS
<1> QED  BY <1>1, <1>3, <1>4

\* A block is the front of that order, within its limits.
LEMMA SelectedIs ==
    ASSUME SelectionConstants, SelectionInv, NEW strategy \in Strategies, NEW gasLimit \in BlockGasLimits, NEW size \in Sizes
    PROVE  LET s == TheSelection!Sorted(strategy)
               block == TheSelection!Selected(strategy, gasLimit, size)
           IN  \E n \in 0..Len(s) :
                  /\ Len(block) = n /\ DOMAIN block = 1..n /\ \A i \in 1..n : block[i] = s[i]
                  /\ n <= size /\ TheSelection!GasOf(block) <= gasLimit
<1> DEFINE s == TheSelection!Sorted(strategy)
           N == Len(s)
           fitting == {n \in 0..N : n <= size /\ TheSelection!GasOf(SubSeq(s, 1, n)) <= gasLimit}
           best == CHOOSE n \in fitting : \A m \in fitting : m <= n
           block == TheSelection!Selected(strategy, gasLimit, size)
<1>1. N \in Nat /\ DOMAIN s = 1..N /\ \A i \in 1..N : s[i] \in TheSelection!Pending
  BY SortedIs
<1>2. size \in Nat /\ gasLimit \in Nat
  BY DEF SelectionConstants
<1>3. block = SubSeq(s, 1, best)
  BY DEF TheSelection!Selected
<1> HIDE DEF s, N, block
<1>4. ASSUME NEW n \in 0..N
      PROVE  /\ Len(SubSeq(s, 1, n)) = n /\ DOMAIN SubSeq(s, 1, n) = 1..n
             /\ \A i \in 1..n : SubSeq(s, 1, n)[i] = s[i]
  <2>1. n \in Nat /\ 1 \in Int /\ n \in Int /\ \A i \in 1..n : s[i] \in TheSelection!Pending
    BY <1>1
  <2> DEFINE f == SubSeq(s, 1, n)
  <2>2. /\ f \in Seq(TheSelection!Pending) /\ Len(f) = IF 1 <= n THEN n - 1 + 1 ELSE 0
        /\ \A i \in 1..(n - 1 + 1) : f[i] = s[1 + i - 1]
    BY <2>1, SubSeqProperties
  <2> HIDE DEF f
  <2>3. Len(f) = n /\ DOMAIN f = 1..Len(f)
    BY <2>1, <2>2, LenProperties
  <2>4. \A i \in 1..n : f[i] = s[i]
    BY <2>1, <2>2
  <2> QED  BY <2>3, <2>4 DEF f
<1>5. 0 \in fitting
  <2>1. 0 \in 0..N
    BY <1>1
  <2>2. TheSelection!GasOf(SubSeq(s, 1, 0)) = 0
    BY <1>4, <2>1, NoGasOfNone
  <2> QED  BY <1>2, <2>1, <2>2
<1>6. \A n \in fitting : n \in 0..N /\ n <= size /\ TheSelection!GasOf(SubSeq(s, 1, n)) <= gasLimit
  OBVIOUS
<1> HIDE DEF fitting
<1>7. \E n \in fitting : \A m \in fitting : m <= n
  <2> DEFINE T == {N - n : n \in fitting}
  <2>1. T \subseteq Nat /\ N \in T
    BY <1>1, <1>5, <1>6
  <2> HIDE DEF T
  <2>2. PICK k \in T : \A j \in T : k <= j
    BY <2>1, LeastNatural
  <2>3. PICK n \in fitting : k = N - n
    BY DEF T
  <2>4. \A m \in fitting : N - m \in T
    BY DEF T
  <2>5. \A m \in fitting : N - n <= N - m
    BY <2>2, <2>3, <2>4
  <2>6. \A m \in fitting : m <= n
    BY <1>1, <1>6, <2>5
  <2> QED  BY <2>6
<1>8. best \in fitting
  BY <1>7
<1> HIDE DEF best
<1>9. best \in 0..N /\ best <= size /\ TheSelection!GasOf(block) <= gasLimit
  BY <1>3, <1>6, <1>8
<1>10. Len(block) = best /\ DOMAIN block = 1..best /\ \A i \in 1..best : block[i] = s[i]
  BY <1>3, <1>4, <1>9
<1> QED  BY <1>9, <1>10 DEF s, N, block

LEMMA SelectionInvSays ==
    ASSUME SelectionConstants, SelectionInv
    PROVE  TheSelection!SelectionTypeOK /\ TheSelection!BlockIsExecutable /\ TheSelection!BlockWithinLimits
<1>0. PoolInv /\ PlacesOrdered /\ TriedKept
  BY DEF SelectionInv
<1>1. TheSelection!SelectionTypeOK
  BY <1>0 DEF TheSelection!SelectionTypeOK, PoolInv, TriedKept
<1>2. TheSelection!BlockIsExecutable
  <2> SUFFICES ASSUME protected, NEW gasLimit \in BlockGasLimits, NEW size \in Sizes,
                      NEW i \in DOMAIN TheSelection!Selected("FIFO", gasLimit, size), NEW t \in TheSelection!Pending,
                      t.from = TheSelection!Selected("FIFO", gasLimit, size)[i].from, t.nonce < TheSelection!Selected("FIFO", gasLimit, size)[i].nonce
               PROVE  \E j \in 1..(i - 1) : TheSelection!Selected("FIFO", gasLimit, size)[j] = t
    BY DEF TheSelection!BlockIsExecutable
  <2> DEFINE s == TheSelection!Sorted("FIFO")
             block == TheSelection!Selected("FIFO", gasLimit, size)
             u == block[i]
  <2>0. "FIFO" \in Strategies
    BY DEF Strategies
  <2>1. PICK N \in Nat :
              /\ DOMAIN s = 1..N /\ Len(s) = N
              /\ \A n \in 1..N : s[n] \in TheSelection!Pending
              /\ \A v \in TheSelection!Pending : \E n \in 1..N : s[n] = v
              /\ \A m, n \in 1..N : TheSelection!ComesBefore(s[m], s[n], "FIFO") => m < n
    BY <2>0, SortedIs
  <2>2. PICK n \in 0..N : DOMAIN block = 1..n /\ \A k \in 1..n : block[k] = s[k]
    BY <2>0, <2>1, SelectedIs
  <2> HIDE DEF s, block
  <2>3. i \in 1..n /\ i \in 1..N /\ u = s[i] /\ u \in TheSelection!Pending
    BY <2>1, <2>2 DEF block
  <2>4. t.from = u.from /\ t.nonce < u.nonce
    BY DEF block
  <2> HIDE DEF u
  <2>5. t.nonce \in Nat /\ u.nonce \in Nat /\ t # u
    BY <1>0, <2>3, <2>4, TxsAre DEF PoolInv, TheSelection!TypeOK
  <2>6. pending[t].place < pending[u].place
    <3>1. pending[t].place \in Nat /\ pending[u].place \in Nat /\ pending[t].place # pending[u].place
      BY <1>0, <2>3, <2>5, EntriesTyped DEF PlacesOrdered
    <3>2. ~(pending[u].place < pending[t].place)
      BY <1>0, <2>3, <2>4, <2>5 DEF PoolInv, TheSelection!NonceOrder
    <3> QED  BY <3>1, <3>2
  <2>7. pending[t].addedAt <= pending[u].addedAt /\ pending[t].addedAt \in Nat /\ pending[u].addedAt \in Nat
    BY <1>0, <2>3, <2>6, EntriesTyped DEF PlacesOrdered
  <2>8. TheSelection!ComesBefore(t, u, "FIFO")
    <3>1. TheSelection!Rank(t, "FIFO") = pending[t].addedAt /\ TheSelection!Rank(u, "FIFO") = pending[u].addedAt
      BY DEF TheSelection!Rank
    <3> QED  BY <2>6, <2>7, <3>1 DEF TheSelection!ComesBefore
  <2>9. PICK j \in 1..N : s[j] = t
    BY <2>1
  <2>10. j < i
    BY <2>1, <2>3, <2>8, <2>9
  <2>11. j \in 1..(i - 1) /\ j \in 1..n
    BY <2>3, <2>10
  <2> QED  BY <2>2, <2>9, <2>11 DEF block
<1>3. TheSelection!BlockWithinLimits
  <2> SUFFICES ASSUME NEW strategy \in Strategies, NEW gasLimit \in BlockGasLimits, NEW size \in Sizes
               PROVE  LET block == TheSelection!Selected(strategy, gasLimit, size) IN
                      /\ TheSelection!GasOf(block) <= gasLimit /\ Len(block) <= size
                      /\ strategy = "PRICE" => \A t \in TheSelection!Pending \ TheSelection!ToSet(block), u \in TheSelection!ToSet(block) : t.gasPrice <= u.gasPrice
    BY DEF TheSelection!BlockWithinLimits, Strategies
  <2> DEFINE s == TheSelection!Sorted(strategy)
             block == TheSelection!Selected(strategy, gasLimit, size)
  <2>1. PICK N \in Nat :
              /\ DOMAIN s = 1..N /\ Len(s) = N
              /\ \A n \in 1..N : s[n] \in TheSelection!Pending
              /\ \A v \in TheSelection!Pending : \E n \in 1..N : s[n] = v
              /\ \A m, n \in 1..N : TheSelection!ComesBefore(s[m], s[n], strategy) => m < n
    BY SortedIs
  <2>2. PICK n \in 0..N : /\ DOMAIN block = 1..n /\ \A k \in 1..n : block[k] = s[k]
                          /\ Len(block) = n /\ n <= size /\ TheSelection!GasOf(block) <= gasLimit
    BY <2>1, SelectedIs
  <2> HIDE DEF s, block
  <2>3. ASSUME strategy = "PRICE", NEW t \in TheSelection!Pending \ TheSelection!ToSet(block), NEW u \in TheSelection!ToSet(block) PROVE t.gasPrice <= u.gasPrice
    <3>1. PICK i \in 1..n : u = s[i]
      BY <2>2 DEF TheSelection!ToSet
    <3>2. PICK j \in 1..N : t = s[j]
      BY <2>1
    <3>3. ~(j \in 1..n)
      BY <2>2, <2>3, <3>2 DEF TheSelection!ToSet
    <3>4. i \in 1..N /\ u \in TheSelection!Pending /\ ~(j < i)
      BY <2>1, <3>1, <3>3
    <3>5. ~TheSelection!ComesBefore(t, u, strategy)
      BY <2>1, <3>1, <3>2, <3>4
    <3>6. TheSelection!Rank(t, "PRICE") = -t.gasPrice /\ TheSelection!Rank(u, "PRICE") = -u.gasPrice
      BY DEF TheSelection!Rank
    <3>7. t.gasPrice \in Nat /\ u.gasPrice \in Nat
      BY <1>0, <3>4, TxsAre DEF PoolInv, TheSelection!TypeOK
    <3> QED  BY <2>3, <3>5, <3>6, <3>7 DEF TheSelection!ComesBefore
  <2> QED  BY <2>2, <2>3 DEF block
<1> QED  BY <1>1, <1>2, <1>3

-----------------------------------------------------------------------------
\* What is kept of what was kept is what would have been kept at once.
Chosen(P, A, N) == N \in Nat /\ A \subseteq 1..N /\ P \subseteq A
PlacesKept(A, P) == {n \in 1..Cardinality(A) : Nth(A, n) \in P}

LEMMA KeptOfKept ==
    ASSUME NEW N, NEW s, NEW A, NEW P, Chosen(P, A, N)
    PROVE  Kept(Kept(s, A), PlacesKept(A, P)) = Kept(s, P)
<1> DEFINE a == Cardinality(A)
           at(n) == Nth(A, n)
           Q == {n \in 1..a : at(n) \in P}
           Image(R) == {at(n) : n \in R}
<1>0. N \in Nat /\ A \subseteq 1..N /\ P \subseteq A
  BY DEF Chosen
<1>1. a \in Nat /\ P \subseteq 1..N /\ \A i \in A : i \in Int
  <2>1. Cardinality(A) \in 0..N
    BY <1>0, BelowGrows
  <2>2. \A i \in 1..N : i \in Int
    BY <1>0
  <2> QED  BY <1>0, <2>1, <2>2
<1>2. /\ \A n \in 1..a : at(n) \in A
      /\ \A i \in A : \E n \in 1..a : at(n) = i
      /\ \A m, n \in 1..a : m < n => at(m) < at(n)
  BY <1>0, NthIs
<1>3. \A m, n \in 1..a : at(m) = at(n) => m = n
  <2> SUFFICES ASSUME NEW m \in 1..a, NEW n \in 1..a, at(m) = at(n), m # n PROVE FALSE
    OBVIOUS
  <2>1. m < n \/ n < m
    BY <1>1
  <2>2. at(m) \in Int /\ at(n) \in Int
    <3> HIDE DEF at, a
    <3> QED  BY <1>1, <1>2
  <2>3. at(m) < at(n) \/ at(n) < at(m)
    BY <1>2, <2>1
  <2> QED  BY <2>2, <2>3
<1>4. Q \subseteq 1..a
  OBVIOUS
<1>5. Kept(s, A) = [n \in 1..a |-> s[at(n)]]
  BY DEF Kept
<1> HIDE DEF a, at
<1>6. ASSUME NEW R, R \subseteq 1..a PROVE Cardinality(R) = Cardinality(Image(R))
  <2> DEFINE f == [n \in R |-> at(n)]
             I == Image(R)
  <2>1. f \in [R -> I] /\ (\A m, n \in R : f[m] = f[n] => m = n) /\ (\A i \in I : \E n \in R : f[n] = i)
    BY <1>3, <1>6
  <2> HIDE DEF f, I
  <2>2. f \in Bijection(R, I)
    BY <2>1 DEF Bijection, Injection, Surjection, IsInjective
  <2>3. ExistsBijection(R, I)
    BY <2>2 DEF ExistsBijection
  <2>4. IsFiniteSet(R)
    <3>1. IsFiniteSet(1..a)
      BY <1>1, FS_Interval
    <3> QED  BY <1>6, <3>1, FS_Subset
  <2>5. Cardinality(R) = Cardinality(I)
    BY <2>3, <2>4, FS_Bijection
  <2> QED  BY <2>5 DEF I
<1>7. Image(Q) = P
  BY <1>0, <1>2
<1>8. Cardinality(Q) = Cardinality(P)
  BY <1>4, <1>6, <1>7
<1>9. ASSUME NEW q \in Q PROVE Cardinality(Below(Q, q)) = Cardinality(Below(P, at(q)))
  <2>1. Below(Q, q) \subseteq 1..a
    BY DEF Below
  <2>2. Image(Below(Q, q)) = Below(P, at(q))
    <3>1. \A n \in Q : n < q <=> at(n) < at(q)
      <4> TAKE n \in Q
      <4>1. n \in 1..a /\ q \in 1..a /\ at(n) \in Int /\ at(q) \in Int
        BY <1>1, <1>2
      <4>2. n < q \/ q < n \/ n = q
        BY <1>1, <4>1
      <4>3. (n < q => at(n) < at(q)) /\ (q < n => at(q) < at(n))
        BY <1>2, <4>1
      <4>4. n = q => at(n) = at(q)
        OBVIOUS
      <4> QED  BY <1>1, <4>1, <4>2, <4>3, <4>4
    <3> HIDE DEF Q
    <3> QED  BY <1>7, <3>1 DEF Below
  <2> QED  BY <1>6, <2>1, <2>2
<1>10. ASSUME NEW m \in 1..Cardinality(P) PROVE Nth(Q, m) \in Q /\ at(Nth(Q, m)) = Nth(P, m)
  <2>1. Nth(Q, m) \in Q /\ Cardinality(Below(Q, Nth(Q, m))) = m - 1
    BY <1>0, <1>1, <1>4, <1>8, NthIs
  <2>2. Nth(P, m) \in P /\ Cardinality(Below(P, Nth(P, m))) = m - 1
    BY <1>0, <1>1, NthIs
  <2> DEFINE x == at(Nth(Q, m))
             y == Nth(P, m)
             cx == Cardinality(Below(P, x))
             cy == Cardinality(Below(P, y))
  <2>3. x \in P /\ cx = m - 1
    BY <1>9, <2>1
  <2>4. y \in P /\ cy = m - 1
    BY <2>2
  <2>5. x \in 1..N /\ y \in 1..N
    BY <1>1, <2>3, <2>4
  <2> HIDE DEF x, y
  <2>6. (x < y => cx < cy) /\ (y < x => cy < cx)
    BY <1>0, <1>1, <2>3, <2>4, BelowGrows
  <2> HIDE DEF cx, cy
  <2>7. m \in Int
    OBVIOUS
  <2>8. x = y
    BY <1>0, <2>3, <2>4, <2>5, <2>6, <2>7
  <2> QED  BY <2>1, <2>8 DEF x, y
<1>11. Kept(Kept(s, A), Q) = [m \in 1..Cardinality(P) |-> Kept(s, A)[Nth(Q, m)]]
  BY <1>8 DEF Kept
<1>12. \A m \in 1..Cardinality(P) : Kept(s, A)[Nth(Q, m)] = s[Nth(P, m)]
  BY <1>4, <1>5, <1>10
<1>13. Kept(s, P) = [m \in 1..Cardinality(P) |-> s[Nth(P, m)]]
  BY DEF Kept
<1>14. Kept(Kept(s, A), Q) = Kept(s, P)
  BY <1>11, <1>12, <1>13
<1> QED  BY <1>14 DEF a, at, PlacesKept

-----------------------------------------------------------------------------
\* What ContractStateManager keeps: the objects it made and their sizes, what refers to
\* them, and what the transitions say of each key.
LEMMA StatesKept == \A s, S : TheStates!Kept(s, S) = Kept(s, S)
BY DEF Kept, TheStates!Kept, Nth, TheStates!Nth, Below, TheStates!Below, Cardinality, TheStates!Cardinality

LEMMA StatesSum == \A f : TheStates!Sum(f) = Sum(f)
BY DEF Sum, TheStates!Sum

StatesConstants ==
    /\ IsFiniteSet(StorageKeys) /\ Values \subseteq Nat /\ KeyLength \in Nat
    /\ MaxStorage \in Nat /\ MaxSnapshots \in Nat /\ MaxObjects \in Nat /\ MaxStateTime \in Nat

Snap == [object : Nat, at : Nat]
Transition == [contract : Contracts, from : TheStates!Storages, to : TheStates!Storages]

ObjectsFit(given) ==
    /\ given \in Seq(TheStates!Storages) /\ Len(given) <= MaxObjects
    /\ \A i \in 1..Len(given) : TheStates!StateSize(given[i]) <= MaxStorage + KeyLength

StatesFit(states, given) == DOMAIN states \subseteq Contracts /\ \A c \in DOMAIN states : states[c] \in 1..given

SnapsFit(snaps, given, moment) ==
    /\ DOMAIN snaps \subseteq Contracts
    /\ \A c \in DOMAIN snaps :
          /\ snaps[c] \in Seq(Snap)
          /\ \A i \in 1..Len(snaps[c]) : /\ snaps[c][i].object >= 1 /\ snaps[c][i].object <= given
                                         /\ snaps[c][i].at <= moment

HistoryFits(history) ==
    /\ DOMAIN history \subseteq Contracts
    /\ \A c \in DOMAIN history : /\ DOMAIN history[c] \subseteq StorageKeys
                                 /\ \A k \in DOMAIN history[c] : history[c][k] \in Seq(Values)

\* The transitions that brought a key a value, and the values.
Bringing(moves, c, k) == {i \in DOMAIN moves : moves[i].contract = c /\ k \in TheStates!Changed(moves[i].from, moves[i].to)}
Brought(moves, c, k) ==
    [i \in DOMAIN Kept(moves, Bringing(moves, c, k)) |-> Kept(moves, Bringing(moves, c, k))[i].to[k]]

Told(moves, history) ==
    \A c \in Contracts : \A k \in StorageKeys : TheStates!Get(TheStates!Get(history, c, TheStates!Empty), k, <<>>) = Brought(moves, c, k)

StateInv ==
    /\ stateTime \in Nat /\ stateTime <= MaxStateTime
    /\ ObjectsFit(objects) /\ StatesFit(contractStates, Len(objects))
    /\ SnapsFit(stateSnapshots, Len(objects), stateTime)
    /\ stateTransitions \in Seq(Transition) /\ HistoryFits(stateHistory)
    /\ Told(stateTransitions, stateHistory)

-----------------------------------------------------------------------------
LEMMA StorageIs ==
    ASSUME StatesConstants, NEW s \in TheStates!Storages
    PROVE  /\ DOMAIN s \subseteq StorageKeys /\ IsFiniteSet(DOMAIN s)
           /\ s = [k \in DOMAIN s |-> s[k]]
           /\ \A k \in DOMAIN s : s[k] \in Values /\ s[k] \in Nat
<1>1. PICK K \in SUBSET StorageKeys : s \in [K -> Values]
  BY DEF TheStates!Storages
<1>2. IsFiniteSet(K)
  BY FS_Subset DEF StatesConstants
<1> QED  BY <1>1, <1>2 DEF StatesConstants

LEMMA MakesStorage ==
    ASSUME NEW s, DOMAIN s \subseteq StorageKeys, s = [k \in DOMAIN s |-> s[k]], \A k \in DOMAIN s : s[k] \in Values
    PROVE  s \in TheStates!Storages
<1>1. s \in [DOMAIN s -> Values]
  OBVIOUS
<1> QED  BY <1>1 DEF TheStates!Storages

LEMMA EmptyStorage == TheStates!Empty \in TheStates!Storages
<1>1. TheStates!Empty \in [{} -> Values]
  BY DEF TheStates!Empty
<1> QED  BY <1>1 DEF TheStates!Storages

\* The size of a storage is a natural number; with a key set, it grows by the value and
\* the key at most, and with one deleted it does not grow.
LEMMA SizeIsNat ==
    ASSUME StatesConstants, NEW s \in TheStates!Storages
    PROVE  TheStates!StateSize(s) \in Int
<1> DEFINE f == [k \in DOMAIN s |-> s[k] + KeyLength]
<1>1. IsFiniteSet(DOMAIN f) /\ \A k \in DOMAIN f : f[k] \in Int
  BY StorageIs DEF StatesConstants
<1>2. TheStates!StateSize(s) = Sum(f)
  BY StatesSum DEF TheStates!StateSize
<1> HIDE DEF f
<1> QED  BY <1>1, <1>2, SumIsInt

LEMMA EmptySize ==
    ASSUME StatesConstants
    PROVE  TheStates!StateSize(TheStates!Empty) = 0
<1> DEFINE f == [k \in DOMAIN TheStates!Empty |-> TheStates!Empty[k] + KeyLength]
<1>1. DOMAIN f = {} /\ IsFiniteSet(DOMAIN f)
  BY FS_EmptySet DEF TheStates!Empty
<1>2. TheStates!StateSize(TheStates!Empty) = Sum(f)
  BY StatesSum DEF TheStates!StateSize
<1>3. \A k \in DOMAIN f : f[k] \in Int
  BY <1>1
<1> HIDE DEF f
<1> QED  BY <1>1, <1>2, <1>3, SumIsInt

LEMMA SizeOfPut ==
    ASSUME StatesConstants, NEW s \in TheStates!Storages, NEW k \in StorageKeys, NEW v \in Values
    PROVE  /\ TheStates!Put(s, k, v) \in TheStates!Storages
           /\ TheStates!StateSize(TheStates!Put(s, k, v)) <= TheStates!StateSize(s) - TheStates!Get(s, k, 0) + v + KeyLength
<1> DEFINE t == TheStates!Put(s, k, v)
           f == [x \in DOMAIN s |-> s[x] + KeyLength]
           g == [x \in DOMAIN t |-> t[x] + KeyLength]
<1>1. /\ DOMAIN s \subseteq StorageKeys /\ IsFiniteSet(DOMAIN s)
      /\ \A x \in DOMAIN s : s[x] \in Values /\ s[x] \in Nat
  BY StorageIs
<1>2. v \in Nat /\ KeyLength \in Nat
  BY DEF StatesConstants
<1>3. /\ DOMAIN t = DOMAIN s \cup {k} /\ t = [x \in DOMAIN t |-> t[x]]
      /\ t[k] = v /\ \A x \in DOMAIN s : x # k => t[x] = s[x]
  BY DEF TheStates!Put
<1>4. TheStates!StateSize(s) = Sum(f) /\ TheStates!StateSize(t) = Sum(g)
  BY StatesSum DEF TheStates!StateSize
<1> HIDE DEF t
<1>5. t \in TheStates!Storages
  <2>1. DOMAIN t \subseteq StorageKeys /\ \A x \in DOMAIN t : t[x] \in Values
    BY <1>1, <1>3
  <2> QED  BY <1>3, <2>1, MakesStorage
<1>6. /\ DOMAIN f = DOMAIN s /\ DOMAIN g = DOMAIN s \cup {k} /\ IsFiniteSet(DOMAIN f)
      /\ \A x \in DOMAIN f : f[x] \in Int
      /\ \A x \in DOMAIN g : g[x] \in Int
      /\ \A x \in DOMAIN f : x # k => g[x] = f[x]
      /\ g[k] = v + KeyLength
  BY <1>1, <1>2, <1>3
<1>7. Sum(f) \in Int /\ TheStates!Get(s, k, 0) \in Nat /\ (k \in DOMAIN s => f[k] = TheStates!Get(s, k, 0) + KeyLength)
  <2>1. Sum(f) \in Int
    <3> HIDE DEF f
    <3> QED  BY <1>6, SumIsInt
  <2>2. TheStates!Get(s, k, 0) \in Nat
    BY <1>1 DEF TheStates!Get
  <2> QED  BY <2>1, <2>2 DEF TheStates!Get
<1>8. Sum(g) <= Sum(f) - TheStates!Get(s, k, 0) + v + KeyLength
  <2>1. CASE k \in DOMAIN s
    <3> HIDE DEF f, g
    <3>1. Sum(g) = Sum(f) - f[k] + g[k]
      <4>1. DOMAIN g = DOMAIN f /\ k \in DOMAIN f
        BY <1>6, <2>1
      <4>2. \A y \in DOMAIN f : f[y] \in Int /\ g[y] \in Int
        BY <1>6, <4>1
      <4>3. \A y \in DOMAIN f \ {k} : g[y] = f[y]
        BY <1>6
      <4> QED  BY <1>6, <4>1, <4>2, <4>3, SumChanged
    <3>2. f[k] = TheStates!Get(s, k, 0) + KeyLength /\ g[k] = v + KeyLength
      BY <1>6, <1>7, <2>1
    <3> DEFINE a == Sum(f)
               b == Sum(g)
               o == TheStates!Get(s, k, 0)
    <3>3. a \in Int /\ o \in Nat /\ b = a - (o + KeyLength) + (v + KeyLength)
      BY <1>7, <3>1, <3>2
    <3> HIDE DEF a, b, o
    <3>4. b <= a - o + v + KeyLength
      BY <1>2, <3>3
    <3> QED  BY <3>4 DEF a, b, o
  <2>2. CASE k \notin DOMAIN s
    <3> HIDE DEF f, g
    <3>1. Sum(g) = Sum(f) + g[k]
      <4>1. k \notin DOMAIN f /\ DOMAIN g = DOMAIN f \cup {k}
        BY <1>6, <2>2
      <4>2. \A y \in DOMAIN f : g[y] = f[y]
        BY <1>6, <4>1
      <4> QED  BY <1>6, <4>1, <4>2, SumExtended
    <3>2. g[k] = v + KeyLength /\ TheStates!Get(s, k, 0) = 0
      BY <1>6, <2>2 DEF TheStates!Get
    <3> DEFINE a == Sum(f)
               b == Sum(g)
    <3>3. a \in Int /\ b = a + (v + KeyLength)
      BY <1>7, <3>1, <3>2
    <3> HIDE DEF a, b
    <3>4. b <= a - 0 + v + KeyLength
      BY <1>2, <3>3
    <3> QED  BY <3>2, <3>4 DEF a, b
  <2> QED  BY <2>1, <2>2
<1> QED  BY <1>4, <1>5, <1>8 DEF t

LEMMA SizeOfDrop ==
    ASSUME StatesConstants, NEW s \in TheStates!Storages, NEW k \in DOMAIN s
    PROVE  /\ TheStates!Drop(s, {k}) \in TheStates!Storages
           /\ TheStates!StateSize(TheStates!Drop(s, {k})) <= TheStates!StateSize(s)
<1> DEFINE t == TheStates!Drop(s, {k})
           f == [x \in DOMAIN t |-> t[x] + KeyLength]
           g == [x \in DOMAIN s |-> s[x] + KeyLength]
<1>1. /\ DOMAIN s \subseteq StorageKeys /\ IsFiniteSet(DOMAIN s)
      /\ \A x \in DOMAIN s : s[x] \in Values /\ s[x] \in Nat
  BY StorageIs
<1>2. KeyLength \in Nat
  BY DEF StatesConstants
<1>3. /\ DOMAIN t = DOMAIN s \ {k} /\ t = [x \in DOMAIN t |-> t[x]]
      /\ \A x \in DOMAIN t : t[x] = s[x]
  BY DEF TheStates!Drop
<1>4. TheStates!StateSize(t) = Sum(f) /\ TheStates!StateSize(s) = Sum(g)
  BY StatesSum DEF TheStates!StateSize
<1> HIDE DEF t
<1>5. t \in TheStates!Storages
  <2>1. DOMAIN t \subseteq StorageKeys /\ \A x \in DOMAIN t : t[x] \in Values
    BY <1>1, <1>3
  <2> QED  BY <1>3, <2>1, MakesStorage
<1>6. IsFiniteSet(DOMAIN t)
  <2>1. DOMAIN t \subseteq DOMAIN s
    BY <1>3
  <2> QED  BY <1>1, <2>1, FS_Subset
<1>7. /\ DOMAIN f = DOMAIN s \ {k} /\ DOMAIN g = DOMAIN s /\ IsFiniteSet(DOMAIN f)
      /\ \A x \in DOMAIN g : g[x] \in Nat
      /\ \A x \in DOMAIN f : g[x] = f[x]
  BY <1>1, <1>2, <1>3, <1>6
<1> HIDE DEF f, g
<1>8. Sum(g) = Sum(f) + g[k]
  <2>1. k \notin DOMAIN f /\ DOMAIN g = DOMAIN f \cup {k}
    BY <1>7
  <2>2. \A y \in DOMAIN g : g[y] \in Int
    BY <1>7
  <2> QED  BY <1>7, <2>1, <2>2, SumExtended
<1>9. Sum(f) \in Int /\ g[k] \in Nat
  <2>1. \A x \in DOMAIN f : f[x] \in Int
    BY <1>7
  <2> QED  BY <1>7, <2>1, SumIsInt
<1>10. Sum(f) <= Sum(g)
  <2> DEFINE a == Sum(f)
             b == Sum(g)
             v == g[k]
  <2>1. a \in Int /\ v \in Nat /\ b = a + v
    BY <1>8, <1>9
  <2> HIDE DEF a, b, v
  <2>2. a <= b
    BY <2>1
  <2> QED  BY <2>2 DEF a, b
<1> QED  BY <1>4, <1>5, <1>10 DEF t
\* What the transitions brought a key, one transition later and after a contract is cleared.
LEMMA BroughtGrows ==
    ASSUME NEW moves \in Seq(Transition), NEW t \in Transition, NEW c, NEW k
    PROVE  Brought(Append(moves, t), c, k) =
              IF t.contract = c /\ k \in TheStates!Changed(t.from, t.to)
              THEN Append(Brought(moves, c, k), t.to[k]) ELSE Brought(moves, c, k)
<1> DEFINE more == Append(moves, t)
           n == Len(moves)
           S == Bringing(moves, c, k)
           brings == t.contract = c /\ k \in TheStates!Changed(t.from, t.to)
<1>1. /\ n \in Nat /\ DOMAIN moves = 1..n /\ DOMAIN more = 1..(n + 1)
      /\ more[n + 1] = t /\ \A i \in 1..n : more[i] = moves[i]
  BY AppendProperties, LenProperties
<1>2. S \subseteq 1..n
  BY <1>1 DEF Bringing
<1>3. Kept(more, S) = Kept(moves, S) /\ Kept(more, S \cup {n + 1}) = Append(Kept(moves, S), t)
  BY <1>2, KeptAppend
<1>4. Kept(moves, S) \in Seq(Transition)
  BY <1>1, <1>2, KeptIsSeq
<1> HIDE DEF more, n
<1>5. Bringing(more, c, k) = IF brings THEN S \cup {n + 1} ELSE S
  <2>1. \A i \in 1..(n + 1) : i \in 1..n \/ i = n + 1
    BY <1>1
  <2>2. \A i \in 1..n : i \in 1..(n + 1) /\ i # n + 1
    BY <1>1
  <2>3. n + 1 \in 1..(n + 1)
    BY <1>1
  <2> QED  BY <1>1, <2>1, <2>2, <2>3 DEF Bringing
<1> DEFINE K == Kept(moves, S)
           B == Brought(moves, c, k)
<1>6. B = [i \in DOMAIN K |-> K[i].to[k]]
  BY DEF Brought
<1> HIDE DEF S, K, B
<1>7. CASE brings
  <2> DEFINE K2 == Append(K, t)
             m == Len(K)
             T == {K[i].to[k] : i \in 1..m} \cup {t.to[k]}
  <2>1. Kept(more, Bringing(more, c, k)) = K2
    BY <1>3, <1>5, <1>7 DEF K
  <2>2. /\ m \in Nat /\ DOMAIN K = 1..m /\ DOMAIN K2 = 1..(m + 1)
        /\ K2[m + 1] = t /\ \A i \in 1..m : K2[i] = K[i]
    BY <1>4, AppendProperties, LenProperties DEF K
  <2>3. Brought(more, c, k) = [i \in 1..(m + 1) |-> K2[i].to[k]]
    BY <2>1, <2>2 DEF Brought
  <2>4. B \in Seq(T) /\ Len(B) = m
    <3>1. B = [i \in 1..m |-> K[i].to[k]]
      BY <1>6, <2>2
    <3>2. \A i \in 1..m : B[i] \in T
      BY <3>1
    <3> HIDE DEF T, m
    <3> QED  BY <2>2, <3>1, <3>2
  <2>5. /\ Append(B, t.to[k]) = [i \in 1..(m + 1) |-> Append(B, t.to[k])[i]]
        /\ \A i \in 1..m : Append(B, t.to[k])[i] = B[i]
        /\ Append(B, t.to[k])[m + 1] = t.to[k]
    <3> DEFINE e == t.to[k]
               a == Append(B, e)
    <3>1. e \in T
      OBVIOUS
    <3> HIDE DEF T, e, m
    <3>2. /\ a \in Seq(T) /\ Len(a) = m + 1
          /\ \A i \in 1..m : a[i] = B[i]
          /\ a[m + 1] = e
      BY <2>4, <3>1, AppendProperties
    <3> HIDE DEF a
    <3>3. a = [i \in 1..(m + 1) |-> a[i]]
      BY <2>2, <3>2
    <3> QED  BY <3>2, <3>3 DEF a, e
  <2>6. \A i \in 1..(m + 1) : K2[i].to[k] = Append(B, t.to[k])[i]
    <3> TAKE i \in 1..(m + 1)
    <3>1. i \in 1..m \/ i = m + 1
      <4> HIDE DEF m
      <4> QED  BY <2>2
    <3>2. i \in 1..m => K2[i].to[k] = B[i]
      BY <1>6, <2>2
    <3> HIDE DEF m, K2
    <3> QED  BY <2>2, <2>5, <3>1, <3>2
  <2> HIDE DEF m, K2, T
  <2>7. Brought(more, c, k) = Append(B, t.to[k])
    BY <2>3, <2>5, <2>6
  <2> QED  BY <1>7, <2>7 DEF B, more
<1>8. CASE ~ brings
  <2>1. Kept(more, Bringing(more, c, k)) = K
    BY <1>3, <1>5, <1>8 DEF K
  <2>2. Brought(more, c, k) = B
    BY <1>6, <2>1 DEF Brought
  <2> QED  BY <1>8, <2>2 DEF B, more
<1> QED  BY <1>7, <1>8

\* The places of the transitions of other contracts than those of C.
Spares(A, moves, count, C) ==
    /\ count \in Nat /\ A \subseteq 1..count
    /\ DOMAIN moves = 1..count
    /\ \A i \in 1..count : i \in A <=> moves[i].contract \notin C

LEMMA BroughtOf ==
    ASSUME NEW count, NEW moves, NEW C, NEW c, NEW k, NEW A, Spares(A, moves, count, C)
    PROVE  /\ c \in C => Brought(Kept(moves, A), c, k) = <<>>
           /\ c \notin C => Brought(Kept(moves, A), c, k) = Brought(moves, c, k)
<1> DEFINE new == Kept(moves, A)
           a == Cardinality(A)
           P == Bringing(moves, c, k)
           Q == PlacesKept(A, P)
<1>0. count \in Nat /\ A \subseteq 1..count
  BY DEF Spares
<1>1. DOMAIN moves = 1..count
  BY DEF Spares
<1>2. a \in 0..count /\ \A m \in 1..a : Nth(A, m) \in A
  BY <1>0, KeptIs
<1>3. DOMAIN new = 1..a /\ \A m \in 1..a : Nth(A, m) \in A /\ new[m] = moves[Nth(A, m)]
  <2>1. new = [m \in 1..a |-> moves[Nth(A, m)]]
    BY DEF Kept
  <2> HIDE DEF new, a
  <2> QED  BY <1>2, <2>1
<1>4. c \in C => Bringing(new, c, k) = {}
  BY <1>0, <1>1, <1>3 DEF Bringing, Spares
<1>5. c \notin C => P \subseteq A
  BY <1>1 DEF Bringing, Spares
<1>6. c \notin C => Bringing(new, c, k) = Q
  <2> HIDE DEF new, a
  <2>1. \A m \in 1..a : Nth(A, m) \in DOMAIN moves
    BY <1>0, <1>1, <1>3
  <2>2. Q = {m \in 1..a : Nth(A, m) \in P}
    BY DEF PlacesKept, a
  <2> HIDE DEF Q
  <2> QED  BY <1>3, <2>1, <2>2 DEF Bringing
<1>7. CASE c \in C
  <2>1. Brought(new, c, k) = [i \in DOMAIN Kept(new, {}) |-> Kept(new, {})[i].to[k]]
    BY <1>4, <1>7 DEF Brought
  <2>2. DOMAIN Kept(new, {}) = {}
    <3>1. Cardinality({}) = 0
      BY FS_EmptySet
    <3>2. DOMAIN Kept(new, {}) = 1..Cardinality({})
      BY DEF Kept
    <3> QED  BY <3>1, <3>2
  <2> HIDE DEF new
  <2>3. Brought(new, c, k) = <<>>
    BY <2>1, <2>2
  <2> QED  BY <1>7, <2>3 DEF new
<1>8. CASE c \notin C
  <2>1. Kept(new, Q) = Kept(moves, P)
    <3>1. Chosen(P, A, count)
      BY <1>0, <1>5, <1>8 DEF Chosen
    <3> HIDE DEF P
    <3> QED  BY <3>1, KeptOfKept
  <2>2. Kept(new, Bringing(new, c, k)) = Kept(moves, P)
    <3> HIDE DEF new, P, Q
    <3> QED  BY <1>6, <1>8, <2>1
  <2> HIDE DEF new
  <2>3. Brought(new, c, k) = Brought(moves, c, k)
    BY <2>2 DEF Brought
  <2> QED  BY <1>8, <2>3 DEF new
<1> QED  BY <1>7, <1>8

LEMMA BroughtWithout ==
    ASSUME NEW moves \in Seq(Transition), NEW C, NEW c, NEW k
    PROVE  LET A == {i \in DOMAIN moves : moves[i].contract \notin C}
           IN  Brought(Kept(moves, A), c, k) = IF c \in C THEN <<>> ELSE Brought(moves, c, k)
<1> DEFINE A == {i \in DOMAIN moves : moves[i].contract \notin C}
           count == Len(moves)
<1>1. Spares(A, moves, count, C)
  BY DEF Spares
<1> HIDE DEF count, A
<1>2. Brought(Kept(moves, A), c, k) = IF c \in C THEN <<>> ELSE Brought(moves, c, k)
  BY <1>1, BroughtOf
<1> QED  BY <1>2 DEF A

LEMMA ToldAfterUpdate ==
    ASSUME NEW moves \in Seq(Transition), NEW history, HistoryFits(history), Told(moves, history),
           NEW t \in Transition
    PROVE  LET new == TheStates!Put(history, t.contract, TheStates!Extended(TheStates!Get(history, t.contract, TheStates!Empty), t.from, t.to))
           IN  Told(Append(moves, t), new) /\ HistoryFits(new)
<1> DEFINE c == t.contract
           h == TheStates!Get(history, c, TheStates!Empty)
           e == TheStates!Extended(h, t.from, t.to)
           new == TheStates!Put(history, c, e)
<1>1. c \in Contracts /\ t.to \in TheStates!Storages /\ t.from \in TheStates!Storages
  BY DEF Transition
<1>2. DOMAIN h \subseteq StorageKeys /\ \A k \in DOMAIN h : h[k] \in Seq(Values)
  BY DEF HistoryFits, TheStates!Get, TheStates!Empty
<1>3. \A k \in TheStates!Changed(t.from, t.to) : k \in StorageKeys /\ t.to[k] \in Values
  <2>1. DOMAIN t.to \subseteq StorageKeys /\ \A k \in DOMAIN t.to : t.to[k] \in Values
    BY <1>1 DEF TheStates!Storages
  <2> QED  BY <2>1 DEF TheStates!Changed
<1> HIDE DEF h
<1>4. /\ DOMAIN e = DOMAIN h \cup TheStates!Changed(t.from, t.to)
      /\ \A k \in DOMAIN e : e[k] = IF k \in TheStates!Changed(t.from, t.to) THEN Append(TheStates!Get(h, k, <<>>), t.to[k]) ELSE h[k]
  BY DEF TheStates!Extended
<1>5. \A k : TheStates!Get(h, k, <<>>) \in Seq(Values)
  BY <1>2 DEF TheStates!Get
<1>6. /\ DOMAIN new = DOMAIN history \cup {c} /\ new[c] = e
      /\ \A d \in DOMAIN history : d # c => new[d] = history[d]
  BY DEF TheStates!Put
<1> HIDE DEF e, new, c
<1>7. HistoryFits(new)
  <2>1. DOMAIN e \subseteq StorageKeys
    BY <1>2, <1>3, <1>4
  <2>2. \A k \in DOMAIN e : e[k] \in Seq(Values)
    <3> TAKE k \in DOMAIN e
    <3>1. CASE k \in TheStates!Changed(t.from, t.to)
      <4>1. Append(TheStates!Get(h, k, <<>>), t.to[k]) \in Seq(Values)
        BY <1>3, <1>5, <3>1, AppendProperties
      <4> QED  BY <1>4, <3>1, <4>1
    <3>2. CASE k \notin TheStates!Changed(t.from, t.to)
      BY <1>2, <1>4, <3>2
    <3> QED  BY <3>1, <3>2
  <2> QED  BY <1>1, <1>6, <2>1, <2>2 DEF HistoryFits, c
<1>8. ASSUME NEW d \in Contracts, NEW k \in StorageKeys
      PROVE  TheStates!Get(TheStates!Get(new, d, TheStates!Empty), k, <<>>) = Brought(Append(moves, t), d, k)
  <2>1. TheStates!Get(TheStates!Get(history, d, TheStates!Empty), k, <<>>) = Brought(moves, d, k)
    BY DEF Told
  <2>2. CASE d # c
    <3>1. TheStates!Get(new, d, TheStates!Empty) = TheStates!Get(history, d, TheStates!Empty)
      BY <1>6, <2>2 DEF TheStates!Get
    <3>2. Brought(Append(moves, t), d, k) = Brought(moves, d, k)
      BY <2>2, BroughtGrows DEF c
    <3> QED  BY <2>1, <3>1, <3>2
  <2>3. CASE d = c
    <3>1. TheStates!Get(new, d, TheStates!Empty) = e
      BY <1>6, <2>3 DEF TheStates!Get
    <3>2. TheStates!Get(h, k, <<>>) = Brought(moves, d, k)
      BY <2>1, <2>3 DEF h
    <3>3. TheStates!Get(e, k, <<>>) = IF k \in TheStates!Changed(t.from, t.to) THEN Append(TheStates!Get(h, k, <<>>), t.to[k]) ELSE TheStates!Get(h, k, <<>>)
      <4>1. CASE k \in TheStates!Changed(t.from, t.to)
        <5>1. k \in DOMAIN e
          BY <1>4, <4>1
        <5>2. TheStates!Get(e, k, <<>>) = e[k]
          BY <5>1 DEF TheStates!Get
        <5> QED  BY <1>4, <4>1, <5>1, <5>2
      <4>2. CASE k \notin TheStates!Changed(t.from, t.to)
        BY <1>4, <4>2 DEF TheStates!Get
      <4> QED  BY <4>1, <4>2
    <3>4. t.contract = d
      BY <2>3 DEF c
    <3> QED  BY <3>1, <3>2, <3>3, <3>4, BroughtGrows
  <2> QED  BY <2>2, <2>3
<1>9. Told(Append(moves, t), new)
  BY <1>8 DEF Told
<1> QED  BY <1>7, <1>9 DEF new, e, c, h

LEMMA ToldAfterClear ==
    ASSUME NEW moves \in Seq(Transition), NEW history, HistoryFits(history), Told(moves, history), NEW C
    PROVE  LET A == {i \in DOMAIN moves : moves[i].contract \notin C}
           IN  /\ Told(Kept(moves, A), TheStates!Drop(history, C)) /\ HistoryFits(TheStates!Drop(history, C))
               /\ Kept(moves, A) \in Seq(Transition)
<1> DEFINE A == {i \in DOMAIN moves : moves[i].contract \notin C}
           new == TheStates!Drop(history, C)
           kept == Kept(moves, A)
<1>1. DOMAIN new = DOMAIN history \ C /\ \A d \in DOMAIN new : new[d] = history[d]
  BY DEF TheStates!Drop
<1>2. kept \in Seq(Transition)
  <2>1. A \subseteq DOMAIN moves
    OBVIOUS
  <2> HIDE DEF A
  <2> QED  BY <2>1, KeptIsSeq
<1>3. \A d, k : Brought(kept, d, k) = IF d \in C THEN <<>> ELSE Brought(moves, d, k)
  BY BroughtWithout
<1> HIDE DEF A, new, kept
<1>4. HistoryFits(new)
  BY <1>1 DEF HistoryFits
<1>5. ASSUME NEW d \in Contracts, NEW k \in StorageKeys
      PROVE  TheStates!Get(TheStates!Get(new, d, TheStates!Empty), k, <<>>) = Brought(kept, d, k)
  <2>1. TheStates!Get(TheStates!Get(history, d, TheStates!Empty), k, <<>>) = Brought(moves, d, k)
    BY DEF Told
  <2>2. CASE d \in C
    <3>1. TheStates!Get(new, d, TheStates!Empty) = TheStates!Empty
      BY <1>1, <2>2 DEF TheStates!Get
    <3>2. TheStates!Get(TheStates!Empty, k, <<>>) = <<>>
      BY DEF TheStates!Get, TheStates!Empty
    <3> QED  BY <1>3, <2>2, <3>1, <3>2
  <2>3. CASE d \notin C
    <3>1. TheStates!Get(new, d, TheStates!Empty) = TheStates!Get(history, d, TheStates!Empty)
      BY <1>1, <2>3 DEF TheStates!Get
    <3> QED  BY <1>3, <2>1, <2>3, <3>1
  <2> QED  BY <2>2, <2>3
<1>6. Told(kept, new)
  BY <1>5 DEF Told
<1> QED  BY <1>2, <1>4, <1>6 DEF A, new, kept

-----------------------------------------------------------------------------
\* What each part of the state keeps under one operation.
LEMMA SnapsStillFit ==
    ASSUME NEW snaps, NEW given \in Nat, NEW moment \in Nat, SnapsFit(snaps, given, moment),
           NEW more \in Nat, given <= more, NEW later \in Nat, moment <= later
    PROVE  SnapsFit(snaps, more, later)
<1>1. ASSUME NEW c \in DOMAIN snaps, NEW i \in 1..Len(snaps[c])
      PROVE  /\ snaps[c][i].object >= 1 /\ snaps[c][i].object <= more
             /\ snaps[c][i].at <= later
  <2> DEFINE s == snaps[c][i]
             o == s.object
             a == s.at
  <2>1. s \in Snap /\ o >= 1 /\ o <= given /\ a <= moment
    BY DEF SnapsFit
  <2>2. o \in Nat /\ a \in Nat
    BY <2>1 DEF Snap
  <2> HIDE DEF s, o, a
  <2>3. o >= 1 /\ o <= more /\ a <= later
    BY <2>1, <2>2
  <2> QED  BY <2>3 DEF s, o, a
<1> QED  BY <1>1 DEF SnapsFit

LEMMA SnapTaken ==
    ASSUME NEW snaps, NEW given \in Nat, NEW moment \in Nat, SnapsFit(snaps, given, moment),
           NEW c \in Contracts, NEW object \in 1..given
    PROVE  SnapsFit(TheStates!Put(snaps, c, Append(TheStates!Get(snaps, c, <<>>), [object |-> object, at |-> moment])), given, moment)
<1> DEFINE old == TheStates!Get(snaps, c, <<>>)
           e == [object |-> object, at |-> moment]
           taken == Append(old, e)
           new == TheStates!Put(snaps, c, taken)
<1>1. e \in Snap /\ e.object = object /\ e.at = moment
  BY DEF Snap
<1>2. /\ old \in Seq(Snap)
      /\ \A i \in 1..Len(old) : /\ old[i].object >= 1 /\ old[i].object <= given
                                /\ old[i].at <= moment
  <2>1. CASE c \in DOMAIN snaps
    BY <2>1 DEF SnapsFit, TheStates!Get
  <2>2. CASE c \notin DOMAIN snaps
    <3>1. old = <<>>
      BY <2>2 DEF TheStates!Get
    <3> HIDE DEF old
    <3> QED  BY <3>1
  <2> QED  BY <2>1, <2>2
<1> HIDE DEF old, e
<1>3. /\ taken \in Seq(Snap) /\ Len(taken) = Len(old) + 1 /\ Len(old) \in Nat
      /\ taken[Len(old) + 1] = e /\ \A i \in 1..Len(old) : taken[i] = old[i]
  BY <1>1, <1>2, AppendProperties, LenProperties
<1>4. DOMAIN new = DOMAIN snaps \cup {c} /\ new[c] = taken /\ \A d \in DOMAIN snaps : d # c => new[d] = snaps[d]
  BY DEF TheStates!Put
<1> HIDE DEF taken, new
<1>5. ASSUME NEW i \in 1..Len(taken)
      PROVE  /\ taken[i].object >= 1 /\ taken[i].object <= given
             /\ taken[i].at <= moment
  <2>1. i \in 1..Len(old) \/ i = Len(old) + 1
    BY <1>3
  <2>2. CASE i \in 1..Len(old)
    BY <1>2, <1>3, <2>2
  <2>3. CASE i = Len(old) + 1
    <3>1. taken[i] = e
      BY <1>3, <2>3
    <3>2. object >= 1 /\ object <= given /\ moment <= moment
      OBVIOUS
    <3> QED  BY <1>1, <3>1, <3>2
  <2> QED  BY <2>1, <2>2, <2>3
<1>6. SnapsFit(new, given, moment)
  BY <1>3, <1>4, <1>5 DEF SnapsFit
<1> QED  BY <1>6 DEF new, taken, old, e

\* Leaving out some of a contract's snapshots.
LEMMA SnapsFewer ==
    ASSUME NEW snaps, NEW given, NEW moment, SnapsFit(snaps, given, moment), NEW c \in Contracts, c \in DOMAIN snaps,
           NEW fewer \in Seq(Snap), \A i \in 1..Len(fewer) : \E j \in 1..Len(snaps[c]) : fewer[i] = snaps[c][j]
    PROVE  SnapsFit(TheStates!Put(snaps, c, fewer), given, moment)
<1> DEFINE new == TheStates!Put(snaps, c, fewer)
<1>1. DOMAIN new = DOMAIN snaps \cup {c} /\ new[c] = fewer /\ \A d \in DOMAIN snaps : d # c => new[d] = snaps[d]
  BY DEF TheStates!Put
<1> HIDE DEF new
<1>2. ASSUME NEW i \in 1..Len(fewer)
      PROVE  /\ fewer[i].object >= 1 /\ fewer[i].object <= given
             /\ fewer[i].at <= moment
  <2>1. PICK j \in 1..Len(snaps[c]) : fewer[i] = snaps[c][j]
    OBVIOUS
  <2> QED  BY <2>1 DEF SnapsFit
<1>3. SnapsFit(new, given, moment)
  BY <1>1, <1>2 DEF SnapsFit
<1> QED  BY <1>3 DEF new

LEMMA SnapsCleaned ==
    ASSUME StatesConstants, NEW snaps, NEW given, NEW moment, SnapsFit(snaps, given, moment), NEW c \in Contracts, c \in DOMAIN snaps
    PROVE  SnapsFit(TheStates!Put(snaps, c, TheStates!Cleaned(snaps[c])), given, moment)
<1> DEFINE s == snaps[c]
           n == Len(s)
           m == IF n > MaxSnapshots THEN n - MaxSnapshots + 1 ELSE 1
           fewer == SubSeq(s, m, n)
<1>1. s \in Seq(Snap)
  BY DEF SnapsFit
<1>2. n \in Nat /\ \A i \in 1..n : s[i] \in Snap
  BY <1>1
<1>3. MaxSnapshots \in Nat
  BY DEF StatesConstants
<1>4. TheStates!Cleaned(s) = fewer
  BY DEF TheStates!Cleaned
<1> HIDE DEF s, n
<1>5. m \in Int /\ m >= 1
  BY <1>2, <1>3
<1> HIDE DEF m
<1>6. \A i \in m..n : s[i] \in Snap
  BY <1>2, <1>5
<1>7. /\ fewer \in Seq(Snap)
      /\ Len(fewer) = IF m <= n THEN n - m + 1 ELSE 0
      /\ \A i \in 1..(n - m + 1) : fewer[i] = s[m + i - 1]
  BY <1>2, <1>5, <1>6, SubSeqProperties
<1> HIDE DEF fewer
<1>8. \A i \in 1..Len(fewer) : \E j \in 1..n : fewer[i] = s[j]
  <2> TAKE i \in 1..Len(fewer)
  <2>1. i \in 1..(n - m + 1) /\ m + i - 1 \in 1..n
    BY <1>2, <1>5, <1>7
  <2> QED  BY <1>7, <2>1
<1>9. SnapsFit(TheStates!Put(snaps, c, fewer), given, moment)
  BY <1>7, <1>8, SnapsFewer DEF s, n
<1> QED  BY <1>4, <1>9 DEF s

LEMMA SnapsWithout ==
    ASSUME NEW snaps, NEW given, NEW moment, SnapsFit(snaps, given, moment), NEW c \in Contracts, c \in DOMAIN snaps, NEW i
    PROVE  SnapsFit([snaps EXCEPT ![c] = Kept(@, DOMAIN @ \ {i})], given, moment)
<1> DEFINE s == snaps[c]
           S == DOMAIN s \ {i}
           n == Len(s)
           fewer == Kept(s, S)
<1>1. s \in Seq(Snap)
  BY DEF SnapsFit
<1>2. n \in Nat /\ DOMAIN s = 1..n /\ S \subseteq 1..n /\ S \subseteq DOMAIN s
  BY <1>1
<1> HIDE DEF s, S, n
<1>3. fewer \in Seq(Snap) /\ Len(fewer) = Cardinality(S)
  BY <1>1, <1>2, KeptIsSeq
<1>4. \A j \in 1..Cardinality(S) : Nth(S, j) \in S
  BY <1>2, KeptIs
<1>5. fewer = [j \in 1..Cardinality(S) |-> s[Nth(S, j)]]
  BY DEF Kept
<1> HIDE DEF fewer
<1>6. \A j \in 1..Len(fewer) : \E l \in 1..n : fewer[j] = s[l]
  BY <1>2, <1>3, <1>4, <1>5
<1>7. SnapsFit(TheStates!Put(snaps, c, fewer), given, moment)
  BY <1>3, <1>6, SnapsFewer DEF s, n
<1>8. [snaps EXCEPT ![c] = fewer] = TheStates!Put(snaps, c, fewer)
  <2>1. DOMAIN snaps \cup {c} = DOMAIN snaps
    OBVIOUS
  <2> QED  BY <2>1 DEF TheStates!Put
<1> QED  BY <1>7, <1>8 DEF fewer, s, S

LEMMA ObjectsGrow ==
    ASSUME StatesConstants, NEW given, ObjectsFit(given), Len(given) < MaxObjects, NEW s \in TheStates!Storages,
           TheStates!StateSize(s) <= MaxStorage + KeyLength
    PROVE  /\ ObjectsFit(Append(given, s)) /\ Len(Append(given, s)) = Len(given) + 1
           /\ Append(given, s)[Len(given) + 1] = s
<1> DEFINE n == Len(given)
           new == Append(given, s)
<1>1. given \in Seq(TheStates!Storages) /\ n \in Nat
  BY LenProperties DEF ObjectsFit
<1>2. /\ new \in Seq(TheStates!Storages) /\ Len(new) = n + 1
      /\ new[n + 1] = s /\ \A i \in 1..n : new[i] = given[i]
  BY <1>1, AppendProperties
<1> HIDE DEF new
<1>3. n + 1 <= MaxObjects /\ MaxObjects \in Nat
  BY <1>1 DEF StatesConstants
<1>4. ASSUME NEW i \in 1..(n + 1) PROVE TheStates!StateSize(new[i]) <= MaxStorage + KeyLength
  <2>1. i \in 1..n \/ i = n + 1
    BY <1>1
  <2> QED  BY <1>2, <2>1 DEF ObjectsFit
<1>5. ObjectsFit(new)
  BY <1>1, <1>2, <1>3, <1>4 DEF ObjectsFit
<1> QED  BY <1>1, <1>2, <1>5 DEF new

LEMMA ObjectChanged ==
    ASSUME StatesConstants, NEW given, ObjectsFit(given), NEW o \in 1..Len(given), NEW s \in TheStates!Storages,
           TheStates!StateSize(s) <= MaxStorage + KeyLength
    PROVE  ObjectsFit([given EXCEPT ![o] = s]) /\ Len([given EXCEPT ![o] = s]) = Len(given)
<1> DEFINE new == [given EXCEPT ![o] = s]
<1>1. given \in Seq(TheStates!Storages) /\ Len(given) \in Nat
  BY LenProperties DEF ObjectsFit
<1>2. new \in Seq(TheStates!Storages) /\ Len(new) = Len(given) /\ \A i \in 1..Len(given) : new[i] = IF i = o THEN s ELSE given[i]
  BY <1>1, ExceptSeq
<1> HIDE DEF new
<1>3. ObjectsFit(new)
  BY <1>2 DEF ObjectsFit
<1> QED  BY <1>2, <1>3 DEF new

LEMMA StorageOfIs ==
    ASSUME StateInv, NEW c
    PROVE  /\ TheStates!StorageOf(c) \in TheStates!Storages
           /\ c \in DOMAIN contractStates =>
                 contractStates[c] \in 1..Len(objects) /\ TheStates!StorageOf(c) = objects[contractStates[c]]
<1>1. objects \in Seq(TheStates!Storages)
  BY DEF StateInv, ObjectsFit
<1>2. c \in DOMAIN contractStates => contractStates[c] \in 1..Len(objects)
  BY DEF StateInv, StatesFit
<1>3. c \in DOMAIN contractStates => objects[contractStates[c]] \in TheStates!Storages
  BY <1>1, <1>2
<1> QED  BY <1>2, <1>3, EmptyStorage DEF TheStates!StorageOf

LEMMA UpdateKeeps ==
    ASSUME StatesConstants, StateInv, NEW c \in Contracts, NEW object, TheStates!UpdateContractState(c, object),
           ObjectsFit(objects'), object \in 1..Len(objects'), Len(objects) <= Len(objects')
    PROVE  StateInv'
<1> DEFINE to == objects'[object]
           from == TheStates!StorageOf(c)
           t == [contract |-> c, from |-> from, to |-> to]
           moment == stateTime
           given == Len(objects)
           more == Len(objects')
           due == TheStates!Put(stateSnapshots, c, Append(TheStates!Get(stateSnapshots, c, <<>>), [object |-> object, at |-> moment]))
           snaps == IF TheStates!SnapshotDue(c) THEN due ELSE stateSnapshots
<1>1. /\ contractStates' = TheStates!Put(contractStates, c, object)
      /\ stateTransitions' = Append(stateTransitions, t)
      /\ stateHistory' = TheStates!Put(stateHistory, c, TheStates!Extended(TheStates!Get(stateHistory, c, TheStates!Empty), from, to))
      /\ stateSnapshots' = TheStates!Put(snaps, c, TheStates!Cleaned(snaps[c]))
      /\ stateTime' = stateTime
  BY DEF TheStates!UpdateContractState, TheStates!WithSnapshot
<1>2. given \in Nat /\ more \in Nat /\ moment \in Nat
  <2>1. objects \in Seq(TheStates!Storages) /\ objects' \in Seq(TheStates!Storages)
    BY DEF StateInv, ObjectsFit
  <2> QED  BY <2>1, LenProperties DEF StateInv
<1>3. to \in TheStates!Storages /\ from \in TheStates!Storages
  <2>1. objects' \in Seq(TheStates!Storages)
    BY DEF ObjectsFit
  <2>2. to \in TheStates!Storages
    BY <2>1
  <2> QED  BY <2>2, StorageOfIs
<1> HIDE DEF to, from
<1>4. StatesFit(contractStates', more)
  <2>1. \A d \in DOMAIN contractStates : contractStates[d] \in 1..more
    BY <1>2 DEF StateInv, StatesFit
  <2>2. DOMAIN contractStates \subseteq Contracts
    BY DEF StateInv, StatesFit
  <2> HIDE DEF more
  <2>3. object \in 1..more
    BY DEF more
  <2> QED  BY <1>1, <2>1, <2>2, <2>3 DEF StatesFit, TheStates!Put
<1>5. SnapsFit(stateSnapshots', more, moment)
  <2>1. SnapsFit(stateSnapshots, given, moment)
    BY DEF StateInv
  <2>2. given <= more /\ moment <= moment
    BY <1>2
  <2> HIDE DEF given, more, moment
  <2>3. SnapsFit(stateSnapshots, more, moment)
    BY <1>2, <2>1, <2>2, SnapsStillFit
  <2>4. object \in 1..more
    BY DEF more
  <2>5. SnapsFit(due, more, moment)
    BY <1>2, <2>3, <2>4, SnapTaken
  <2>6. c \in DOMAIN due
    BY DEF TheStates!Put
  <2>7. ~ TheStates!SnapshotDue(c) => c \in DOMAIN stateSnapshots
    BY DEF TheStates!SnapshotDue, TheStates!Get
  <2> HIDE DEF due
  <2>8. SnapsFit(snaps, more, moment) /\ c \in DOMAIN snaps
    BY <2>3, <2>5, <2>6, <2>7
  <2> HIDE DEF snaps
  <2> QED  BY <1>1, <2>8, SnapsCleaned
<1>6. t \in Transition /\ t.contract = c /\ t.from = from /\ t.to = to
  BY <1>3 DEF Transition
<1> HIDE DEF t
<1>7. stateTransitions' \in Seq(Transition)
  BY <1>1, <1>6, AppendProperties DEF StateInv
<1>8. HistoryFits(stateHistory') /\ Told(stateTransitions', stateHistory')
  <2> DEFINE new == TheStates!Put(stateHistory, t.contract, TheStates!Extended(TheStates!Get(stateHistory, t.contract, TheStates!Empty), t.from, t.to))
  <2>1. stateHistory' = new
    BY <1>1, <1>6
  <2>2. stateTransitions \in Seq(Transition) /\ HistoryFits(stateHistory) /\ Told(stateTransitions, stateHistory)
    BY DEF StateInv
  <2>3. Told(Append(stateTransitions, t), new) /\ HistoryFits(new)
    BY <1>6, <2>2, ToldAfterUpdate
  <2> HIDE DEF new
  <2> QED  BY <1>1, <2>1, <2>3
<1>9. stateTime' \in Nat /\ stateTime' <= MaxStateTime
  BY <1>1 DEF StateInv
<1> QED  BY <1>1, <1>4, <1>5, <1>7, <1>8, <1>9 DEF StateInv

LEMMA NewKeeps ==
    ASSUME StatesConstants, StateInv, NEW c \in Contracts, NEW s \in TheStates!Storages, TheStates!UpdateWithNew(c, s)
    PROVE  StateInv'
<1>1. /\ Len(objects) < MaxObjects /\ objects' = Append(objects, s)
      /\ TheStates!UpdateContractState(c, Len(objects) + 1)
  BY DEF TheStates!UpdateWithNew
<1>2. ObjectsFit(objects) /\ Len(objects) \in Nat
  BY LenProperties DEF StateInv, ObjectsFit
<1>3. objects'[Len(objects) + 1] = s
  BY <1>1, AppendProperties DEF StateInv, ObjectsFit
<1>4. TheStates!StateSize(s) <= MaxStorage
  <2>1. TheStates!StateSize(objects'[Len(objects) + 1]) <= MaxStorage
    BY <1>1 DEF TheStates!UpdateContractState
  <2> QED  BY <1>3, <2>1
<1>5. TheStates!StateSize(s) <= MaxStorage + KeyLength
  BY <1>4, SizeIsNat DEF StatesConstants
<1>6. ObjectsFit(objects') /\ Len(objects') = Len(objects) + 1
  BY <1>1, <1>2, <1>5, ObjectsGrow
<1> DEFINE n == Len(objects)
           m == Len(objects')
<1>7. n \in Nat /\ m = n + 1
  BY <1>2, <1>6
<1> HIDE DEF n, m
<1>8. n + 1 \in 1..m /\ n <= m
  BY <1>7
<1> QED  BY <1>1, <1>6, <1>8, UpdateKeeps DEF n, m

LEMMA StoredKeeps ==
    ASSUME StatesConstants, StateInv, NEW c \in Contracts, TheStates!UpdateWithStored(c)
    PROVE  StateInv'
<1>1. c \in DOMAIN contractStates /\ objects' = objects /\ TheStates!UpdateContractState(c, contractStates[c])
  BY DEF TheStates!UpdateWithStored
<1>2. contractStates[c] \in 1..Len(objects) /\ ObjectsFit(objects)
  BY <1>1, StorageOfIs DEF StateInv
<1>3. Len(objects) \in Nat
  BY LenProperties DEF StateInv, ObjectsFit
<1>4. ObjectsFit(objects') /\ contractStates[c] \in 1..Len(objects') /\ Len(objects) <= Len(objects')
  BY <1>1, <1>2, <1>3
<1> QED  BY <1>1, <1>4, UpdateKeeps

LEMMA SetKeeps ==
    ASSUME StatesConstants, StateInv, NEW c \in Contracts, NEW k \in StorageKeys, NEW v \in Values, TheStates!SetStorageValue(c, k, v)
    PROVE  StateInv'
<1> DEFINE s == TheStates!StorageOf(c)
           t == TheStates!Put(s, k, v)
           o == contractStates[c]
<1>1. /\ c \in DOMAIN contractStates /\ TheStates!StateSize(s) - TheStates!Get(s, k, 0) + v <= MaxStorage
      /\ objects' = [objects EXCEPT ![o] = TheStates!Put(objects[o], k, v)]
      /\ UNCHANGED <<stateTime, contractStates, stateSnapshots, stateTransitions, stateHistory>>
  BY DEF TheStates!SetStorageValue
<1>2. s \in TheStates!Storages /\ o \in 1..Len(objects) /\ s = objects[o]
  BY <1>1, StorageOfIs
<1>3. ObjectsFit(objects) /\ Len(objects) \in Nat
  BY LenProperties DEF StateInv, ObjectsFit
<1> HIDE DEF s, o
<1>4. t \in TheStates!Storages /\ TheStates!StateSize(t) <= TheStates!StateSize(s) - TheStates!Get(s, k, 0) + v + KeyLength
  BY <1>2, SizeOfPut
<1>5. TheStates!StateSize(t) <= MaxStorage + KeyLength
  <2>1. TheStates!StateSize(t) \in Int /\ TheStates!StateSize(s) \in Int
    BY <1>2, <1>4, SizeIsNat
  <2>2. TheStates!Get(s, k, 0) \in Int /\ v \in Int /\ KeyLength \in Int /\ MaxStorage \in Int
    <3>1. \A x \in DOMAIN s : s[x] \in Nat
      BY <1>2, StorageIs
    <3> QED  BY <3>1 DEF TheStates!Get, StatesConstants
  <2> DEFINE a == TheStates!StateSize(s)
             b == TheStates!StateSize(t)
             g == TheStates!Get(s, k, 0)
  <2>3. a \in Int /\ b \in Int /\ g \in Int /\ a - g + v <= MaxStorage /\ b <= a - g + v + KeyLength
    BY <1>1, <1>4, <2>1, <2>2
  <2> HIDE DEF a, b, g
  <2>4. b <= MaxStorage + KeyLength
    BY <2>2, <2>3
  <2> QED  BY <2>4 DEF b
<1>6. objects' = [objects EXCEPT ![o] = t]
  BY <1>1, <1>2
<1> HIDE DEF t
<1>7. ObjectsFit(objects') /\ Len(objects') = Len(objects)
  BY <1>2, <1>3, <1>4, <1>5, <1>6, ObjectChanged
<1> QED  BY <1>1, <1>7 DEF StateInv

LEMMA DeleteKeeps ==
    ASSUME StatesConstants, StateInv, NEW c \in Contracts, NEW k \in StorageKeys, TheStates!DeleteStorageValue(c, k)
    PROVE  StateInv'
<1> DEFINE s == TheStates!StorageOf(c)
           t == TheStates!Drop(s, {k})
           o == contractStates[c]
<1>1. /\ c \in DOMAIN contractStates /\ k \in DOMAIN s
      /\ objects' = [objects EXCEPT ![o] = TheStates!Drop(objects[o], {k})]
      /\ UNCHANGED <<stateTime, contractStates, stateSnapshots, stateTransitions, stateHistory>>
  BY DEF TheStates!DeleteStorageValue
<1>2. s \in TheStates!Storages /\ o \in 1..Len(objects) /\ s = objects[o]
  BY <1>1, StorageOfIs
<1>3. ObjectsFit(objects) /\ Len(objects) \in Nat
  BY LenProperties DEF StateInv, ObjectsFit
<1> HIDE DEF s, o
<1>4. t \in TheStates!Storages /\ TheStates!StateSize(t) <= TheStates!StateSize(s)
  BY <1>1, <1>2, SizeOfDrop
<1>5. TheStates!StateSize(t) <= MaxStorage + KeyLength
  <2> DEFINE a == TheStates!StateSize(s)
             b == TheStates!StateSize(t)
  <2>1. a \in Int /\ b \in Int /\ b <= a
    BY <1>2, <1>4, SizeIsNat
  <2>2. a <= MaxStorage + KeyLength
    BY <1>2, <1>3 DEF ObjectsFit
  <2>3. KeyLength \in Int /\ MaxStorage \in Int
    BY DEF StatesConstants
  <2> HIDE DEF a, b
  <2>4. b <= MaxStorage + KeyLength
    BY <2>1, <2>2, <2>3
  <2> QED  BY <2>4 DEF b
<1>6. objects' = [objects EXCEPT ![o] = t]
  BY <1>1, <1>2
<1> HIDE DEF t
<1>7. ObjectsFit(objects') /\ Len(objects') = Len(objects)
  BY <1>2, <1>3, <1>4, <1>5, <1>6, ObjectChanged
<1> QED  BY <1>1, <1>7 DEF StateInv

LEMMA SnapshotKeeps ==
    ASSUME StatesConstants, StateInv, NEW c \in Contracts, TheStates!CreateSnapshot(c)
    PROVE  StateInv'
<1>1. /\ c \in DOMAIN contractStates
      /\ stateSnapshots' = TheStates!Put(stateSnapshots, c, Append(TheStates!Get(stateSnapshots, c, <<>>),
                                                         [object |-> contractStates[c], at |-> stateTime]))
      /\ UNCHANGED <<stateTime, objects, contractStates, stateTransitions, stateHistory>>
  BY DEF TheStates!CreateSnapshot, TheStates!WithSnapshot
<1> DEFINE n == Len(objects)
           o == contractStates[c]
<1>2. n \in Nat /\ o \in 1..n /\ stateTime \in Nat /\ SnapsFit(stateSnapshots, n, stateTime)
  BY <1>1, LenProperties, StorageOfIs DEF StateInv, ObjectsFit
<1>3. Len(objects') = n
  BY <1>1
<1> HIDE DEF n, o
<1>4. SnapsFit(stateSnapshots', n, stateTime)
  BY <1>1, <1>2, SnapTaken DEF o
<1> QED  BY <1>1, <1>3, <1>4 DEF StateInv, n

LEMMA RestoreKeeps ==
    ASSUME StatesConstants, StateInv, NEW c \in Contracts, NEW i, TheStates!RestoreFromSnapshot(c, i)
    PROVE  StateInv'
<1> DEFINE s == stateSnapshots[c]
           o == s[i].object
           n == Len(objects)
           copy == objects[o]
<1>1. /\ c \in DOMAIN stateSnapshots /\ i \in DOMAIN s /\ n < MaxObjects
      /\ objects' = Append(objects, copy)
      /\ contractStates' = TheStates!Put(contractStates, c, n + 1)
      /\ UNCHANGED <<stateTime, stateSnapshots, stateTransitions, stateHistory>>
  BY DEF TheStates!RestoreFromSnapshot
<1>2. ObjectsFit(objects) /\ n \in Nat /\ objects \in Seq(TheStates!Storages) /\ stateTime \in Nat
  BY LenProperties DEF StateInv, ObjectsFit
<1>3. SnapsFit(stateSnapshots, n, stateTime)
  BY DEF StateInv
<1>4. o \in 1..n
  <2>1. s \in Seq(Snap) /\ \A j \in 1..Len(s) : s[j].object >= 1 /\ s[j].object <= n
    BY <1>1, <1>3 DEF SnapsFit
  <2>2. i \in 1..Len(s)
    BY <1>1, <2>1
  <2>3. s[i] \in Snap
    BY <2>1, <2>2
  <2>4. o \in Nat /\ o >= 1 /\ o <= n
    BY <2>1, <2>2, <2>3 DEF Snap
  <2> HIDE DEF o, n
  <2> QED  BY <1>2, <2>4
<1>5. copy \in TheStates!Storages /\ TheStates!StateSize(copy) <= MaxStorage + KeyLength
  BY <1>2, <1>4 DEF ObjectsFit
<1>6. ObjectsFit(objects') /\ Len(objects') = n + 1
  <2> HIDE DEF copy, o
  <2> QED  BY <1>1, <1>2, <1>5, ObjectsGrow
<1> HIDE DEF n, copy, o, s
<1>7. StatesFit(contractStates', n + 1)
  <2>1. \A d \in DOMAIN contractStates : contractStates[d] \in 1..n
    BY DEF StateInv, StatesFit, n
  <2>2. \A j \in 1..n : j \in 1..(n + 1)
    BY <1>2
  <2>3. DOMAIN contractStates \subseteq Contracts
    BY DEF StateInv, StatesFit
  <2>4. n + 1 \in 1..(n + 1)
    BY <1>2
  <2> QED  BY <1>1, <2>1, <2>2, <2>3, <2>4 DEF StatesFit, TheStates!Put
<1>8. SnapsFit(stateSnapshots, n + 1, stateTime)
  <2>1. n <= n + 1 /\ n + 1 \in Nat /\ stateTime <= stateTime
    BY <1>2
  <2> QED  BY <1>2, <1>3, <2>1, SnapsStillFit
<1> QED  BY <1>1, <1>6, <1>7, <1>8 DEF StateInv

LEMMA DeleteSnapshotKeeps ==
    ASSUME StatesConstants, StateInv, NEW c \in Contracts, NEW i, TheStates!DeleteSnapshot(c, i)
    PROVE  StateInv'
<1>1. /\ c \in DOMAIN stateSnapshots
      /\ stateSnapshots' = [stateSnapshots EXCEPT ![c] = Kept(@, DOMAIN @ \ {i})]
      /\ UNCHANGED <<stateTime, objects, contractStates, stateTransitions, stateHistory>>
  BY StatesKept DEF TheStates!DeleteSnapshot
<1>2. SnapsFit(stateSnapshots, Len(objects), stateTime)
  BY DEF StateInv
<1>3. SnapsFit(stateSnapshots', Len(objects), stateTime)
  BY <1>1, <1>2, SnapsWithout
<1> QED  BY <1>1, <1>3 DEF StateInv

LEMMA ClearStatesKeeps ==
    ASSUME StatesConstants, StateInv, NEW C, TheStates!Clear(C)
    PROVE  StateInv'
<1> DEFINE A == {i \in DOMAIN stateTransitions : stateTransitions[i].contract \notin C}
<1>1. /\ contractStates' = TheStates!Drop(contractStates, C)
      /\ stateSnapshots' = TheStates!Drop(stateSnapshots, C)
      /\ stateHistory' = TheStates!Drop(stateHistory, C)
      /\ stateTransitions' = Kept(stateTransitions, A)
      /\ UNCHANGED <<stateTime, objects>>
  BY StatesKept DEF TheStates!Clear
<1>2. stateTransitions \in Seq(Transition) /\ HistoryFits(stateHistory) /\ Told(stateTransitions, stateHistory)
  BY DEF StateInv
<1>3. /\ Told(Kept(stateTransitions, A), TheStates!Drop(stateHistory, C)) /\ HistoryFits(TheStates!Drop(stateHistory, C))
      /\ Kept(stateTransitions, A) \in Seq(Transition)
  BY <1>2, ToldAfterClear
<1> HIDE DEF A
<1>4. StatesFit(contractStates', Len(objects))
  BY <1>1 DEF StateInv, StatesFit, TheStates!Drop
<1>5. SnapsFit(stateSnapshots', Len(objects), stateTime)
  BY <1>1 DEF StateInv, SnapsFit, TheStates!Drop
<1> QED  BY <1>1, <1>3, <1>4, <1>5 DEF StateInv

LEMMA IntervalKeeps ==
    ASSUME StatesConstants, StateInv, TheStates!IntervalPasses
    PROVE  StateInv'
<1>1. /\ stateTime < MaxStateTime /\ stateTime' = stateTime + 1
      /\ UNCHANGED <<objects, contractStates, stateSnapshots, stateTransitions, stateHistory>>
  BY DEF TheStates!IntervalPasses
<1>2. stateTime \in Nat /\ MaxStateTime \in Nat /\ Len(objects) \in Nat
  BY LenProperties DEF StateInv, StatesConstants, ObjectsFit
<1>3. stateTime + 1 \in Nat /\ stateTime + 1 <= MaxStateTime /\ stateTime <= stateTime + 1 /\ Len(objects) <= Len(objects)
  BY <1>1, <1>2
<1>4. SnapsFit(stateSnapshots, Len(objects), stateTime + 1)
  BY <1>2, <1>3, SnapsStillFit DEF StateInv
<1> QED  BY <1>1, <1>3, <1>4 DEF StateInv

LEMMA StateInit ==
    ASSUME StatesConstants, TheStates!Init
    PROVE  StateInv
<1>1. /\ stateTime = 0 /\ objects = <<>>
      /\ contractStates = TheStates!Empty /\ stateSnapshots = TheStates!Empty
      /\ stateTransitions = <<>> /\ stateHistory = TheStates!Empty
  BY DEF TheStates!Init
<1>2. objects \in Seq(TheStates!Storages) /\ Len(objects) = 0 /\ stateTransitions \in Seq(Transition) /\ Len(stateTransitions) = 0
  BY <1>1
<1>3. ObjectsFit(objects) /\ StatesFit(contractStates, Len(objects))
  BY <1>1, <1>2 DEF ObjectsFit, StatesFit, TheStates!Empty, StatesConstants
<1>4. SnapsFit(stateSnapshots, Len(objects), stateTime) /\ HistoryFits(stateHistory)
  BY <1>1 DEF SnapsFit, HistoryFits, TheStates!Empty
<1>5. ASSUME NEW c \in Contracts, NEW k \in StorageKeys
      PROVE  TheStates!Get(TheStates!Get(stateHistory, c, TheStates!Empty), k, <<>>) = Brought(stateTransitions, c, k)
  <2>1. TheStates!Get(TheStates!Get(stateHistory, c, TheStates!Empty), k, <<>>) = <<>>
    BY <1>1 DEF TheStates!Get, TheStates!Empty
  <2>2. Bringing(stateTransitions, c, k) = {}
    BY <1>2 DEF Bringing
  <2>3. DOMAIN Kept(stateTransitions, {}) = {}
    <3>1. Cardinality({}) = 0
      BY FS_EmptySet
    <3>2. DOMAIN Kept(stateTransitions, {}) = 1..Cardinality({})
      BY DEF Kept
    <3> QED  BY <3>1, <3>2
  <2>4. Brought(stateTransitions, c, k) = <<>>
    BY <2>2, <2>3 DEF Brought
  <2> QED  BY <2>1, <2>4
<1>6. stateTime \in Nat /\ stateTime <= MaxStateTime
  BY <1>1 DEF StatesConstants
<1> QED  BY <1>2, <1>3, <1>4, <1>5, <1>6 DEF StateInv, Told

LEMMA StateStep ==
    ASSUME StatesConstants, StateInv, [TheStates!Next]_TheStates!stateVars
    PROVE  StateInv'
<1>1. CASE UNCHANGED TheStates!stateVars
  BY <1>1 DEF TheStates!stateVars, StateInv
<1>2. CASE \E c \in Contracts : \E s \in TheStates!Storages : TheStates!UpdateWithNew(c, s)
  BY <1>2, NewKeeps
<1>3. CASE \E c \in Contracts : TheStates!UpdateWithStored(c) \/ TheStates!CreateSnapshot(c)
  BY <1>3, StoredKeeps, SnapshotKeeps
<1>4. CASE \E c \in Contracts : \E k \in StorageKeys : TheStates!DeleteStorageValue(c, k) \/ \E v \in Values : TheStates!SetStorageValue(c, k, v)
  BY <1>4, SetKeeps, DeleteKeeps
<1>5. CASE \E c \in Contracts : \E i \in 1..(MaxSnapshots + 1) : TheStates!RestoreFromSnapshot(c, i) \/ TheStates!DeleteSnapshot(c, i)
  BY <1>5, RestoreKeeps, DeleteSnapshotKeeps
<1>6. CASE (\E c \in Contracts : TheStates!Clear({c})) \/ TheStates!Clear(Contracts)
  BY <1>6, ClearStatesKeeps
<1>7. CASE TheStates!IntervalPasses
  BY <1>7, IntervalKeeps
<1>8. \/ \E c \in Contracts : \E s \in TheStates!Storages : TheStates!UpdateWithNew(c, s)
      \/ \E c \in Contracts : TheStates!UpdateWithStored(c) \/ TheStates!CreateSnapshot(c)
      \/ \E c \in Contracts : \E k \in StorageKeys : TheStates!DeleteStorageValue(c, k) \/ \E v \in Values : TheStates!SetStorageValue(c, k, v)
      \/ \E c \in Contracts : \E i \in 1..(MaxSnapshots + 1) : TheStates!RestoreFromSnapshot(c, i) \/ TheStates!DeleteSnapshot(c, i)
      \/ (\E c \in Contracts : TheStates!Clear({c})) \/ TheStates!Clear(Contracts)
      \/ TheStates!IntervalPasses
      \/ UNCHANGED TheStates!stateVars
  BY DEF TheStates!Next
<1> QED  BY <1>1, <1>2, <1>3, <1>4, <1>5, <1>6, <1>7, <1>8

LEMMA StateInvSays ==
    ASSUME StatesConstants, StateInv
    PROVE  TheStates!TypeOK /\ TheStates!SizeIsLimited /\ TheStates!HistoryIsOfTransitions
<1>1. objects \in Seq(TheStates!Storages) /\ DOMAIN objects = 1..Len(objects) /\ Len(objects) \in Nat
  BY LenProperties DEF StateInv, ObjectsFit
<1>2. SnapsFit(stateSnapshots, Len(objects), stateTime)
  BY DEF StateInv
<1>3. ASSUME NEW c \in DOMAIN stateSnapshots, NEW i \in DOMAIN stateSnapshots[c]
      PROVE  /\ stateSnapshots[c][i] \in [object : DOMAIN objects, at : 0..stateTime]
             /\ TheStates!StateSize(objects[stateSnapshots[c][i].object]) <= MaxStorage + KeyLength
  <2> DEFINE s == stateSnapshots[c][i]
             o == s.object
             a == s.at
  <2>1. s \in Snap /\ o >= 1 /\ o <= Len(objects) /\ a <= stateTime
    <3>1. stateSnapshots[c] \in Seq(Snap) /\ i \in 1..Len(stateSnapshots[c])
      BY <1>2 DEF SnapsFit
    <3>2. s \in Snap
      BY <3>1
    <3> QED  BY <1>2, <3>1, <3>2 DEF SnapsFit
  <2>2. s = [object |-> o, at |-> a] /\ o \in Nat /\ a \in Nat
    BY <2>1 DEF Snap
  <2> HIDE DEF s, o, a
  <2>3. o \in 1..Len(objects) /\ a \in 0..stateTime
    BY <1>1, <2>1, <2>2 DEF StateInv
  <2>4. TheStates!StateSize(objects[o]) <= MaxStorage + KeyLength
    BY <2>3 DEF StateInv, ObjectsFit
  <2> QED  BY <1>1, <2>2, <2>3, <2>4 DEF s, o
<1>4. TheStates!TypeOK
  <2>1. stateTime \in 0..MaxStateTime /\ Len(objects) <= MaxObjects
    BY DEF StateInv, ObjectsFit, StatesConstants
  <2>2. \A i \in DOMAIN objects : objects[i] \in TheStates!Storages
    BY <1>1
  <2>3. TheStates!IsMap(contractStates, Contracts, DOMAIN objects)
    BY <1>1 DEF StateInv, StatesFit, TheStates!IsMap
  <2>4. DOMAIN stateSnapshots \subseteq Contracts
    BY <1>2 DEF SnapsFit
  <2>5. \A i \in DOMAIN stateTransitions :
           stateTransitions[i] \in [contract : Contracts, from : TheStates!Storages, to : TheStates!Storages]
    <3>1. \A i \in DOMAIN stateTransitions : stateTransitions[i] \in Transition
      BY DEF StateInv
    <3>2. Transition = [contract : Contracts, from : TheStates!Storages, to : TheStates!Storages]
      BY DEF Transition
    <3> QED  BY <3>1, <3>2
  <2>6. /\ DOMAIN stateHistory \subseteq Contracts
        /\ \A c \in DOMAIN stateHistory : \A k \in DOMAIN stateHistory[c] :
              k \in StorageKeys /\ \A i \in DOMAIN stateHistory[c][k] : stateHistory[c][k][i] \in Values
    BY DEF StateInv, HistoryFits
  <2> QED  BY <1>3, <2>1, <2>2, <2>3, <2>4, <2>5, <2>6 DEF TheStates!TypeOK
<1>5. TheStates!SizeIsLimited
  <2>1. ASSUME NEW c \in DOMAIN contractStates PROVE TheStates!StateSize(TheStates!StorageOf(c)) <= MaxStorage + KeyLength
    <3>1. contractStates[c] \in 1..Len(objects) /\ TheStates!StorageOf(c) = objects[contractStates[c]]
      BY StorageOfIs
    <3> QED  BY <3>1 DEF StateInv, ObjectsFit
  <2> QED  BY <1>3, <2>1 DEF TheStates!SizeIsLimited
<1>6. TheStates!HistoryIsOfTransitions
  <2>1. ASSUME NEW c \in Contracts, NEW k \in StorageKeys
        PROVE  TheStates!Get(TheStates!Get(stateHistory, c, TheStates!Empty), k, <<>>) = Brought(stateTransitions, c, k)
    BY DEF StateInv, Told
  <2> QED  BY <2>1, StatesKept DEF TheStates!HistoryIsOfTransitions, Brought, Bringing
<1> QED  BY <1>4, <1>5, <1>6

-----------------------------------------------------------------------------
\* What SmartContractEngine keeps: the contracts deployed and being deployed are as many
\* as were begun at most, and the balances of each add up to nothing.
LEMMA ContractsCardinality == \A S : TheContracts!Cardinality(S) = Cardinality(S)
BY DEF Cardinality, TheContracts!Cardinality

LEMMA ContractsSum == \A f : TheContracts!Sum(f) = Sum(f)
BY DEF Sum, TheContracts!Sum

ContractsConstants == IsFiniteSet(Parties) /\ Amounts \subseteq Int /\ MaxDeployed \in Nat

Places == Parties \X (0..MaxDeployed)
Balances == [Parties -> Int]
TokenContract == [owner : Parties, balances : Balances, allowances : [Parties -> Balances]]
Deployment == [address : Places, owner : Parties, call : 0..MaxDeployed]

Deploys(reached, awaited, count) ==
    /\ IsFiniteSet(DOMAIN reached) /\ IsFiniteSet(awaited) /\ count \in 0..MaxDeployed
    /\ Cardinality(DOMAIN reached) + Cardinality(awaited) <= count
    /\ DOMAIN reached \subseteq Places /\ awaited \subseteq Deployment

Supplied(reached) == \A a \in DOMAIN reached : reached[a] \in TokenContract /\ Sum(reached[a].balances) = 0

ContractsInv == Deploys(deployed, deploying, begun) /\ Supplied(deployed)

-----------------------------------------------------------------------------
LEMMA NothingAddsUp ==
    ASSUME NEW S, IsFiniteSet(S), NEW f, f = [x \in S |-> 0]
    PROVE  Sum(f) = 0
<1> DEFINE none == [T \in SUBSET S |-> 0]
<1>1. DOMAIN f = S /\ \A x \in S : f[x] = 0
  OBVIOUS
<1>2. PICK sum : Adds(sum, S, f) /\ Sum(f) = sum[S]
  BY <1>1, SumOver
<1>3. Adds(none, S, f)
  <2>1. \A T \in SUBSET S : T # {} => Some(T) \in T /\ T \ {Some(T)} \in SUBSET S
    BY SomeIsIn
  <2>2. \A T \in SUBSET S : 0 = IF T = {} THEN 0 ELSE f[Some(T)] + none[T \ {Some(T)}]
    BY <1>1, <2>1
  <2> QED  BY <2>2 DEF Adds
<1>4. none[S] = 0
  OBVIOUS
<1> HIDE DEF none
<1>5. S \in SUBSET S /\ \A x \in S : f[x] = f[x]
  OBVIOUS
<1>6. sum[S] = none[S]
  BY <1>2, <1>3, <1>5, SumAgrees
<1> QED  BY <1>2, <1>4, <1>6

LEMMA MovedIs ==
    ASSUME ContractsConstants, NEW b \in Balances, NEW x \in Parties, NEW y \in Parties, NEW amount \in Amounts
    PROVE  TheContracts!Moved(b, x, y, amount) \in Balances /\ Sum(TheContracts!Moved(b, x, y, amount)) = Sum(b)
<1> DEFINE taken == [b EXCEPT ![x] = @ - amount]
           moved == [taken EXCEPT ![y] = @ + amount]
<1>1. amount \in Int /\ IsFiniteSet(Parties)
  BY DEF ContractsConstants
<1>2. DOMAIN b = Parties /\ \A p \in Parties : b[p] \in Int
  BY DEF Balances
<1>3. /\ DOMAIN taken = Parties /\ taken[x] = b[x] - amount /\ taken \in Balances
      /\ \A p \in Parties : taken[p] \in Int /\ (p # x => taken[p] = b[p])
  BY <1>1, <1>2 DEF Balances
<1> HIDE DEF taken
<1>4. /\ DOMAIN moved = Parties /\ moved[y] = taken[y] + amount /\ moved \in Balances
      /\ \A p \in Parties : moved[p] \in Int /\ (p # y => moved[p] = taken[p])
  BY <1>1, <1>3 DEF Balances
<1> HIDE DEF moved
<1>5. Sum(taken) = Sum(b) - b[x] + taken[x]
  <2>1. IsFiniteSet(DOMAIN b) /\ x \in DOMAIN b /\ DOMAIN taken = DOMAIN b
    BY <1>1, <1>2, <1>3
  <2>2. (\A p \in DOMAIN b : b[p] \in Int /\ taken[p] \in Int) /\ \A p \in DOMAIN b \ {x} : taken[p] = b[p]
    BY <1>2, <1>3
  <2> QED  BY <2>1, <2>2, SumChanged
<1>6. Sum(moved) = Sum(taken) - taken[y] + moved[y]
  <2>1. IsFiniteSet(DOMAIN taken) /\ y \in DOMAIN taken /\ DOMAIN moved = DOMAIN taken
    BY <1>1, <1>3, <1>4
  <2>2. (\A p \in DOMAIN taken : taken[p] \in Int /\ moved[p] \in Int) /\ \A p \in DOMAIN taken \ {y} : moved[p] = taken[p]
    BY <1>3, <1>4
  <2> QED  BY <2>1, <2>2, SumChanged
<1>7. Sum(b) \in Int
  BY <1>1, <1>2, SumIsInt
<1>8. Sum(moved) = Sum(b)
  <2> DEFINE s == Sum(b)
             r == Sum(taken)
             u == Sum(moved)
             bx == b[x]
             ty == taken[y]
  <2>1. s \in Int /\ bx \in Int /\ ty \in Int /\ r = s - bx + (bx - amount) /\ u = r - ty + (ty + amount)
    BY <1>2, <1>3, <1>4, <1>5, <1>6, <1>7
  <2> HIDE DEF s, r, u, bx, ty
  <2>2. u = s
    BY <1>1, <2>1
  <2> QED  BY <2>2 DEF u, s
<1>9. TheContracts!Moved(b, x, y, amount) = moved
  BY DEF TheContracts!Moved, moved, taken
<1> QED  BY <1>4, <1>8, <1>9

LEMMA NewContractFits ==
    ASSUME ContractsConstants, NEW p \in Parties
    PROVE  TheContracts!NewContract(p) \in TokenContract /\ Sum(TheContracts!NewContract(p).balances) = 0
<1> DEFINE b == [q \in Parties |-> 0]
           w == [q \in Parties |-> b]
<1>1. TheContracts!NewContract(p) = [owner |-> p, balances |-> b, allowances |-> w]
  BY DEF TheContracts!NewContract
<1>2. b \in Balances
  BY DEF Balances
<1>3. Sum(b) = 0
  BY NothingAddsUp DEF ContractsConstants
<1> HIDE DEF b
<1>4. w \in [Parties -> Balances]
  BY <1>2
<1> HIDE DEF w
<1> QED  BY <1>1, <1>2, <1>3, <1>4 DEF TokenContract

\* A contract stored, at a place where there is one or not.
LEMMA StoredIs ==
    ASSUME NEW reached, Supplied(reached), NEW a, NEW c \in TokenContract, Sum(c.balances) = 0
    PROVE  Supplied(TheContracts!Put(reached, a, c)) /\ DOMAIN TheContracts!Put(reached, a, c) = DOMAIN reached \cup {a}
<1> DEFINE new == TheContracts!Put(reached, a, c)
<1>1. DOMAIN new = DOMAIN reached \cup {a} /\ new[a] = c /\ \A x \in DOMAIN reached : x # a => new[x] = reached[x]
  BY DEF TheContracts!Put
<1> HIDE DEF new
<1>2. Supplied(new)
  BY <1>1 DEF Supplied
<1> QED  BY <1>1, <1>2 DEF new

LEMMA OneMore ==
    ASSUME NEW S, IsFiniteSet(S), NEW x
    PROVE  /\ IsFiniteSet(S \cup {x}) /\ Cardinality(S) \in Nat /\ Cardinality(S \cup {x}) \in Nat
           /\ Cardinality(S \cup {x}) <= Cardinality(S) + 1
<1>1. IsFiniteSet(S \cup {x}) /\ Cardinality(S \cup {x}) = IF x \in S THEN Cardinality(S) ELSE Cardinality(S) + 1
  BY FS_AddElement
<1>2. Cardinality(S) \in Nat /\ Cardinality(S \cup {x}) \in Nat
  BY <1>1, FS_CardinalityType
<1> QED  BY <1>1, <1>2

LEMMA DeployKeeps ==
    ASSUME ContractsConstants, ContractsInv, NEW p \in Parties, TheContracts!DeployContract(p)
    PROVE  ContractsInv'
<1> DEFINE m == Cardinality(DOMAIN deployed)
           w == Cardinality(deploying)
           a == TheContracts!GenerateContractAddress(p)
           e == [address |-> a, owner |-> p, call |-> begun]
<1>1. /\ IsFiniteSet(DOMAIN deployed) /\ IsFiniteSet(deploying) /\ begun \in 0..MaxDeployed
      /\ m + w <= begun /\ m \in Nat /\ w \in Nat /\ MaxDeployed \in Nat
      /\ DOMAIN deployed \subseteq Places /\ deploying \subseteq Deployment /\ Supplied(deployed)
  BY FS_CardinalityType DEF ContractsInv, Deploys, ContractsConstants
<1>2. begun < MaxDeployed /\ begun' = begun + 1
  BY DEF TheContracts!DeployContract
<1>3. a \in Places
  <2>1. a = <<p, m>>
    BY ContractsCardinality DEF TheContracts!GenerateContractAddress
  <2> HIDE DEF m, w
  <2>2. m \in 0..MaxDeployed
    BY <1>1, <1>2
  <2> QED  BY <2>1, <2>2 DEF Places
<1>4. e \in Deployment
  BY <1>1, <1>3 DEF Deployment
<1>5. CASE deployed' = TheContracts!Put(deployed, a, TheContracts!NewContract(p)) /\ UNCHANGED deploying
  <2>1. Supplied(deployed') /\ DOMAIN deployed' = DOMAIN deployed \cup {a}
    BY <1>1, <1>5, NewContractFits, StoredIs
  <2> DEFINE m2 == Cardinality(DOMAIN deployed')
  <2>2. IsFiniteSet(DOMAIN deployed') /\ m2 \in Nat /\ m2 <= m + 1
    BY <1>1, <2>1, OneMore
  <2> HIDE DEF m, m2, a
  <2>3. m2 + w <= begun + 1 /\ begun + 1 \in 0..MaxDeployed
    BY <1>1, <1>2, <2>2
  <2>4. w = Cardinality(deploying')
    BY <1>5
  <2> HIDE DEF w
  <2> QED  BY <1>1, <1>2, <1>3, <1>5, <2>1, <2>2, <2>3, <2>4 DEF ContractsInv, Deploys, m2
<1>6. CASE deploying' = deploying \cup {e} /\ UNCHANGED deployed
  <2> DEFINE w2 == Cardinality(deploying')
  <2> HIDE DEF e
  <2>1. IsFiniteSet(deploying') /\ w2 \in Nat /\ w2 <= w + 1
    BY <1>1, <1>6, OneMore
  <2> HIDE DEF w, w2
  <2>2. m + w2 <= begun + 1 /\ begun + 1 \in 0..MaxDeployed
    BY <1>1, <1>2, <2>1
  <2>3. m = Cardinality(DOMAIN deployed')
    BY <1>6
  <2> HIDE DEF m
  <2> QED  BY <1>1, <1>2, <1>4, <1>6, <2>1, <2>2, <2>3 DEF ContractsInv, Deploys, w2
<1> QED  BY <1>5, <1>6 DEF TheContracts!DeployContract

LEMMA ConstructorKeeps ==
    ASSUME ContractsConstants, ContractsInv, NEW d \in deploying, TheContracts!ConstructorDone(d)
    PROVE  ContractsInv'
<1> DEFINE m == Cardinality(DOMAIN deployed)
           w == Cardinality(deploying)
           m2 == Cardinality(DOMAIN deployed')
           w2 == Cardinality(deploying')
<1>1. /\ IsFiniteSet(DOMAIN deployed) /\ IsFiniteSet(deploying) /\ begun \in 0..MaxDeployed
      /\ m + w <= begun /\ m \in Nat /\ w \in Nat
      /\ DOMAIN deployed \subseteq Places /\ deploying \subseteq Deployment /\ Supplied(deployed)
  BY FS_CardinalityType DEF ContractsInv, Deploys
<1>2. /\ deploying' = deploying \ {d} /\ begun' = begun
      /\ deployed' = TheContracts!Put(deployed, d.address, TheContracts!NewContract(d.owner))
  BY DEF TheContracts!ConstructorDone
<1>3. d.address \in Places /\ d.owner \in Parties
  BY <1>1 DEF Deployment
<1>4. Supplied(deployed') /\ DOMAIN deployed' = DOMAIN deployed \cup {d.address}
  BY <1>1, <1>2, <1>3, NewContractFits, StoredIs
<1>5. IsFiniteSet(DOMAIN deployed') /\ m2 \in Nat /\ m2 <= m + 1
  BY <1>1, <1>4, OneMore
<1>6. IsFiniteSet(deploying') /\ w2 = w - 1
  BY <1>1, <1>2, FS_RemoveElement
<1> HIDE DEF m, w, m2, w2
<1>7. m2 + w2 <= begun
  BY <1>1, <1>5, <1>6
<1> QED  BY <1>1, <1>2, <1>3, <1>4, <1>5, <1>6, <1>7 DEF ContractsInv, Deploys, m2, w2

LEMMA CallKeeps ==
    ASSUME ContractsConstants, ContractsInv, NEW a \in DOMAIN deployed, NEW p \in Parties, NEW q \in Parties,
           NEW amount \in Amounts, TheContracts!CallContract(a, p, q, amount)
    PROVE  ContractsInv'
<1> DEFINE c == deployed[a]
           b == c.balances
           w == c.allowances
<1>1. Deploys(deployed, deploying, begun) /\ Supplied(deployed)
  BY DEF ContractsInv
<1>2. c \in TokenContract /\ Sum(b) = 0
  BY <1>1 DEF Supplied
<1>3. /\ c = [owner |-> c.owner, balances |-> b, allowances |-> w]
      /\ c.owner \in Parties /\ b \in Balances /\ w \in [Parties -> Balances]
  BY <1>2 DEF TokenContract
<1>4. ASSUME NEW new \in TokenContract, Sum(new.balances) = 0,
             deployed' = [deployed EXCEPT ![a] = new], UNCHANGED <<deploying, begun>>
      PROVE  ContractsInv'
  <2>1. DOMAIN deployed' = DOMAIN deployed /\ deployed'[a] = new /\ \A x \in DOMAIN deployed : x # a => deployed'[x] = deployed[x]
    BY <1>4
  <2>2. Supplied(deployed')
    BY <1>1, <1>4, <2>1 DEF Supplied
  <2>3. Deploys(deployed', deploying', begun')
    BY <1>1, <1>4, <2>1 DEF Deploys
  <2> QED  BY <2>2, <2>3 DEF ContractsInv
<1>5. CASE TheContracts!Transfer(a, p, q, amount)
  <2> DEFINE moved == TheContracts!Moved(b, p, q, amount)
             new == [c EXCEPT !.balances = moved]
  <2>1. deployed' = [deployed EXCEPT ![a] = new] /\ UNCHANGED <<deploying, begun>>
    BY <1>5 DEF TheContracts!Transfer
  <2>2. moved \in Balances /\ Sum(moved) = 0
    BY <1>2, <1>3, MovedIs
  <2> HIDE DEF moved, c
  <2>3. new \in TokenContract /\ new.balances = moved
    BY <1>2, <1>3, <2>2 DEF TokenContract
  <2> HIDE DEF new
  <2> QED  BY <1>4, <2>1, <2>2, <2>3
<1>6. CASE TheContracts!Approve(a, p, q, amount)
  <2> DEFINE allowed == [w EXCEPT ![p][q] = amount]
             new == [c EXCEPT !.allowances = allowed]
  <2>1. deployed' = [deployed EXCEPT ![a] = new] /\ UNCHANGED <<deploying, begun>>
    BY <1>6 DEF TheContracts!Approve
  <2> HIDE DEF c, w
  <2>2. allowed \in [Parties -> Balances]
    <3>1. amount \in Int
      BY DEF ContractsConstants
    <3>2. [w[p] EXCEPT ![q] = amount] \in Balances
      BY <1>3, <3>1 DEF Balances
    <3> QED  BY <1>3, <3>2
  <2> HIDE DEF allowed
  <2>3. new \in TokenContract /\ new.balances = b
    BY <1>2, <1>3, <2>2 DEF TokenContract
  <2> HIDE DEF new
  <2> QED  BY <1>2, <1>4, <2>1, <2>3
<1>7. ASSUME NEW o \in Parties, TheContracts!TransferFrom(a, p, o, q, amount) PROVE ContractsInv'
  <2> DEFINE moved == TheContracts!Moved(b, o, q, amount)
             allowed == [w EXCEPT ![o][p] = w[o][p] - amount]
             new == [c EXCEPT !.balances = moved, !.allowances = allowed]
  <2>1. deployed' = [deployed EXCEPT ![a].balances = moved, ![a].allowances[o][p] = @ - amount] /\ UNCHANGED <<deploying, begun>>
    BY <1>7 DEF TheContracts!TransferFrom
  <2>2. moved \in Balances /\ Sum(moved) = 0
    BY <1>2, <1>3, MovedIs
  <2> HIDE DEF moved
  <2>3. deployed' = [deployed EXCEPT ![a] = new]
    BY <2>1
  <2> HIDE DEF c, w
  <2>4. allowed \in [Parties -> Balances]
    <3>1. amount \in Int
      BY DEF ContractsConstants
    <3>2. w[o] \in Balances /\ w[o][p] \in Int
      BY <1>3 DEF Balances
    <3>3. [w[o] EXCEPT ![p] = w[o][p] - amount] \in Balances
      BY <3>1, <3>2 DEF Balances
    <3> QED  BY <1>3, <3>3
  <2> HIDE DEF allowed
  <2>5. new \in TokenContract /\ new.balances = moved
    BY <1>2, <1>3, <2>2, <2>4 DEF TokenContract
  <2> HIDE DEF new
  <2> QED  BY <1>4, <2>1, <2>2, <2>3, <2>5
<1> QED  BY <1>5, <1>6, <1>7 DEF TheContracts!CallContract

LEMMA ContractsInit ==
    ASSUME ContractsConstants, TheContracts!Init
    PROVE  ContractsInv
<1>1. deployed = TheContracts!Empty /\ deploying = {} /\ begun = 0 /\ DOMAIN deployed = {}
  BY DEF TheContracts!Init, TheContracts!Empty
<1>2. IsFiniteSet({}) /\ Cardinality({}) = 0
  BY FS_EmptySet
<1> QED  BY <1>1, <1>2 DEF ContractsInv, Deploys, Supplied, ContractsConstants

LEMMA ContractsStep ==
    ASSUME ContractsConstants, ContractsInv, [TheContracts!Next]_TheContracts!engineState
    PROVE  ContractsInv'
<1>1. CASE UNCHANGED TheContracts!engineState
  BY <1>1 DEF TheContracts!engineState, ContractsInv
<1>2. CASE TheContracts!Next
  BY <1>2, DeployKeeps, ConstructorKeeps, CallKeeps DEF TheContracts!Next
<1> QED  BY <1>1, <1>2

LEMMA ContractsInvSays ==
    ASSUME ContractsInv
    PROVE  TheContracts!TypeOK /\ TheContracts!SupplyIsKept
<1>1. /\ DOMAIN deployed \subseteq Places /\ deploying \subseteq Deployment /\ begun \in 0..MaxDeployed
      /\ Supplied(deployed)
  BY DEF ContractsInv, Deploys
<1>2. /\ Places = Parties \X (0..MaxDeployed)
      /\ TokenContract = [owner : Parties, balances : [Parties -> Int], allowances : [Parties -> [Parties -> Int]]]
      /\ Deployment = [address : Parties \X (0..MaxDeployed), owner : Parties, call : 0..MaxDeployed]
  BY DEF Places, TokenContract, Balances, Deployment
<1>3. TheContracts!IsMap(deployed, Places, TokenContract)
  BY <1>1 DEF TheContracts!IsMap, Supplied
<1>4. TheContracts!TypeOK
  BY <1>1, <1>2, <1>3 DEF TheContracts!TypeOK
<1>5. ASSUME NEW a \in DOMAIN deployed
      PROVE  Sum([p \in Parties |-> TheContracts!BalanceOf(a, p)]) = TheContracts!TotalSupply(a)
  <2> DEFINE b == deployed[a].balances
  <2>1. deployed[a] \in TokenContract /\ Sum(b) = 0
    BY <1>1 DEF Supplied
  <2>2. b \in [Parties -> Int]
    BY <2>1 DEF TokenContract, Balances
  <2>3. [p \in Parties |-> TheContracts!BalanceOf(a, p)] = [p \in Parties |-> b[p]]
    BY DEF TheContracts!BalanceOf
  <2> HIDE DEF b
  <2>4. [p \in Parties |-> b[p]] = b
    BY <2>2
  <2> QED  BY <2>1, <2>3, <2>4 DEF TheContracts!TotalSupply
<1> QED  BY <1>4, <1>5, ContractsSum DEF TheContracts!SupplyIsKept

-----------------------------------------------------------------------------
\* What ContractExecutionEngine keeps: the states of the contracts, the calls under way,
\* the environment beside the statistics, and the snapshots, which hold the same.
LEMMA ExecutionCardinality == \A S : TheExecution!Cardinality(S) = Cardinality(S)
BY DEF Cardinality, TheExecution!Cardinality

LEMMA ExecutionSum == \A f : TheExecution!Sum(f) = Sum(f)
BY DEF Sum, TheExecution!Sum

ExecutionConstants ==
    /\ MaxExecMs \in Nat /\ MaxRunning \in Nat /\ MaxNonce \in Nat /\ MaxExecuted \in Nat
    /\ \A o \in Objects : \A name \in DOMAIN ABI[o].functions :
          /\ Len(ABI[o].functions[name].inputs) \in Nat /\ IsFiniteSet(DOMAIN ABI[o].functions[name].inputs)
          /\ ABI[o].functions[name].gasLimit \in Nat

Entries == Names \X (0..MaxExecMs)
Addressed == {AddressOf[o] : o \in Objects}
ObjectState == [nonce : Nat, storage : SUBSET Entries]
Statistics == [deployments : Nat, count : Nat, totalGas : Nat, success : Nat]
Call == [gas : Nat, success : BOOLEAN, events : Seq(Addressed)]

StateFits(state) ==
    /\ state \in ObjectState /\ state.nonce <= MaxNonce
    /\ IsFiniteSet(state.storage) /\ Cardinality(state.storage) <= state.nonce
    /\ state.nonce > 0 => state.storage # {}

CallsFit(ongoing) ==
    /\ ongoing \in Seq(Call) /\ Len(ongoing) <= MaxRunning
    /\ \A i \in 1..Len(ongoing) : Len(ongoing[i].events) <= (IF ongoing[i].success THEN 1 ELSE 0)

StatsFit(counts) == counts \in Statistics /\ counts.deployments <= MaxExecuted /\ counts.success <= counts.count

InPlace(held, many) ==
    /\ IsFiniteSet(DOMAIN held) /\ Cardinality(DOMAIN held) <= many
    /\ \A a \in DOMAIN held : held[a] \in Objects /\ AddressOf[held[a]] = a

EnvironmentFits(env, counts) ==
    /\ env = [contracts |-> env.contracts, gasUsed |-> env.gasUsed, logs |-> env.logs]
    /\ InPlace(env.contracts, counts.deployments)
    /\ env.gasUsed = counts.totalGas /\ env.logs \in Seq(Addressed) /\ Len(env.logs) <= counts.success

SavedFit(snapshots) ==
    \A s \in snapshots : /\ StatsFit(s.stats) /\ s.gasUsed = s.stats.totalGas
                         /\ \A a \in DOMAIN s.states : StateFits(s.states[a])

ExecutionInv ==
    /\ execMs \in Nat /\ execMs <= MaxExecMs
    /\ objectState = [o \in Objects |-> objectState[o]] /\ \A o \in Objects : StateFits(objectState[o])
    /\ CallsFit(running) /\ StatsFit(stats) /\ stats.count + Len(running) <= MaxExecuted
    /\ EnvironmentFits(environment, stats) /\ SavedFit(saved)

-----------------------------------------------------------------------------
LEMMA GasIsNat ==
    ASSUME ExecutionConstants, NEW o \in Objects, NEW name \in DOMAIN ABI[o].functions
    PROVE  TheExecution!GasUsage(ABI[o].functions[name]) \in Nat
<1> DEFINE function == ABI[o].functions[name]
           arguments == Len(function.inputs)
           Cost(type) == CASE type = "string" -> 100 + 10 * arguments [] type = "bytes" -> 100 [] OTHER -> 50
           costs == [i \in DOMAIN function.inputs |-> Cost(function.inputs[i])]
           own == IF function.gasLimit = 0 THEN 50000 ELSE function.gasLimit
<1>1. arguments \in Nat /\ IsFiniteSet(DOMAIN function.inputs) /\ function.gasLimit \in Nat
  BY DEF ExecutionConstants
<1>2. TheExecution!GasUsage(function) = 21000 + Sum(costs) + own
  BY ExecutionSum DEF TheExecution!GasUsage
<1> HIDE DEF function
<1>3. \A type : Cost(type) \in Nat
  <2> HIDE DEF arguments
  <2> TAKE type
  <2>1. 100 + 10 * arguments \in Nat
    BY <1>1
  <2>2. CASE type = "string"
    BY <2>1, <2>2
  <2>3. CASE type = "bytes"
    BY <2>3
  <2>4. CASE type # "string" /\ type # "bytes"
    BY <2>4
  <2> QED  BY <2>2, <2>3, <2>4
<1> HIDE DEF Cost
<1>4. IsFiniteSet(DOMAIN costs) /\ \A i \in DOMAIN costs : costs[i] \in Nat
  BY <1>1, <1>3
<1> HIDE DEF costs
<1>5. Sum(costs) \in Nat
  BY <1>4, SumIsNat
<1>6. own \in Nat
  BY <1>1
<1> HIDE DEF own
<1> QED  BY <1>2, <1>5, <1>6 DEF function

\* A change writes one entry, which may be there.
LEMMA ChangeFits ==
    ASSUME ExecutionConstants, NEW state, StateFits(state), state.nonce < MaxNonce, NEW name \in Names,
           execMs \in Nat, execMs <= MaxExecMs
    PROVE  StateFits(TheExecution!Changed(state, name))
<1> DEFINE e == <<name, execMs>>
           n == state.nonce
           S == state.storage
           T == S \cup {e}
           new == [nonce |-> n + 1, storage |-> T]
<1>1. n \in Nat /\ S \in SUBSET Entries /\ IsFiniteSet(S) /\ Cardinality(S) <= n /\ n < MaxNonce /\ MaxNonce \in Nat
  BY DEF StateFits, ObjectState, ExecutionConstants
<1>2. e \in Entries
  BY DEF Entries, ExecutionConstants
<1>3. TheExecution!Changed(state, name) = new
  BY DEF TheExecution!Changed
<1> HIDE DEF e, n, S
<1>4. IsFiniteSet(T) /\ Cardinality(T) <= Cardinality(S) + 1 /\ Cardinality(T) \in Nat /\ Cardinality(S) \in Nat
  BY <1>1, OneMore
<1>5. T \in SUBSET Entries /\ T # {}
  BY <1>1, <1>2
<1> HIDE DEF T
<1>6. Cardinality(T) <= n + 1 /\ n + 1 \in Nat /\ n + 1 <= MaxNonce
  BY <1>1, <1>4
<1>7. new \in ObjectState /\ new.nonce = n + 1 /\ new.storage = T
  BY <1>5, <1>6 DEF ObjectState
<1> HIDE DEF new
<1> QED  BY <1>3, <1>4, <1>5, <1>6, <1>7 DEF StateFits

LEMMA InPlaceAlso ==
    ASSUME NEW held, NEW many \in Nat, InPlace(held, many), NEW o \in Objects
    PROVE  InPlace(TheExecution!Put(held, AddressOf[o], o), many + 1)
<1> DEFINE a == AddressOf[o]
           new == TheExecution!Put(held, a, o)
           m == Cardinality(DOMAIN held)
           m2 == Cardinality(DOMAIN new)
<1>1. DOMAIN new = DOMAIN held \cup {a} /\ new[a] = o /\ \A x \in DOMAIN held : x # a => new[x] = held[x]
  BY DEF TheExecution!Put
<1>2. AddressOf[o] = a
  OBVIOUS
<1> HIDE DEF new, a
<1>3. IsFiniteSet(DOMAIN held) /\ m <= many
  BY DEF InPlace
<1>4. IsFiniteSet(DOMAIN new) /\ m2 <= m + 1 /\ m \in Nat /\ m2 \in Nat
  BY <1>1, <1>3, OneMore
<1> HIDE DEF m, m2
<1>5. m2 <= many + 1
  BY <1>3, <1>4
<1>6. \A x \in DOMAIN new : new[x] \in Objects /\ AddressOf[new[x]] = x
  BY <1>1, <1>2 DEF InPlace
<1>7. InPlace(new, many + 1)
  BY <1>4, <1>5, <1>6 DEF InPlace, m2
<1> QED  BY <1>7 DEF new, a

LEMMA DeployContractKeeps ==
    ASSUME ExecutionConstants, ExecutionInv, NEW o \in Objects, stats.deployments < MaxExecuted, TheExecution!DeployContract(o)
    PROVE  ExecutionInv'
<1> DEFINE held == environment.contracts
           n == stats.deployments
           new == TheExecution!Put(held, AddressOf[o], o)
<1>1. /\ environment' = [environment EXCEPT !.contracts = new]
      /\ stats' = [stats EXCEPT !.deployments = n + 1]
      /\ UNCHANGED <<execMs, objectState, running, saved>>
  BY DEF TheExecution!DeployContract
<1>2. stats \in Statistics /\ n \in Nat /\ stats.success <= stats.count /\ MaxExecuted \in Nat
  BY DEF ExecutionInv, StatsFit, Statistics, ExecutionConstants
<1>3. /\ environment = [contracts |-> held, gasUsed |-> environment.gasUsed, logs |-> environment.logs]
      /\ InPlace(held, n) /\ environment.gasUsed = stats.totalGas
      /\ environment.logs \in Seq(Addressed) /\ Len(environment.logs) <= stats.success
  BY DEF ExecutionInv, EnvironmentFits
<1> HIDE DEF new, n
<1>4. n + 1 \in Nat /\ n + 1 <= MaxExecuted
  BY <1>2 DEF n
<1>5. /\ stats' \in Statistics /\ stats'.deployments = n + 1 /\ stats'.count = stats.count
      /\ stats'.totalGas = stats.totalGas /\ stats'.success = stats.success
  BY <1>1, <1>2, <1>4 DEF Statistics
<1>6. InPlace(new, n + 1)
  BY <1>2, <1>3, InPlaceAlso DEF new
<1> HIDE DEF held
<1>7. environment' = [contracts |-> new, gasUsed |-> environment.gasUsed, logs |-> environment.logs]
  BY <1>1, <1>3
<1>8. EnvironmentFits(environment', stats')
  BY <1>3, <1>5, <1>6, <1>7 DEF EnvironmentFits
<1>9. StatsFit(stats')
  BY <1>2, <1>4, <1>5 DEF StatsFit
<1> QED  BY <1>1, <1>5, <1>8, <1>9 DEF ExecutionInv

LEMMA ExecuteKeeps ==
    ASSUME ExecutionConstants, ExecutionInv, NEW a \in DOMAIN environment.contracts, NEW name \in Names, NEW gasLimit,
           NEW withValue \in BOOLEAN, NEW argumentsFit \in BOOLEAN, TheExecution!ExecuteContract(a, name, withValue, gasLimit, argumentsFit)
    PROVE  ExecutionInv'
<1> DEFINE o == environment.contracts[a]
           runs == TheExecution!Runs(o, name, gasLimit, argumentsFit)
           changes == runs /\ TheExecution!Changes(o, name)
           gas == IF runs THEN TheExecution!GasUsage(ABI[o].functions[name]) ELSE 0
           events == IF changes /\ ABI[o].events THEN <<a>> ELSE <<>>
           c == [gas |-> gas, success |-> runs, events |-> events]
<1>1. /\ Len(running) < MaxRunning /\ stats.count + Len(running) < MaxExecuted
      /\ changes => objectState[o].nonce < MaxNonce
      /\ objectState' = IF changes THEN [objectState EXCEPT ![o] = TheExecution!Changed(objectState[o], name)] ELSE objectState
      /\ running' = Append(running, c)
      /\ UNCHANGED <<execMs, environment, stats, saved>>
  BY DEF TheExecution!ExecuteContract
<1>2. o \in Objects /\ a \in Addressed
  BY DEF ExecutionInv, EnvironmentFits, InPlace, Addressed
<1>3. runs \in BOOLEAN /\ changes \in BOOLEAN /\ (runs => name \in DOMAIN ABI[o].functions) /\ (changes => runs)
  BY DEF TheExecution!Runs, TheExecution!Callable, TheExecution!Changes
<1> HIDE DEF runs
<1>4. gas \in Nat
  <2>1. CASE runs
    BY <1>2, <1>3, <2>1, GasIsNat
  <2>2. CASE ~ runs
    BY <2>2
  <2> QED  BY <2>1, <2>2
<1> HIDE DEF changes
<1>5. events \in Seq(Addressed) /\ Len(events) <= (IF runs THEN 1 ELSE 0)
  <2>1. CASE changes /\ ABI[o].events
    <3>1. events = <<a>> /\ runs
      BY <1>3, <2>1
    <3> HIDE DEF events
    <3> QED  BY <1>2, <3>1
  <2>2. CASE ~ (changes /\ ABI[o].events)
    <3>1. events = <<>>
      BY <2>2
    <3> HIDE DEF events
    <3>2. events \in Seq(Addressed) /\ Len(events) = 0
      BY <3>1
    <3> QED  BY <1>3, <3>2
  <2> QED  BY <2>1, <2>2
<1> HIDE DEF gas, events
<1>6. c \in Call /\ c.events = events /\ c.success = runs
  BY <1>3, <1>4, <1>5 DEF Call
<1> HIDE DEF c
<1>7. CallsFit(running') /\ Len(running') = Len(running) + 1 /\ Len(running) \in Nat
  <2> DEFINE n == Len(running)
  <2>1. running \in Seq(Call) /\ n \in Nat /\ \A i \in 1..n : Len(running[i].events) <= (IF running[i].success THEN 1 ELSE 0)
    BY LenProperties DEF ExecutionInv, CallsFit
  <2>2. /\ running' \in Seq(Call) /\ Len(running') = n + 1
        /\ running'[n + 1] = c /\ \A i \in 1..n : running'[i] = running[i]
    BY <1>1, <1>6, <2>1, AppendProperties
  <2>3. n < MaxRunning /\ MaxRunning \in Nat
    BY <1>1 DEF ExecutionConstants
  <2> HIDE DEF n
  <2>4. ASSUME NEW i \in 1..(n + 1) PROVE Len(running'[i].events) <= (IF running'[i].success THEN 1 ELSE 0)
    <3>1. i \in 1..n \/ i = n + 1
      BY <2>1
    <3>2. CASE i \in 1..n
      BY <2>1, <2>2, <3>2
    <3>3. CASE i = n + 1
      <4>1. running'[i] = c
        BY <2>2, <3>3
      <4> QED  BY <1>5, <1>6, <4>1
    <3> QED  BY <3>1, <3>2, <3>3
  <2>5. n + 1 <= MaxRunning
    BY <2>1, <2>3
  <2> QED  BY <2>1, <2>2, <2>4, <2>5 DEF CallsFit, n
<1>8. objectState' = [x \in Objects |-> objectState'[x]] /\ \A x \in Objects : StateFits(objectState'[x])
  <2>1. objectState = [x \in Objects |-> objectState[x]] /\ \A x \in Objects : StateFits(objectState[x])
    BY DEF ExecutionInv
  <2>2. CASE changes
    <3> DEFINE new == TheExecution!Changed(objectState[o], name)
    <3>1. execMs \in Nat /\ execMs <= MaxExecMs
      BY DEF ExecutionInv
    <3>2. StateFits(new)
      BY <1>1, <1>2, <2>1, <2>2, <3>1, ChangeFits
    <3>3. objectState' = [objectState EXCEPT ![o] = new]
      BY <1>1, <2>2
    <3> HIDE DEF new, o
    <3> QED  BY <2>1, <3>2, <3>3
  <2>3. CASE ~ changes
    BY <1>1, <2>1, <2>3
  <2> QED  BY <2>2, <2>3
<1>9. stats'.count + Len(running') <= MaxExecuted
  <2> DEFINE n == Len(running)
             k == stats.count
  <2>1. k \in Nat /\ MaxExecuted \in Nat /\ k + n < MaxExecuted /\ n \in Nat
    BY <1>1, <1>7 DEF ExecutionInv, StatsFit, Statistics, ExecutionConstants
  <2>2. stats'.count = k /\ Len(running') = n + 1
    BY <1>1, <1>7
  <2> HIDE DEF n, k
  <2>3. k + (n + 1) <= MaxExecuted
    BY <2>1
  <2> QED  BY <2>2, <2>3
<1> QED  BY <1>1, <1>7, <1>8, <1>9 DEF ExecutionInv

LEMMA CountedKeeps ==
    ASSUME ExecutionConstants, ExecutionInv, TheExecution!ExecutionCounted
    PROVE  ExecutionInv'
<1> DEFINE done == Head(running)
           rest == Tail(running)
           one == IF done.success THEN 1 ELSE 0
           logs == environment.logs \o done.events
<1>1. /\ running # <<>>
      /\ environment' = [environment EXCEPT !.gasUsed = @ + done.gas, !.logs = logs]
      /\ stats' = [stats EXCEPT !.count = @ + 1, !.totalGas = @ + done.gas, !.success = @ + one]
      /\ running' = rest
      /\ UNCHANGED <<execMs, objectState, saved>>
  BY DEF TheExecution!ExecutionCounted
<1> DEFINE n == Len(running)
<1>2. running \in Seq(Call) /\ n \in Nat /\ n <= MaxRunning
  BY LenProperties DEF ExecutionInv, CallsFit
<1>3. /\ rest \in Seq(Call) /\ Len(rest) = n - 1 /\ n >= 1 /\ done = running[1] /\ done \in Call
      /\ \A i \in 1..(n - 1) : rest[i] = running[i + 1]
  BY <1>1, <1>2, HeadTailProperties
<1>4. /\ done.gas \in Nat /\ done.events \in Seq(Addressed) /\ Len(done.events) <= one /\ one \in Nat /\ one <= 1
      /\ Len(done.events) \in Nat
  <2>1. 1 \in 1..n
    BY <1>2, <1>3
  <2>2. Len(done.events) <= one
    BY <1>3, <2>1 DEF ExecutionInv, CallsFit
  <2>3. done.gas \in Nat /\ done.events \in Seq(Addressed) /\ done.success \in BOOLEAN
    BY <1>3 DEF Call
  <2> HIDE DEF done
  <2> QED  BY <2>2, <2>3, LenProperties
<1> HIDE DEF done, rest, one
<1>5. CallsFit(rest) /\ Len(rest) \in Nat
  <2>1. ASSUME NEW i \in 1..(n - 1) PROVE Len(rest[i].events) <= (IF rest[i].success THEN 1 ELSE 0)
    <3>1. i + 1 \in 1..n
      BY <1>2
    <3> QED  BY <1>3, <3>1 DEF ExecutionInv, CallsFit
  <2> HIDE DEF n
  <2>2. n - 1 \in Nat /\ n - 1 <= MaxRunning /\ MaxRunning \in Nat
    BY <1>2, <1>3 DEF ExecutionConstants
  <2> QED  BY <1>3, <2>1, <2>2 DEF CallsFit
<1> DEFINE k == stats.count
           g == stats.totalGas
           s == stats.success
           d == stats.deployments
<1>6. /\ stats \in Statistics /\ d \in Nat /\ k \in Nat /\ g \in Nat /\ s \in Nat
      /\ d <= MaxExecuted /\ s <= k /\ k + n <= MaxExecuted /\ MaxExecuted \in Nat
  BY DEF ExecutionInv, StatsFit, Statistics, ExecutionConstants
<1>7. /\ environment = [contracts |-> environment.contracts, gasUsed |-> environment.gasUsed, logs |-> environment.logs]
      /\ InPlace(environment.contracts, d) /\ environment.gasUsed = g
      /\ environment.logs \in Seq(Addressed) /\ Len(environment.logs) <= s
  BY DEF ExecutionInv, EnvironmentFits
<1>8. logs \in Seq(Addressed) /\ Len(logs) = Len(environment.logs) + Len(done.events)
  BY <1>4, <1>7, ConcatProperties
<1>9. Len(logs) <= s + one
  <2> DEFINE x == Len(environment.logs)
             y == Len(done.events)
  <2>1. x \in Nat /\ y \in Nat /\ x <= s /\ y <= one
    BY <1>4, <1>7, LenProperties
  <2> HIDE DEF x, y
  <2>2. x + y <= s + one
    BY <1>4, <1>6, <2>1
  <2> QED  BY <1>8, <2>2 DEF x, y
<1> HIDE DEF logs
<1>10. /\ stats' \in Statistics /\ stats'.deployments = d /\ stats'.count = k + 1
       /\ stats'.totalGas = g + done.gas /\ stats'.success = s + one
  <2> DEFINE k2 == k + 1
             g2 == g + done.gas
             s2 == s + one
             new == [deployments |-> d, count |-> k2, totalGas |-> g2, success |-> s2]
  <2>1. stats = [deployments |-> d, count |-> k, totalGas |-> g, success |-> s]
    BY <1>6 DEF Statistics
  <2>2. stats' = [stats EXCEPT !.count = k2, !.totalGas = g2, !.success = s2]
    BY <1>1
  <2> HIDE DEF k, g, s, d
  <2>3. k2 \in Nat /\ g2 \in Nat /\ s2 \in Nat
    BY <1>4, <1>6
  <2>4. stats' = new
    <3> HIDE DEF k2, g2, s2
    <3> QED  BY <2>1, <2>2
  <2>5. new \in Statistics
    <3> HIDE DEF k2, g2, s2
    <3> QED  BY <1>6, <2>3 DEF Statistics
  <2> QED  BY <2>4, <2>5
<1>11. environment' = [contracts |-> environment.contracts, gasUsed |-> g + done.gas, logs |-> logs]
  BY <1>1, <1>7
<1> HIDE DEF n, k, g, s, d
<1>12. EnvironmentFits(environment', stats')
  <2> DEFINE held == environment.contracts
             used == g + done.gas
             env == [contracts |-> held, gasUsed |-> used, logs |-> logs]
  <2>1. env.contracts = held /\ env.gasUsed = used /\ env.logs = logs
    OBVIOUS
  <2>2. environment' = env /\ InPlace(held, d)
    BY <1>7, <1>11
  <2> HIDE DEF held
  <2> QED  BY <1>8, <1>9, <1>10, <2>1, <2>2 DEF EnvironmentFits
<1>13. s + one <= k + 1 /\ k + 1 + (n - 1) <= MaxExecuted
  BY <1>2, <1>4, <1>6
<1>14. StatsFit(stats') /\ stats'.count + Len(running') <= MaxExecuted
  BY <1>1, <1>3, <1>6, <1>10, <1>13 DEF StatsFit
<1> QED  BY <1>1, <1>5, <1>12, <1>14 DEF ExecutionInv

\* What resets and restores put in the place of the environment.
LEMMA NothingFits ==
    ASSUME NEW counts, StatsFit(counts), NEW gas, gas = counts.totalGas
    PROVE  EnvironmentFits([contracts |-> TheExecution!Empty, gasUsed |-> gas, logs |-> <<>>], counts)
<1> DEFINE env == [contracts |-> TheExecution!Empty, gasUsed |-> gas, logs |-> <<>>]
           d == counts.deployments
           s == counts.success
<1>1. d \in Nat /\ s \in Nat
  BY DEF StatsFit, Statistics
<1>2. DOMAIN TheExecution!Empty = {} /\ IsFiniteSet({}) /\ Cardinality({}) = 0
  BY FS_EmptySet DEF TheExecution!Empty
<1> HIDE DEF d, s
<1>3. InPlace(TheExecution!Empty, d)
  BY <1>1, <1>2 DEF InPlace
<1>4. <<>> \in Seq(Addressed) /\ Len(<<>>) = 0
  OBVIOUS
<1>5. env.contracts = TheExecution!Empty /\ env.gasUsed = gas /\ env.logs = <<>>
  OBVIOUS
<1>6. env = [contracts |-> env.contracts, gasUsed |-> env.gasUsed, logs |-> env.logs]
  OBVIOUS
<1> HIDE DEF env
<1>7. EnvironmentFits(env, counts)
  BY <1>1, <1>3, <1>4, <1>5, <1>6 DEF EnvironmentFits, d, s
<1> QED  BY <1>7 DEF env

LEMMA NoStatsFit ==
    ASSUME ExecutionConstants
    PROVE  StatsFit(TheExecution!NoStats) /\ TheExecution!NoStats.totalGas = 0 /\ TheExecution!NoStats.count = 0
<1>1. MaxExecuted \in Nat
  BY DEF ExecutionConstants
<1>2. TheExecution!NoStats \in Statistics /\ TheExecution!NoStats.deployments = 0 /\ TheExecution!NoStats.success = 0 /\ TheExecution!NoStats.count = 0 /\ TheExecution!NoStats.totalGas = 0
  BY DEF TheExecution!NoStats, Statistics
<1> QED  BY <1>1, <1>2 DEF StatsFit

LEMMA ClearLogsKeeps ==
    ASSUME ExecutionConstants, ExecutionInv, TheExecution!ClearLogs
    PROVE  ExecutionInv'
<1>1. environment' = [environment EXCEPT !.logs = <<>>] /\ UNCHANGED <<execMs, objectState, stats, running, saved>>
  BY DEF TheExecution!ClearLogs
<1> DEFINE held == environment.contracts
           used == environment.gasUsed
           env == [contracts |-> held, gasUsed |-> used, logs |-> <<>>]
<1>2. /\ environment = [contracts |-> held, gasUsed |-> used, logs |-> environment.logs]
      /\ InPlace(held, stats.deployments) /\ used = stats.totalGas
  BY DEF ExecutionInv, EnvironmentFits
<1>3. stats.success \in Nat
  BY DEF ExecutionInv, StatsFit, Statistics
<1>4. environment' = env
  BY <1>1, <1>2
<1>5. env.contracts = held /\ env.gasUsed = used /\ env.logs = <<>>
  OBVIOUS
<1>6. env = [contracts |-> env.contracts, gasUsed |-> env.gasUsed, logs |-> env.logs]
  OBVIOUS
<1>7. <<>> \in Seq(Addressed) /\ Len(<<>>) = 0
  OBVIOUS
<1> HIDE DEF held, used, env
<1>8. EnvironmentFits(env, stats)
  BY <1>2, <1>3, <1>5, <1>6, <1>7 DEF EnvironmentFits
<1> QED  BY <1>1, <1>4, <1>8 DEF ExecutionInv

LEMMA ResetKeeps ==
    ASSUME ExecutionConstants, ExecutionInv, TheExecution!Reset
    PROVE  ExecutionInv'
<1>1. environment' = TheExecution!NoContracts /\ stats' = TheExecution!NoStats /\ UNCHANGED <<execMs, objectState, running, saved>>
  BY DEF TheExecution!Reset
<1>2. StatsFit(TheExecution!NoStats) /\ TheExecution!NoStats.totalGas = 0 /\ TheExecution!NoStats.count = 0
  BY NoStatsFit
<1>3. EnvironmentFits(environment', TheExecution!NoStats)
  BY <1>1, <1>2, NothingFits DEF TheExecution!NoContracts
<1>4. 0 + Len(running) <= MaxExecuted
  <2> DEFINE n == Len(running)
             k == stats.count
  <2>1. n \in Nat /\ k \in Nat /\ k + n <= MaxExecuted /\ MaxExecuted \in Nat
    BY LenProperties DEF ExecutionInv, CallsFit, StatsFit, Statistics, ExecutionConstants
  <2> HIDE DEF n, k
  <2> QED  BY <2>1 DEF n
<1> QED  BY <1>1, <1>2, <1>3, <1>4 DEF ExecutionInv

LEMMA CreateSnapshotKeeps ==
    ASSUME ExecutionConstants, ExecutionInv, TheExecution!CreateSnapshot
    PROVE  ExecutionInv'
<1> DEFINE states == [a \in DOMAIN environment.contracts |-> objectState[environment.contracts[a]]]
           new == [states |-> states, gasUsed |-> environment.gasUsed, stats |-> stats]
<1>1. saved' = saved \cup {new} /\ UNCHANGED <<execMs, objectState, environment, stats, running>>
  BY ExecutionCardinality DEF TheExecution!CreateSnapshot
<1>2. \A a \in DOMAIN states : StateFits(states[a])
  BY DEF ExecutionInv, EnvironmentFits, InPlace
<1>3. StatsFit(stats) /\ environment.gasUsed = stats.totalGas
  BY DEF ExecutionInv, EnvironmentFits
<1>4. new.states = states /\ new.gasUsed = environment.gasUsed /\ new.stats = stats
  OBVIOUS
<1> HIDE DEF states, new
<1>5. SavedFit(saved \cup {new})
  BY <1>2, <1>3, <1>4 DEF ExecutionInv, SavedFit
<1> QED  BY <1>1, <1>5 DEF ExecutionInv

LEMMA RestoreSnapshotKeeps ==
    ASSUME ExecutionConstants, ExecutionInv, TheExecution!RestoreSnapshot
    PROVE  ExecutionInv'
<1>1. PICK s \in saved : /\ s.stats.count + Len(running) <= MaxExecuted
                         /\ environment' = [TheExecution!NoContracts EXCEPT !.gasUsed = s.gasUsed] /\ stats' = s.stats
  BY DEF TheExecution!RestoreSnapshot
<1>2. UNCHANGED <<execMs, objectState, running, saved>>
  BY DEF TheExecution!RestoreSnapshot
<1>3. StatsFit(s.stats) /\ s.gasUsed = s.stats.totalGas
  BY DEF ExecutionInv, SavedFit
<1>4. environment' = [contracts |-> TheExecution!Empty, gasUsed |-> s.gasUsed, logs |-> <<>>]
  BY <1>1 DEF TheExecution!NoContracts
<1>5. EnvironmentFits(environment', stats')
  BY <1>1, <1>3, <1>4, NothingFits
<1> QED  BY <1>1, <1>2, <1>3, <1>5 DEF ExecutionInv

LEMMA DeserializeStateKeeps ==
    ASSUME ExecutionConstants, ExecutionInv, NEW o \in Objects, TheExecution!DeserializeState(o)
    PROVE  ExecutionInv'
<1>1. PICK s \in saved : /\ AddressOf[o] \in DOMAIN s.states
                         /\ objectState' = [objectState EXCEPT ![o] = s.states[AddressOf[o]]]
  BY DEF TheExecution!DeserializeState
<1>2. UNCHANGED <<execMs, environment, stats, running, saved>>
  BY DEF TheExecution!DeserializeState
<1> DEFINE new == s.states[AddressOf[o]]
<1>3. StateFits(new)
  BY <1>1 DEF ExecutionInv, SavedFit
<1>4. objectState' = [objectState EXCEPT ![o] = new]
  BY <1>1
<1>5. objectState = [x \in Objects |-> objectState[x]] /\ \A x \in Objects : StateFits(objectState[x])
  BY DEF ExecutionInv
<1> HIDE DEF new
<1>6. objectState' = [x \in Objects |-> objectState'[x]] /\ \A x \in Objects : StateFits(objectState'[x])
  BY <1>3, <1>4, <1>5
<1> QED  BY <1>2, <1>6 DEF ExecutionInv

LEMMA MillisecondKeeps ==
    ASSUME ExecutionConstants, ExecutionInv, TheExecution!MillisecondPasses
    PROVE  ExecutionInv'
<1>1. execMs \in Nat /\ MaxExecMs \in Nat /\ execMs < MaxExecMs /\ execMs' = execMs + 1
  BY DEF TheExecution!MillisecondPasses, ExecutionInv, ExecutionConstants
<1>2. execMs' \in Nat /\ execMs' <= MaxExecMs
  BY <1>1
<1>3. UNCHANGED <<objectState, environment, stats, running, saved>>
  BY DEF TheExecution!MillisecondPasses
<1> QED  BY <1>2, <1>3 DEF ExecutionInv

LEMMA ExecutionInit == ASSUME ExecutionConstants, TheExecution!Init PROVE ExecutionInv
<1>1. /\ execMs = 0 /\ objectState = [o \in Objects |-> [nonce |-> 0, storage |-> {}]]
      /\ environment = TheExecution!NoContracts /\ stats = TheExecution!NoStats /\ running = <<>> /\ saved = {}
  BY DEF TheExecution!Init
<1>2. MaxExecMs \in Nat /\ MaxExecuted \in Nat /\ MaxNonce \in Nat /\ MaxRunning \in Nat
  BY DEF ExecutionConstants
<1>3. StatsFit(TheExecution!NoStats) /\ TheExecution!NoStats.totalGas = 0 /\ TheExecution!NoStats.count = 0
  BY NoStatsFit
<1>4. EnvironmentFits(TheExecution!NoContracts, TheExecution!NoStats)
  BY <1>3, NothingFits DEF TheExecution!NoContracts
<1>5. StateFits([nonce |-> 0, storage |-> {}])
  <2> DEFINE new == [nonce |-> 0, storage |-> {}]
  <2>1. new.nonce = 0 /\ new.storage = {} /\ new \in ObjectState
    BY DEF ObjectState
  <2> HIDE DEF new
  <2>2. IsFiniteSet({}) /\ Cardinality({}) = 0
    BY FS_EmptySet
  <2>3. new.nonce <= MaxNonce /\ Cardinality(new.storage) <= new.nonce /\ IsFiniteSet(new.storage)
    BY <1>2, <2>1, <2>2
  <2>4. ~ (new.nonce > 0)
    BY <2>1
  <2>5. StateFits(new)
    BY <2>1, <2>3, <2>4 DEF StateFits
  <2> QED  BY <2>5 DEF new
<1>6. objectState = [x \in Objects |-> objectState[x]] /\ \A x \in Objects : StateFits(objectState[x])
  BY <1>1, <1>5
<1>7. CallsFit(running) /\ Len(running) = 0
  BY <1>1, <1>2 DEF CallsFit
<1>8. SavedFit(saved)
  BY <1>1 DEF SavedFit
<1> QED  BY <1>1, <1>2, <1>3, <1>4, <1>6, <1>7, <1>8 DEF ExecutionInv

LEMMA ExecutionStep == ASSUME ExecutionConstants, ExecutionInv, [TheExecution!Next]_TheExecution!executionVars PROVE ExecutionInv'
<1>1. ASSUME NEW o \in Objects, stats.deployments < MaxExecuted, TheExecution!DeployContract(o) PROVE ExecutionInv'
  BY <1>1, DeployContractKeeps
<1>2. ASSUME NEW a \in DOMAIN environment.contracts, NEW name \in Names, NEW gasLimit \in GasLimits, NEW withValue \in BOOLEAN,
             NEW argumentsFit \in BOOLEAN, TheExecution!ExecuteContract(a, name, withValue, gasLimit, argumentsFit)
      PROVE  ExecutionInv'
  BY <1>2, ExecuteKeeps
<1>3. ASSUME NEW o \in Objects, TheExecution!DeserializeState(o) PROVE ExecutionInv'
  BY <1>3, DeserializeStateKeeps
<1>4. CASE TheExecution!ExecutionCounted
  BY <1>4, CountedKeeps
<1>5. CASE TheExecution!ClearLogs
  BY <1>5, ClearLogsKeeps
<1>6. CASE TheExecution!Reset
  BY <1>6, ResetKeeps
<1>7. CASE TheExecution!CreateSnapshot
  BY <1>7, CreateSnapshotKeeps
<1>8. CASE TheExecution!RestoreSnapshot
  BY <1>8, RestoreSnapshotKeeps
<1>9. CASE TheExecution!MillisecondPasses
  BY <1>9, MillisecondKeeps
<1>10. CASE UNCHANGED TheExecution!executionVars
  BY <1>10 DEF TheExecution!executionVars, ExecutionInv
<1> QED  BY <1>1, <1>2, <1>3, <1>4, <1>5, <1>6, <1>7, <1>8, <1>9, <1>10 DEF TheExecution!Next

LEMMA ExecutionInvSays ==
    ASSUME ExecutionConstants, ExecutionInv
    PROVE  TheExecution!TypeOK /\ TheExecution!CountsAgree /\ TheExecution!StorageWithinNonce
<1>1. /\ execMs \in Nat /\ execMs <= MaxExecMs /\ MaxExecMs \in Nat /\ MaxNonce \in Nat /\ MaxExecuted \in Nat
      /\ \A o \in Objects : StateFits(objectState[o])
      /\ StatsFit(stats) /\ EnvironmentFits(environment, stats) /\ CallsFit(running) /\ stats.count + Len(running) <= MaxExecuted
  BY DEF ExecutionInv, ExecutionConstants
<1>2. execMs \in 0..MaxExecMs
  BY <1>1
<1>3. ASSUME NEW o \in Objects PROVE objectState[o] \in [nonce : 0..MaxNonce, storage : SUBSET (Names \X (0..MaxExecMs))]
  <2> DEFINE x == objectState[o]
  <2>1. StateFits(x)
    BY <1>1
  <2> HIDE DEF x
  <2>2. x \in ObjectState /\ x.nonce \in Nat /\ x.nonce <= MaxNonce /\ x.storage \in SUBSET (Names \X (0..MaxExecMs))
    BY <2>1 DEF StateFits, ObjectState, Entries
  <2>3. x.nonce \in 0..MaxNonce
    BY <1>1, <2>2
  <2> QED  BY <2>2, <2>3 DEF ObjectState, x
<1>4. stats \in [deployments : 0..MaxExecuted, count : 0..MaxExecuted, totalGas : Nat, success : Nat]
  <2> DEFINE d == stats.deployments
             k == stats.count
             n == Len(running)
  <2>1. stats \in Statistics /\ d \in Nat /\ k \in Nat /\ d <= MaxExecuted /\ k + n <= MaxExecuted /\ n \in Nat
    BY <1>1, LenProperties DEF StatsFit, Statistics, CallsFit
  <2> HIDE DEF d, k, n
  <2>2. d \in 0..MaxExecuted /\ k \in 0..MaxExecuted
    BY <1>1, <2>1
  <2> QED  BY <2>1, <2>2 DEF d, k, Statistics
<1>5. TheExecution!TypeOK
  BY <1>1, <1>2, <1>3, <1>4 DEF TheExecution!TypeOK, EnvironmentFits, InPlace, CallsFit
<1>6. TheExecution!CountsAgree
  BY <1>1, ExecutionCardinality DEF TheExecution!CountsAgree, EnvironmentFits, StatsFit, InPlace
<1>7. TheExecution!StorageWithinNonce
  BY <1>1, ExecutionCardinality DEF TheExecution!StorageWithinNonce, StateFits
<1> QED  BY <1>5, <1>6, <1>7

-----------------------------------------------------------------------------
\* And those of MCServices: the identifiers made for templates are none of those given,
\* the lowest price is not above the highest, no discount is more than the whole, a
\* node is one of the validators, what a transaction says is of the accounts, a use of
\* gas is of some, and parties, keys and functions are finitely many.
AllConstants ==
    /\ ServiceConstants
    /\ AutomationConstants /\ GasConstants /\ UsageConstants /\ FinancialConstants /\ RoundsConstants
    /\ SelectionConstants /\ StatesConstants /\ ContractsConstants /\ ExecutionConstants

\* Of SmartContractAutomation, of every number of signers, contracts and payrolls: each
\* payment is one a call reports, and no contract is typed before it is made.
THEOREM PaymentsSpecHolds ==
    ASSUME AutomationConstants
    PROVE  TheAutomation!Spec => [](/\ TheAutomation!TypeOK
                                    /\ TheAutomation!PaymentsAreReported
                                    /\ TheAutomation!TypedWhenMade)
<1>1. TheAutomation!Init => AutomationInv
  BY AutomationInit
<1>2. AutomationInv /\ [TheAutomation!Next]_TheAutomation!automationVars => AutomationInv'
  BY AutomationStep
<1>3. AutomationInv => /\ TheAutomation!TypeOK
                       /\ TheAutomation!PaymentsAreReported
                       /\ TheAutomation!TypedWhenMade
  BY AutomationInvSays
<1> QED  BY <1>1, <1>2, <1>3, PTL DEF TheAutomation!Spec

\* Of SecureFinancialLedger: a transaction it accepted is on the chain's list once unless it
\* is held, and one the trail calls completed is completed.
THEOREM CompletedSpecHolds ==
    ASSUME FinancialConstants
    PROVE  TheFinancialLedger!Spec => [](TheFinancialLedger!TypeOK /\ TheFinancialLedger!LedgerHasTheCompleted)
<1>1. TheFinancialLedger!Init => FinancialInv
  BY FinancialInit
<1>2. FinancialInv /\ [TheFinancialLedger!Next]_TheFinancialLedger!finVars => FinancialInv'
  BY FinancialStep
<1>3. FinancialInv => TheFinancialLedger!TypeOK /\ TheFinancialLedger!LedgerHasTheCompleted
  BY FinancialInvSays
<1> QED  BY <1>1, <1>2, <1>3, PTL DEF TheFinancialLedger!Spec

\* Of the core ConsensusEngine, of every set of validators: the members' votes never decide
\* a block both ways, and a proposer does not vote in its own turn.
THEOREM OutcomesSpecHolds ==
    ASSUME RoundsConstants
    PROVE  TheEngine!Spec => [](TheEngine!TypeOK /\ TheEngine!OneOutcome)
<1>1. TheEngine!Init => RoundsInv
  BY RoundsInit
<1>2. RoundsInv /\ [TheEngine!Next]_TheEngine!engineVars => RoundsInv'
  BY RoundsStep
<1>3. RoundsInv => TheEngine!TypeOK /\ TheEngine!OneOutcome
  BY RoundsInvSays
<1> QED  BY <1>1, <1>2, <1>3, PTL DEF TheEngine!Spec

\* Of BlockSelection, of every pool, account and limit: a block filled in the order of
\* arrival can be executed, and every block keeps to its gas and its size.
THEOREM ChoiceSpecHolds ==
    ASSUME SelectionConstants
    PROVE  TheSelection!SelectionSpec => [](/\ TheSelection!SelectionTypeOK
                                            /\ TheSelection!BlockIsExecutable
                                            /\ TheSelection!BlockWithinLimits)
<1>1. TheSelection!SelectionInit => SelectionInv
  BY SelectionStarts
<1>2. SelectionInv /\ [TheSelection!SelectionNext]_TheSelection!selectionVars => SelectionInv'
  BY SelectionStep
<1>3. SelectionInv => /\ TheSelection!SelectionTypeOK
                      /\ TheSelection!BlockIsExecutable
                      /\ TheSelection!BlockWithinLimits
  BY SelectionInvSays
<1> QED  BY <1>1, <1>2, <1>3, PTL DEF TheSelection!SelectionSpec

\* Of ContractStateManager, of every number of contracts, keys, snapshots and objects: no state
\* is over its limit by more than one key, nor is what a snapshot restores, and a key's history
\* is what the contract's transitions brought it.
THEOREM StatesSpecHolds ==
    ASSUME StatesConstants
    PROVE  TheStates!Spec => [](TheStates!TypeOK /\ TheStates!SizeIsLimited /\ TheStates!HistoryIsOfTransitions)
<1>1. TheStates!Init => StateInv
  BY StateInit
<1>2. StateInv /\ [TheStates!Next]_TheStates!stateVars => StateInv'
  BY StateStep
<1>3. StateInv => TheStates!TypeOK /\ TheStates!SizeIsLimited /\ TheStates!HistoryIsOfTransitions
  BY StateInvSays
<1> QED  BY <1>1, <1>2, <1>3, PTL DEF TheStates!Spec

\* Of SmartContractEngine, of every number of parties and contracts: what the parties have of a
\* contract's token adds up to its supply.
THEOREM SupplySpecHolds ==
    ASSUME ContractsConstants
    PROVE  TheContracts!Spec => [](TheContracts!TypeOK /\ TheContracts!SupplyIsKept)
<1>1. TheContracts!Init => ContractsInv
  BY ContractsInit
<1>2. ContractsInv /\ [TheContracts!Next]_TheContracts!engineState => ContractsInv'
  BY ContractsStep
<1>3. ContractsInv => TheContracts!TypeOK /\ TheContracts!SupplyIsKept
  BY ContractsInvSays
<1> QED  BY <1>1, <1>2, <1>3, PTL DEF TheContracts!Spec

\* Of ContractExecutionEngine, of every set of contracts: through calls that are counted after a
\* reset or a restore, the counts agree with each other and a nonce covers what is stored.
THEOREM CountsSpecHolds ==
    ASSUME ExecutionConstants
    PROVE  TheExecution!Spec => [](/\ TheExecution!TypeOK
                                   /\ TheExecution!CountsAgree
                                   /\ TheExecution!StorageWithinNonce)
<1>1. TheExecution!Init => ExecutionInv
  BY ExecutionInit
<1>2. ExecutionInv /\ [TheExecution!Next]_TheExecution!executionVars => ExecutionInv'
  BY ExecutionStep
<1>3. ExecutionInv => /\ TheExecution!TypeOK
                      /\ TheExecution!CountsAgree
                      /\ TheExecution!StorageWithinNonce
  BY ExecutionInvSays
<1> QED  BY <1>1, <1>2, <1>3, PTL DEF TheExecution!Spec

\* Of GasMeter, of every history, limit and discount: the price stays between limits there
\* were, and the refund of a transaction is that of its last refunded record in the history and
\* no more than half the limit.
THEOREM RefundsSpecHolds ==
    ASSUME GasConstants, UsageConstants
    PROVE  TheGasMeter!Spec => [](TheGasMeter!TypeOK /\ TheGasMeter!PriceIsLimited /\ TheGasMeter!RefundIsOfLastRecord)
<1> DEFINE Inv == GasInv /\ UsageInv
<1>1. TheGasMeter!Init => Inv
  BY GasInit, UsageInit
<1>2. Inv /\ [TheGasMeter!Next]_TheGasMeter!gasVars => Inv'
  BY GasStep, UsageStep
<1>3. Inv => TheGasMeter!TypeOK /\ TheGasMeter!PriceIsLimited /\ TheGasMeter!RefundIsOfLastRecord
  BY GasInvSays, UsageInvSays
<1> HIDE DEF Inv
<1> QED  BY <1>1, <1>2, <1>3, PTL DEF TheGasMeter!Spec

\* DecisionsFollow, of every instance: what was decided is what the evidence calls
\* for, be it a refusal, a verification, the vote on a block or the choice for one, and
\* what was done, a payment, a completed transaction or an alert, is on record.
THEOREM DecisionsAlwaysFollow ==
    ASSUME AllConstants
    PROVE  /\ TheAML!Spec /\ TheKYC!Spec /\ TheAutomation!Spec /\ TheReporting!Spec /\ TheFinancialLedger!Spec
           /\ TheEngine!Spec /\ TheHealth!Spec /\ TheNetwork!Spec /\ TheSelection!SelectionSpec
           => []DecisionsFollow
<1>1. /\ AMLConstants /\ KYCConstants /\ AutomationConstants /\ ReportingConstants /\ FinancialConstants
      /\ RoundsConstants /\ HealthConstants /\ NetworkConstants /\ SelectionConstants
  BY DEF AllConstants, ServiceConstants
<1>2. TheAML!Spec => [](/\ TheAML!TypeOK
                        /\ TheAML!HistoryIsAnalysed
                        /\ TheAML!FrequencyCloses
                        /\ TheAML!NothingBlockedKept)
  BY <1>1, AnalysesSpecHolds
<1>3. TheKYC!Spec => [](TheKYC!TypeOK /\ TheKYC!PipelineDecides /\ TheKYC!LimitAppliesByHandOnly)
  BY <1>1, VerificationsSpecHolds
<1>4. TheAutomation!Spec => [](/\ TheAutomation!TypeOK
                               /\ TheAutomation!PaymentsAreReported
                               /\ TheAutomation!TypedWhenMade)
  BY <1>1, PaymentsSpecHolds
<1>5. TheReporting!Spec => [](/\ TheReporting!TypeOK
                              /\ TheReporting!DashboardCountsAll
                              /\ TheReporting!TransactionsUnscored)
  BY <1>1, ReportsSpecHolds
<1>6. TheFinancialLedger!Spec => [](TheFinancialLedger!TypeOK /\ TheFinancialLedger!LedgerHasTheCompleted)
  BY <1>1, CompletedSpecHolds
<1>7. TheEngine!Spec => [](TheEngine!TypeOK /\ TheEngine!OneOutcome)
  BY <1>1, OutcomesSpecHolds
<1>8. TheHealth!Spec => [](TheHealth!TypeOK /\ TheHealth!FailuresAreAlerted)
  BY <1>1, FailuresSpecHolds
<1>9. TheNetwork!Spec => [](TheNetwork!TypeOK /\ TheNetwork!IncomingIsOpen /\ TheNetwork!HeardOneWay)
  BY <1>1, PeersSpecHolds
<1>10. TheSelection!SelectionSpec
         => [](/\ TheSelection!SelectionTypeOK
               /\ TheSelection!BlockIsExecutable
               /\ TheSelection!BlockWithinLimits)
  BY <1>1, ChoiceSpecHolds
<1>11. /\ TheAML!NothingBlockedKept /\ TheAML!FrequencyCloses
       /\ TheKYC!PipelineDecides /\ TheKYC!LimitAppliesByHandOnly
       /\ TheAutomation!PaymentsAreReported /\ TheAutomation!TypedWhenMade /\ TheReporting!TransactionsUnscored
       /\ TheFinancialLedger!LedgerHasTheCompleted /\ TheEngine!OneOutcome /\ TheHealth!FailuresAreAlerted
       /\ TheNetwork!HeardOneWay /\ TheSelection!BlockIsExecutable /\ TheSelection!BlockWithinLimits
       => DecisionsFollow
  BY DEF DecisionsFollow
<1> QED  BY <1>2, <1>3, <1>4, <1>5, <1>6, <1>7, <1>8, <1>9, <1>10, <1>11, PTL

\* LimitsHold, of every instance: no task is with two workers and none forgotten,
\* no two queries share a connection and the pool keeps to its size, no more than
\* two windows' worth of requests passes in one window's time, the price stays
\* between limits there were, and whoever marks a shard as rebalancing waits for it.
THEOREM LimitsAlwaysHold ==
    ASSUME AllConstants
    PROVE  TheProcessor!Spec /\ TheShards!Spec /\ TheDatabase!Spec /\ TheGasMeter!Spec /\ TheRBAC!Spec => []LimitsHold
<1>1. /\ ProcessorConstants /\ ShardsConstants /\ DatabaseConstants /\ PlansConstants /\ GasConstants
      /\ UsageConstants /\ RBACConstants /\ RateConstants
  BY DEF AllConstants, ServiceConstants
<1>2. TheProcessor!Spec => [](TheProcessor!EachTaskOnce /\ TheProcessor!WaitingIsQueued)
  BY <1>1, TasksInOnePlace
<1>3. TheShards!Spec => [](/\ TheShards!TypeOK
                           /\ TheShards!RoutedIsMember
                           /\ TheShards!RebalancingEnds
                           /\ TheShards!RangesAreRoutes)
  BY <1>1, RoutesSpecHolds
<1>4. TheDatabase!Spec => [](TheDatabase!TypeOK /\ TheDatabase!ConnectionsExclusive /\ TheDatabase!CacheReads)
  BY <1>1, PlansSpecHolds
<1>5. TheGasMeter!Spec => [](TheGasMeter!TypeOK /\ TheGasMeter!PriceIsLimited /\ TheGasMeter!RefundIsOfLastRecord)
  BY <1>1, RefundsSpecHolds
<1>6. TheRBAC!Spec => []TheRBAC!RateIsLimited
  BY <1>1, RateKept
<1>7. /\ TheProcessor!EachTaskOnce /\ TheProcessor!WaitingIsQueued /\ TheShards!RebalancingEnds
      /\ TheDatabase!ConnectionsExclusive /\ TheGasMeter!PriceIsLimited /\ TheRBAC!RateIsLimited
      => LimitsHold
  BY DEF LimitsHold
<1> QED  BY <1>2, <1>3, <1>4, <1>5, <1>6, <1>7, PTL

\* CopiesAgree, of every instance: what is kept twice says the same in both places, be it a
\* history and what it is of, a cache and its order, a table and the lists it indexes, balances
\* and their sum, or statistics and what they count.
THEOREM CopiesAlwaysAgree ==
    ASSUME AllConstants
    PROVE  /\ TheAML!Spec /\ TheCache!Spec /\ TheShards!Spec /\ TheDatabase!Spec /\ TheMonitor!Spec
           /\ TheReporting!Spec /\ TheStates!Spec /\ TheGasMeter!Spec /\ TheContracts!Spec /\ TheNetwork!Spec
           /\ TheExecution!Spec
           => []CopiesAgree
<1>1. /\ AMLConstants /\ CacheConstants /\ ShardsConstants /\ DatabaseConstants /\ PlansConstants
      /\ MonitorConstants /\ ReportingConstants /\ StatesConstants /\ GasConstants /\ UsageConstants
      /\ ContractsConstants /\ NetworkConstants /\ ExecutionConstants
  BY DEF AllConstants, ServiceConstants
<1>2. TheAML!Spec => [](/\ TheAML!TypeOK
                        /\ TheAML!HistoryIsAnalysed
                        /\ TheAML!FrequencyCloses
                        /\ TheAML!NothingBlockedKept)
  BY <1>1, AnalysesSpecHolds
<1>3. TheCache!Spec => [](TheCache!TypeOK /\ TheCache!EvictionKeepsUp /\ TheCache!OrderHasNoStrays)
  BY <1>1, CacheSpecHolds
<1>4. TheShards!Spec => [](/\ TheShards!TypeOK
                           /\ TheShards!RoutedIsMember
                           /\ TheShards!RebalancingEnds
                           /\ TheShards!RangesAreRoutes)
  BY <1>1, RoutesSpecHolds
<1>5. TheDatabase!Spec => [](TheDatabase!TypeOK /\ TheDatabase!ConnectionsExclusive /\ TheDatabase!CacheReads)
  BY <1>1, PlansSpecHolds
<1>6. TheMonitor!Spec => [](/\ TheMonitor!TypeOK
                            /\ TheMonitor!AlertsWatchRecords
                            /\ TheMonitor!SummaryIsOfSamples)
  BY <1>1, RecordsSpecHolds
<1>7. TheReporting!Spec => [](/\ TheReporting!TypeOK
                              /\ TheReporting!DashboardCountsAll
                              /\ TheReporting!TransactionsUnscored)
  BY <1>1, ReportsSpecHolds
<1>8. TheStates!Spec => [](TheStates!TypeOK /\ TheStates!SizeIsLimited /\ TheStates!HistoryIsOfTransitions)
  BY <1>1, StatesSpecHolds
<1>9. TheGasMeter!Spec => [](TheGasMeter!TypeOK /\ TheGasMeter!PriceIsLimited /\ TheGasMeter!RefundIsOfLastRecord)
  BY <1>1, RefundsSpecHolds
<1>10. TheContracts!Spec => [](TheContracts!TypeOK /\ TheContracts!SupplyIsKept)
  BY <1>1, SupplySpecHolds
<1>11. TheNetwork!Spec => [](TheNetwork!TypeOK /\ TheNetwork!IncomingIsOpen /\ TheNetwork!HeardOneWay)
  BY <1>1, PeersSpecHolds
<1>12. TheExecution!Spec => [](/\ TheExecution!TypeOK
                               /\ TheExecution!CountsAgree
                               /\ TheExecution!StorageWithinNonce)
  BY <1>1, CountsSpecHolds
<1>13. /\ TheAML!HistoryIsAnalysed /\ TheCache!EvictionKeepsUp /\ TheCache!OrderHasNoStrays
       /\ TheShards!RoutedIsMember /\ TheShards!RangesAreRoutes /\ TheDatabase!CacheReads
       /\ TheMonitor!AlertsWatchRecords /\ TheMonitor!SummaryIsOfSamples /\ TheReporting!DashboardCountsAll
       /\ TheStates!SizeIsLimited /\ TheStates!HistoryIsOfTransitions /\ TheGasMeter!RefundIsOfLastRecord
       /\ TheContracts!SupplyIsKept /\ TheNetwork!IncomingIsOpen /\ TheExecution!CountsAgree
       /\ TheExecution!StorageWithinNonce
       => CopiesAgree
  BY DEF CopiesAgree
<1> QED  BY <1>2, <1>3, <1>4, <1>5, <1>6, <1>7, <1>8, <1>9, <1>10, <1>11, <1>12, <1>13, PTL

\* ServicesTypeOK, of every instance: every service keeps values of its types and within its
\* bounds.
THEOREM ServicesAlwaysTyped ==
    ASSUME AllConstants
    PROVE  /\ TheAML!Spec /\ TheKYC!Spec /\ TheCache!Spec /\ TheProcessor!Spec /\ TheShards!Spec
           /\ TheDatabase!Spec /\ TheMonitor!Spec /\ TheAutomation!Spec /\ TheAccess!Spec /\ TheReporting!Spec
           /\ ThePermissions!Spec /\ TheFinancialLedger!Spec /\ TheEngine!Spec /\ TheHealth!Spec
           /\ TheStates!Spec /\ TheGasMeter!Spec /\ TheRBAC!Spec /\ TheContracts!Spec /\ TheNetwork!Spec
           /\ TheSelection!SelectionSpec /\ TheExecution!Spec
           => []ServicesTypeOK
<1>1. /\ AMLConstants /\ KYCConstants /\ CacheConstants /\ ProcessorConstants /\ RetriesConstants
      /\ ShardsConstants /\ DatabaseConstants /\ PlansConstants /\ MonitorConstants /\ AutomationConstants
      /\ AccessConstants /\ ReportingConstants /\ PermissionsConstants /\ FinancialConstants /\ RoundsConstants
      /\ HealthConstants /\ StatesConstants /\ GasConstants /\ UsageConstants /\ RBACConstants
      /\ ContractsConstants /\ NetworkConstants /\ SelectionConstants /\ ExecutionConstants
  BY DEF AllConstants, ServiceConstants
<1>2. TheAML!Spec => [](/\ TheAML!TypeOK
                        /\ TheAML!HistoryIsAnalysed
                        /\ TheAML!FrequencyCloses
                        /\ TheAML!NothingBlockedKept)
  BY <1>1, AnalysesSpecHolds
<1>3. TheKYC!Spec => [](TheKYC!TypeOK /\ TheKYC!PipelineDecides /\ TheKYC!LimitAppliesByHandOnly)
  BY <1>1, VerificationsSpecHolds
<1>4. TheCache!Spec => [](TheCache!TypeOK /\ TheCache!EvictionKeepsUp /\ TheCache!OrderHasNoStrays)
  BY <1>1, CacheSpecHolds
<1>5. TheProcessor!Spec => []TheProcessor!TypeOK
  BY <1>1, RetriesSpecHolds
<1>6. TheShards!Spec => [](/\ TheShards!TypeOK
                           /\ TheShards!RoutedIsMember
                           /\ TheShards!RebalancingEnds
                           /\ TheShards!RangesAreRoutes)
  BY <1>1, RoutesSpecHolds
<1>7. TheDatabase!Spec => [](TheDatabase!TypeOK /\ TheDatabase!ConnectionsExclusive /\ TheDatabase!CacheReads)
  BY <1>1, PlansSpecHolds
<1>8. TheMonitor!Spec => [](/\ TheMonitor!TypeOK
                            /\ TheMonitor!AlertsWatchRecords
                            /\ TheMonitor!SummaryIsOfSamples)
  BY <1>1, RecordsSpecHolds
<1>9. TheAutomation!Spec => [](/\ TheAutomation!TypeOK
                               /\ TheAutomation!PaymentsAreReported
                               /\ TheAutomation!TypedWhenMade)
  BY <1>1, PaymentsSpecHolds
<1>10. TheAccess!Spec => [](/\ TheAccess!TypeOK
                            /\ TheAccess!PermissionsMatchRoles
                            /\ TheAccess!LockedByAttempts)
  BY <1>1, AccessSpecHolds
<1>11. TheReporting!Spec => [](/\ TheReporting!TypeOK
                               /\ TheReporting!DashboardCountsAll
                               /\ TheReporting!TransactionsUnscored)
  BY <1>1, ReportsSpecHolds
<1>12. ThePermissions!Spec => [](ThePermissions!TypeOK /\ ThePermissions!AuthorityIsGranted)
  BY <1>1, GrantsSpecHolds
<1>13. TheFinancialLedger!Spec => [](TheFinancialLedger!TypeOK /\ TheFinancialLedger!LedgerHasTheCompleted)
  BY <1>1, CompletedSpecHolds
<1>14. TheEngine!Spec => [](TheEngine!TypeOK /\ TheEngine!OneOutcome)
  BY <1>1, OutcomesSpecHolds
<1>15. TheHealth!Spec => [](TheHealth!TypeOK /\ TheHealth!FailuresAreAlerted)
  BY <1>1, FailuresSpecHolds
<1>16. TheStates!Spec => [](TheStates!TypeOK /\ TheStates!SizeIsLimited /\ TheStates!HistoryIsOfTransitions)
  BY <1>1, StatesSpecHolds
<1>17. TheGasMeter!Spec => [](TheGasMeter!TypeOK /\ TheGasMeter!PriceIsLimited /\ TheGasMeter!RefundIsOfLastRecord)
  BY <1>1, RefundsSpecHolds
<1>18. TheRBAC!Spec => [](TheRBAC!TypeOK /\ TheRBAC!CacheFollowsRoles)
  BY <1>1, RolesSpecHolds
<1>19. TheContracts!Spec => [](TheContracts!TypeOK /\ TheContracts!SupplyIsKept)
  BY <1>1, SupplySpecHolds
<1>20. TheNetwork!Spec => [](TheNetwork!TypeOK /\ TheNetwork!IncomingIsOpen /\ TheNetwork!HeardOneWay)
  BY <1>1, PeersSpecHolds
<1>21. TheSelection!SelectionSpec => [](/\ TheSelection!SelectionTypeOK
                                        /\ TheSelection!BlockIsExecutable
                                        /\ TheSelection!BlockWithinLimits)
  BY <1>1, ChoiceSpecHolds
<1>22. TheExecution!Spec => [](/\ TheExecution!TypeOK
                               /\ TheExecution!CountsAgree
                               /\ TheExecution!StorageWithinNonce)
  BY <1>1, CountsSpecHolds
<1>23. /\ TheAML!TypeOK /\ TheKYC!TypeOK /\ TheCache!TypeOK /\ TheProcessor!TypeOK /\ TheShards!TypeOK
       /\ TheDatabase!TypeOK /\ TheMonitor!TypeOK /\ TheAutomation!TypeOK /\ TheAccess!TypeOK
       /\ TheReporting!TypeOK /\ ThePermissions!TypeOK /\ TheFinancialLedger!TypeOK /\ TheEngine!TypeOK
       /\ TheHealth!TypeOK /\ TheStates!TypeOK /\ TheGasMeter!TypeOK /\ TheRBAC!TypeOK /\ TheContracts!TypeOK
       /\ TheNetwork!TypeOK /\ TheSelection!SelectionTypeOK /\ TheExecution!TypeOK
       => ServicesTypeOK
  BY DEF ServicesTypeOK
<1> QED  BY <1>2, <1>3, <1>4, <1>5, <1>6, <1>7, <1>8, <1>9, <1>10, <1>11, <1>12, <1>13,
         <1>14, <1>15, <1>16, <1>17, <1>18, <1>19, <1>20, <1>21, <1>22, <1>23, PTL

\* SignaturesKept: a signature is never lost.
LEMMA SignedKept ==
    ASSUME AutomationConstants
    PROVE  TheAutomation!Spec => TheAutomation!SignaturesKept
<1> DEFINE Stays == \A c \in DOMAIN contracts : contracts[c].signed \subseteq contracts'[c].signed
<1>1. TheAutomation!Init => AutomationInv
  BY AutomationInit
<1>2. AutomationInv /\ [TheAutomation!Next]_TheAutomation!automationVars => AutomationInv'
  BY AutomationStep
<1>3. AutomationInv /\ [TheAutomation!Next]_TheAutomation!automationVars => Stays
  BY AutomationStep DEF KeptSigned
<1> QED  BY <1>1, <1>2, <1>3, PTL DEF TheAutomation!Spec, TheAutomation!SignaturesKept

\* EndsAreKept, of every instance: what has ended, a task, a signature, a lock, a
\* session or an approval, does not begin again.
THEOREM EndsAlwaysKept ==
    ASSUME AllConstants
    PROVE  TheProcessor!Spec /\ TheAutomation!Spec /\ TheAccess!Spec /\ TheReporting!Spec => EndsAreKept
<1>1. ProcessorConstants /\ AccessConstants /\ ReportingConstants /\ AutomationConstants
  BY DEF AllConstants, ServiceConstants
<1> QED  BY <1>1, FinishedKept, SignedKept, AccessEndedKept, ApprovedKept DEF EndsAreKept

=============================================================================
