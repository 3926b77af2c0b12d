------------------------ MODULE SmartContractAutomation ------------------------
(***************************************************************************)
(* core/automation/SmartContractAutomation.ts: contracts made from templates, *)
(* signed by their parties, and the payroll.  Every call awaits the audit       *)
(* trail after it changed its state, and the trail may fail.  A party is        *)
(* identified with its address.                                               *)
(***************************************************************************)
EXTENDS Integers, FiniteSets, Maps

CONSTANTS
    Signers,        \* parties of a contract
    Employees,
    TemplateIds,    \* bound: the ids of templates created
    MaxContracts,   \* bound: contracts created
    MaxPayrolls     \* bound: calls of processPayroll

VARIABLES
    templates,    \* template -> the kind of contract made from it
    contracts,    \* id -> [kind, status, signed, typed, payDateMoved]
    creating,     \* id -> kind: createContract awaits its log entry
    payrolls,     \* call -> [contract, todo, paying, errors]
    paid          \* payments made: employee -> number

automationVars == <<templates, contracts, creating, payrolls, paid>>

Kinds == {"loan", "payroll", "escrow", "insurance", "royalty", "custom"}
ContractIds == 1..MaxContracts

\* initializeDefaultTemplates: two of the five kinds have a template.
DefaultTemplates == [t \in {"loan_agreement_template", "payroll_template"} |->
    IF t = "payroll_template" THEN "payroll" ELSE "loan"]
TemplateOf(kind) ==
    IF kind = "loan" THEN "loan_agreement_template" ELSE IF kind = "payroll" THEN "payroll_template"
    ELSE IF kind = "escrow" THEN "escrow_template" ELSE IF kind = "insurance" THEN "insurance_claim_template"
    ELSE "royalty_template"

Init ==
    /\ templates = DefaultTemplates
    /\ contracts = Empty /\ creating = Empty
    /\ payrolls = Empty /\ paid = [e \in Employees |-> 0]

\* createTemplate: under a generated id, so never one of the ids looked up above.
CreateTemplate(t) ==
    /\ t \notin DOMAIN templates
    /\ templates' = Put(templates, t, "custom")
    /\ UNCHANGED <<contracts, creating, payrolls, paid>>

\* createContract up to its await.
Make(template, kind) ==
    /\ template \in DOMAIN templates
    /\ Cardinality(DOMAIN contracts) < MaxContracts
    /\ LET c == Cardinality(DOMAIN contracts) + 1
       IN  /\ contracts' = Put(contracts, c, [kind |-> templates[template], status |-> "DRAFT", signed |-> {},
                                              typed |-> FALSE, payDateMoved |-> FALSE])
           /\ creating' = Put(creating, c, kind)
    /\ UNCHANGED <<templates, payrolls, paid>>

CreateContract(template) == Make(template, "custom")
CreateLoanAgreement == Make(TemplateOf("loan"), "loan")
CreatePayrollContract == Make(TemplateOf("payroll"), "payroll")

\* Mutant of ContractLogged: the typed contract lists its parties afresh.
ContractLoggedAfresh(c, ok) ==
    /\ c \in DOMAIN creating
    /\ creating' = Drop(creating, {c})
    /\ contracts' = IF ok /\ creating[c] # "custom"
                    THEN [contracts EXCEPT ![c].typed = TRUE, ![c].signed = {}] ELSE contracts
    /\ UNCHANGED <<templates, payrolls, paid>>

\* After the await the callers put a copy of the contract in its place, with
\* the same list of parties.  When the log fails the caller is told that the
\* contract was not made, and it is there without what its kind adds.
ContractLogged(c, ok) ==
    /\ c \in DOMAIN creating
    /\ creating' = Drop(creating, {c})
    /\ contracts' = IF ok /\ creating[c] # "custom" THEN [contracts EXCEPT ![c].typed = TRUE] ELSE contracts
    /\ UNCHANGED <<templates, payrolls, paid>>

\* createEscrowContract, createInsuranceClaim and createRoyaltyContract find no
\* template.
TemplateMissing(kind) == TemplateOf(kind) \notin DOMAIN templates

\* signContract, before its await; signing again dates the signature anew.
SignContract(c, party, signer) ==
    /\ c \in DOMAIN contracts /\ party = signer
    /\ contracts' = [contracts EXCEPT ![c].signed = @ \cup {party}]
    /\ UNCHANGED <<templates, creating, payrolls, paid>>

\* activateContract: SmartContractEngine.deployERC20Token throws whatever it is
\* given, and the contract stays as it was; executeContract then refuses it.
ActivateContract(c) ==
    /\ c \in DOMAIN contracts /\ contracts[c].signed = Signers
    /\ UNCHANGED automationVars

-----------------------------------------------------------------------------
\* processPayroll.  It asks neither for the pay date nor for a signature nor
\* whether another call is at it.  Before its contract is typed there are no
\* employees to go through, and it throws.
ProcessPayroll(call, c) ==
    /\ call \notin DOMAIN payrolls /\ c \in DOMAIN contracts
    /\ contracts[c].typed /\ contracts[c].kind = "payroll"
    /\ payrolls' = Put(payrolls, call, [contract |-> c, todo |-> Employees, paying |-> {}, errors |-> {}])
    /\ UNCHANGED <<templates, contracts, creating, paid>>

\* processPayment: the payment is made and a second is waited for.
Pay(call, e) ==
    /\ call \in DOMAIN payrolls /\ payrolls[call].paying = {} /\ e \in payrolls[call].todo
    /\ payrolls' = [payrolls EXCEPT ![call].paying = {e}, ![call].todo = @ \ {e}]
    /\ paid' = [paid EXCEPT ![e] = @ + 1]
    /\ UNCHANGED <<templates, contracts, creating>>

\* Mutant of Paid: a payment that is not counted is put back.
PaidOrRetried(call) ==
    /\ call \in DOMAIN payrolls /\ payrolls[call].paying # {}
    /\ payrolls' = [payrolls EXCEPT ![call].paying = {}, ![call].todo = @ \cup payrolls[call].paying,
                                    ![call].errors = @ \cup payrolls[call].paying]
    /\ UNCHANGED <<templates, contracts, creating, paid>>

\* Then `processed', a constant, is incremented: the error is caught and the
\* employee is reported as one who could not be paid.
Paid(call) ==
    /\ call \in DOMAIN payrolls /\ payrolls[call].paying # {}
    /\ payrolls' = [payrolls EXCEPT ![call].paying = {}, ![call].errors = @ \cup payrolls[call].paying]
    /\ UNCHANGED <<templates, contracts, creating, paid>>

\* The pay date moves, from the contract object the call began with.
PayrollEnds(call) ==
    /\ call \in DOMAIN payrolls /\ payrolls[call].todo \cup payrolls[call].paying = {}
    /\ ~contracts[payrolls[call].contract].payDateMoved
    /\ contracts' = [contracts EXCEPT ![payrolls[call].contract].payDateMoved = TRUE]
    /\ UNCHANGED <<templates, creating, payrolls, paid>>

Next ==
    \/ \E t \in TemplateIds : CreateTemplate(t)
    \/ \E t \in DOMAIN templates : CreateContract(t)
    \/ CreateLoanAgreement \/ CreatePayrollContract
    \/ \E c \in DOMAIN creating, ok \in BOOLEAN : ContractLogged(c, ok)
    \/ \E c \in DOMAIN contracts :
        \/ \E p, s \in Signers : SignContract(c, p, s)
        \/ ActivateContract(c)
        \/ \E call \in 1..MaxPayrolls : ProcessPayroll(call, c)
    \/ \E call \in DOMAIN payrolls : Paid(call) \/ PayrollEnds(call) \/ \E e \in Employees : Pay(call, e)

Spec == Init /\ [][Next]_automationVars

-----------------------------------------------------------------------------
TypeOK ==
    /\ DefaultTemplates = [t \in DOMAIN DefaultTemplates |-> templates[t]]
    /\ IsMap(contracts, ContractIds, [kind : Kinds, status : {"DRAFT", "ACTIVE"}, signed : SUBSET Signers,
                                      typed : BOOLEAN, payDateMoved : BOOLEAN])
    /\ IsMap(creating, ContractIds, Kinds)
    /\ \A call \in DOMAIN payrolls : payrolls[call].contract \in ContractIds
    /\ paid \in [Employees -> Nat]

\* Every payment ever made belongs to the call that made it: one employee is
\* paid once by each call that reached him, however calls overlap, and of all of
\* them that call reports that they could not be paid.
PaymentsAreReported ==
    \A e \in Employees :
        paid[e] = Cardinality({call \in DOMAIN payrolls : e \in payrolls[call].errors \cup payrolls[call].paying})

\* A contract is typed once its creation is over, and never one of a kind that
\* has no template.
TypedWhenMade ==
    /\ \A c \in DOMAIN contracts : contracts[c].typed => c \notin DOMAIN creating /\ contracts[c].kind # "custom"
    /\ \A kind \in {"escrow", "insurance", "royalty"} : TemplateMissing(kind)

\* A signature is never lost, not even one given while the contract that bears
\* it is being replaced.
SignaturesKept ==
    [][\A c \in DOMAIN contracts : contracts[c].signed \subseteq contracts'[c].signed]_automationVars
=============================================================================
