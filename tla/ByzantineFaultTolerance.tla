------------------------ MODULE ByzantineFaultTolerance ------------------------
(***************************************************************************)
(* core/consensus/ByzantineFaultTolerance.ts: what one node holds against    *)
(* validators, and how it punishes them.  Each public method is one action;  *)
(* signing an accusation changes no state.                                   *)
(***************************************************************************)
EXTENDS Integers, Sequences, SequencesExt, FiniteSetsExt, FiniteSets

CONSTANTS
    Validators, Rounds, Blocks,
    Threshold,       \* config.accusationThreshold
    EvidenceTimeout, \* config.evidenceTimeout
    Punishment,      \* config.punishmentDuration
    MaxTime,         \* bound: the clock
    MaxAccusations   \* bound: accusations held and slashings made against one validator

VARIABLES
    now,
    evidence,      \* signatures seen, a function on the keys used so far
    accusations,   \* per validator, a set of [id, type, at]: nothing depends on their order
    slashings,     \* slashingRecords, per validator: [amount, at, until]
    jailed,        \* jailedValidators, a function on the validators in it
    reputation     \* validatorReputation, a function on the validators in it

vars == <<now, evidence, accusations, slashings, jailed, reputation>>

Types == {"DOUBLE_SIGNING", "INVALID_BLOCK", "NON_PARTICIPATION"}
Ids == 1 .. MaxAccusations

\* map.get(key) || other, and map.set(key, value); a number 0 counts as absent.
GetOr(f, key, other) == IF key \in DOMAIN f /\ f[key] # 0 THEN f[key] ELSE other
Set(f, key, value) == [k \in DOMAIN f \cup {key} |-> IF k = key THEN value ELSE f[k]]
Without(f, keys) == [k \in DOMAIN f \ keys |-> f[k]]

Nothing == [k \in {} |-> 0]

Init ==
    /\ now = 0
    /\ evidence = [k \in {} |-> {}]
    /\ accusations = [v \in Validators |-> {}]
    /\ slashings = [v \in Validators |-> <<>>]
    /\ jailed = Nothing
    /\ reputation = Nothing

-----------------------------------------------------------------------------
\* checkSlashingConditions: the accusations young enough to count.
Recent(held) == {a \in held : now - a.at < EvidenceTimeout}

\* calculateSlashAmount: 50 for each double signature, 30 for each invalid block
\* and 10 for each absence.
SlashAmount(held) ==
    LET Of(type) == Cardinality({a \in held : a.type = type})
    IN  Min({100, 50 * Of("DOUBLE_SIGNING") + 30 * Of("INVALID_BLOCK") + 10 * Of("NON_PARTICIPATION")})

\* Mutant of Slash: the term is served without a record of it.
SlashQuietly(v, held) ==
    LET amount == SlashAmount(held)
    IN  /\ slashings' = slashings
        /\ jailed' = Set(jailed, v, now + Punishment)
        /\ reputation' = Set(reputation, v, Max({0, GetOr(reputation, v, 100) - amount}))

\* slashValidator
Slash(v, held) ==
    LET amount == SlashAmount(held)
    IN  /\ slashings' = [slashings EXCEPT ![v] =
                            Append(@, [amount |-> amount, at |-> now, until |-> now + Punishment])]
        /\ jailed' = Set(jailed, v, now + Punishment)
        /\ reputation' = Set(reputation, v, Max({0, GetOr(reputation, v, 100) - amount}))

\* createAccusation and checkSlashingConditions: every accusation from the
\* threshold on slashes anew, for all the recent ones.
Accuse(v, type) ==
    \E id \in Ids \ {a.id : a \in accusations[v]} :
        LET held == accusations[v] \cup {[id |-> id, type |-> type, at |-> now]}
        IN  /\ Len(slashings[v]) < MaxAccusations
            /\ accusations' = [accusations EXCEPT ![v] = held]
            /\ IF Cardinality(Recent(held)) >= Threshold THEN Slash(v, Recent(held))
               ELSE UNCHANGED <<slashings, jailed, reputation>>
            /\ UNCHANGED now

\* detectDoubleSigning looks a signature up under the validator and the round,
\* and recordEvidence files it under the validator.
KeyRead(v, r) == <<v, r>>
KeyWritten(v, r) == <<v>>

Seen(v, r) == IF KeyRead(v, r) \in DOMAIN evidence THEN evidence[KeyRead(v, r)] ELSE {}
Filed(v, r) == IF KeyWritten(v, r) \in DOMAIN evidence THEN evidence[KeyWritten(v, r)] ELSE {}

DetectDoubleSigning(v, block, r) ==
    IF \E e \in Seen(v, r) : e.block # block
    THEN Accuse(v, "DOUBLE_SIGNING") /\ UNCHANGED evidence
    ELSE /\ evidence' = Set(evidence, KeyWritten(v, r),
                            Filed(v, r) \cup {[block |-> block, round |-> r, at |-> now]})
         /\ UNCHANGED <<now, accusations, slashings, jailed, reputation>>

\* detectInvalidBlock, for a block that violates a rule.
DetectInvalidBlock(v) == Accuse(v, "INVALID_BLOCK") /\ UNCHANGED evidence

\* detectNonParticipation, for less than half of the votes expected.
DetectNonParticipation(v) == Accuse(v, "NON_PARTICIPATION") /\ UNCHANGED evidence

-----------------------------------------------------------------------------
Served == {v \in DOMAIN jailed : now >= jailed[v]}

ReleaseJailedValidators ==
    /\ Served # {}
    /\ jailed' = Without(jailed, Served)
    /\ UNCHANGED <<now, evidence, accusations, slashings, reputation>>

CleanupOldEvidence(maxAge) ==
    LET Young(x) == x.at > now - maxAge
    IN  /\ accusations' = [v \in Validators |-> {a \in accusations[v] : Young(a)}]
        /\ evidence' = [k \in {q \in DOMAIN evidence : \E e \in evidence[q] : Young(e)} |->
                           {e \in evidence[k] : Young(e)}]
        /\ UNCHANGED <<now, slashings, jailed, reputation>>

ResetValidatorReputation(v) ==
    /\ reputation' = Set(reputation, v, 100)
    /\ accusations' = [accusations EXCEPT ![v] = {}]
    /\ jailed' = Without(jailed, {v})
    /\ UNCHANGED <<now, evidence, slashings>>

Tick ==
    /\ now < MaxTime
    /\ now' = now + 1
    /\ UNCHANGED <<evidence, accusations, slashings, jailed, reputation>>

Next ==
    \/ \E v \in Validators :
          \/ \E b \in Blocks, r \in Rounds : DetectDoubleSigning(v, b, r)
          \/ DetectInvalidBlock(v) \/ DetectNonParticipation(v)
          \/ ResetValidatorReputation(v)
    \/ ReleaseJailedValidators
    \/ \E maxAge \in 0 .. MaxTime : CleanupOldEvidence(maxAge)
    \/ Tick

Spec == Init /\ [][Next]_vars

-----------------------------------------------------------------------------
TypeOK ==
    /\ now \in 0 .. MaxTime
    /\ DOMAIN evidence \subseteq {<<v>> : v \in Validators} \cup (Validators \X Rounds)
    /\ \A k \in DOMAIN evidence :
          evidence[k] \subseteq [block : Blocks, round : Rounds, at : 0 .. MaxTime]
    /\ \A v \in Validators :
          /\ accusations[v] \subseteq [id : Ids, type : Types, at : 0 .. MaxTime]
          /\ \A i \in DOMAIN slashings[v] : slashings[v][i].amount \in 0 .. 100
    /\ DOMAIN jailed \subseteq Validators /\ DOMAIN reputation \subseteq Validators
    /\ \A v \in DOMAIN reputation : reputation[v] \in 0 .. 100

\* A validator in jail is there for the term of its last slashing, and what it
\* was accused of then weighed at least as much as the lightest offences that
\* reach the threshold: through clean-ups, releases and resets.
JailHasRecord ==
    \A v \in DOMAIN jailed :
        /\ slashings[v] # <<>>
        /\ Last(slashings[v]).until = jailed[v]
        /\ Last(slashings[v]).amount >= Min({100, 10 * Threshold})

\* "Check if validator already signed a different block for this round": two
\* signatures of one validator for two blocks of one round are never both filed
\* away as harmless.
NoConflictKept ==
    \A k \in DOMAIN evidence : \A d, e \in evidence[k] : d.round = e.round => d.block = e.block
=============================================================================
