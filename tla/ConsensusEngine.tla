---------------------------- MODULE ConsensusEngine ----------------------------
(***************************************************************************)
(* core/consensus/ConsensusEngine.ts, the engine of rounds of the core library.  *)
(* A timer runs a step of the round every blockTime; start() runs one at once.    *)
(* The pool the proposer asks is a stub that has no transactions, so a proposer's  *)
(* turn ends, one microtask later, without a block; another's turn is waited for    *)
(* one step and ended too.  No round ever has a proposedBlock, so the voting proper,  *)
(* the commit and the checkpoint are never reached.  Votes handed to addVote are      *)
(* counted all the same, whatever block they are for, and the node's own, whose        *)
(* signature is an object without a length, are refused.                              *)
(***************************************************************************)
EXTENDS Integers, Sequences, FiniteSets, Maps

CONSTANTS
    Validators,
    Self,        \* this node
    Undefined,   \* the proposer of an empty set
    MaxRound,    \* bound: rounds
    MaxAsked     \* bound: turns of one's own started before the first ends

VARIABLES
    engineActive,  \* isActive; exactly then the timer is set
    validatorSet,  \* config.validatorSet
    round,         \* currentRound
    phase,         \* currentPhase
    proposer,      \* currentProposer, of the set as it was
    roundVotes,    \* votes: {[validator, decision]}
    asked          \* own turns whose answer from the pool, a microtask, is to come

engineVars == <<engineActive, validatorSet, round, phase, proposer, roundVotes, asked>>

GetNextValidator(set, r) == IF set = <<>> THEN Undefined ELSE set[(r % Len(set)) + 1]

\* initializeConsensusState
Init ==
    /\ engineActive = FALSE
    /\ validatorSet \in {Listed(Validators), <<Self>>}
    /\ round = 0 /\ phase = "PROPOSAL" /\ proposer = GetNextValidator(validatorSet, 0)
    /\ roundVotes = {} /\ asked = 0

AdvanceToNextRound ==
    /\ round < MaxRound
    /\ round' = round + 1
    /\ phase' = "PROPOSAL"
    /\ proposer' = GetNextValidator(validatorSet, round + 1)
    /\ roundVotes' = {}

\* runConsensusRound up to its first await.
RunConsensusRound ==
    \/ /\ phase = "PROPOSAL" /\ proposer = Self     \* handleProposalPhase
       /\ asked < MaxAsked /\ asked' = asked + 1
       /\ UNCHANGED <<round, phase, proposer, roundVotes>>
    \/ /\ phase = "PROPOSAL" /\ proposer # Self
       /\ phase' = "VOTING"
       /\ UNCHANGED <<round, proposer, roundVotes, asked>>
    \/ /\ phase = "VOTING"                          \* handleVotingPhase
       /\ AdvanceToNextRound
       /\ UNCHANGED asked

\* start() while it is stopped; a second start() does nothing.
Start ==
    /\ ~engineActive /\ engineActive' = TRUE
    /\ RunConsensusRound
    /\ UNCHANGED validatorSet

\* The timer, once every microtask is done.
ConsensusTimer ==
    /\ engineActive /\ asked = 0
    /\ RunConsensusRound
    /\ UNCHANGED <<engineActive, validatorSet>>

\* getPendingTransactions answered [].
NoTransactions ==
    /\ asked > 0 /\ asked' = asked - 1
    /\ AdvanceToNextRound
    /\ UNCHANGED <<engineActive, validatorSet>>

\* The steps already begun go on.
Stop ==
    /\ engineActive /\ engineActive' = FALSE
    /\ UNCHANGED <<validatorSet, round, phase, proposer, roundVotes, asked>>

\* addVote, of a member with a signature that has characters, once; the node's
\* own have an object for one and are refused.
AddVote(v, decision) ==
    /\ v \in ToSet(validatorSet)
    /\ \A vote \in roundVotes : vote.validator # v
    /\ roundVotes' = roundVotes \cup {[validator |-> v, decision |-> decision]}
    /\ UNCHANGED <<engineActive, validatorSet, round, phase, proposer, asked>>

\* Mutant of AddValidator: the list is not searched first.
AddValidatorAgain(v) ==
    /\ validatorSet' = Append(validatorSet, v)
    /\ UNCHANGED <<engineActive, round, phase, proposer, roundVotes, asked>>

AddValidator(v) ==
    /\ v \notin ToSet(validatorSet)
    /\ validatorSet' = Append(validatorSet, v)
    /\ UNCHANGED <<engineActive, round, phase, proposer, roundVotes, asked>>

\* The votes it cast stay.
RemoveValidator(v) ==
    /\ v \in ToSet(validatorSet)
    /\ validatorSet' = Kept(validatorSet, {i \in DOMAIN validatorSet : validatorSet[i] # v})
    /\ UNCHANGED <<engineActive, round, phase, proposer, roundVotes, asked>>

Next ==
    \/ Start \/ ConsensusTimer \/ NoTransactions \/ Stop
    \/ \E v \in Validators :
        \/ \E decision \in BOOLEAN : AddVote(v, decision)
        \/ AddValidator(v) \/ RemoveValidator(v)

Spec == Init /\ [][Next]_engineVars

-----------------------------------------------------------------------------
TypeOK ==
    /\ engineActive \in BOOLEAN /\ round \in 0..MaxRound /\ asked \in 0..MaxAsked
    /\ phase \in {"PROPOSAL", "VOTING", "COMMIT"} /\ proposer \in Validators \cup {Undefined}
    /\ ToSet(validatorSet) \subseteq Validators /\ Len(validatorSet) = Cardinality(ToSet(validatorSet))
    /\ roundVotes \subseteq [validator : Validators, decision : BOOLEAN]

Votes(by, decision) ==
    Cardinality({vote \in roundVotes : vote.validator \in by /\ vote.decision = decision})

\* checkConsensus, calculateConsensus: of the votes of these.
Reached(by, decision) == Votes(by, decision) >= ((2 * Len(validatorSet)) \div 3) + 1

\* The node votes on in nobody's turn but another's: it is VOTING only when it
\* was not the proposer when the round began, whoever joined or left since, and
\* however often it was stopped and started meanwhile.  And the votes of the
\* members never decide a block both ways; those of a validator removed since,
\* which stay on the list, could.
OneOutcome ==
    /\ phase = "VOTING" => proposer # Self
    /\ ~(Reached(ToSet(validatorSet), TRUE) /\ Reached(ToSet(validatorSet), FALSE))
=============================================================================
