--------------------------- MODULE ProofOfAuthority ---------------------------
(***************************************************************************)
(* Several nodes that each run ProofOfAuthority (core/consensus/poa.ts) and *)
(* exchange the votes voteOnBlock emits.  The transport is external: the    *)
(* class only emits `voteCast' and is handed votes through addVote, so the  *)
(* channel may reorder, lose, or repeat them (Repeats).                     *)
(*                                                                          *)
(* pendingVotes is modelled by what checkConsensus reads of it: how many    *)
(* approvals and how many rejections a hash has collected.                  *)
(***************************************************************************)
EXTENDS Integers, Sequences, FiniteSets

CONSTANTS
    Voters,       \* every node that may vote or be listed, by nodeInfo.id
    Nodes,        \* those whose collection of votes is followed
    MayValidate,  \* those whose role is authority or validator
    Validators,   \* config.validatorSet at construction, a sequence of ids
    Hashes,       \* block hashes voted on
    VotesPerNode, \* how often a node is asked to vote on one block
    Repeats,      \* whether the channel may deliver a vote twice
    MaxEdits      \* bound: validator-set edits per run

\* The configured list names nobody twice, as addValidator keeps it; the empty
\* name stands for the undefined that an index outside the list reads.
ASSUME ValidatorsAssumption ==
    /\ Validators \in Seq(Voters)
    /\ \A i, j \in DOMAIN Validators : Validators[i] = Validators[j] => i = j
ASSUME NamesAssumption == "" \notin Voters
ASSUME BoundsAssumption == VotesPerNode \in Nat /\ MaxEdits \in Nat /\ Repeats \in BOOLEAN

VARIABLES
    validatorSet,     \* [node -> config.validatorSet]
    currentValidator, \* [node -> index of the next author]
    pendingVotes,     \* [node -> [hash -> [yes, no]]], the lengths of the filters
    cast,             \* votes emitted: [by, hash, approve, nth]
    received,         \* [node -> the votes addVote has been given]
    decisions,        \* [node -> sequence of consensusReached events]
    edits             \* validator-set edits so far

vars == <<validatorSet, currentValidator, pendingVotes, cast, received, decisions, edits>>

RangeOf(s) == {s[i] : i \in DOMAIN s}
NaN == -1

Vote == [by : Voters, hash : Hashes, approve : BOOLEAN, nth : 1 .. VotesPerNode]
NoVotes == [yes |-> 0, no |-> 0]
Decision == [hash : Hashes, approved : BOOLEAN]

TypeOK ==
    /\ validatorSet \in [Nodes -> Seq(Voters)]
    /\ \A n \in Nodes : Cardinality(RangeOf(validatorSet[n])) = Len(validatorSet[n])
    /\ currentValidator \in [Nodes -> Nat \cup {NaN}]
    /\ pendingVotes \in [Nodes -> [Hashes -> [yes : Nat, no : Nat]]]
    /\ cast \in SUBSET Vote
    /\ received \in [Nodes -> SUBSET Vote]
    /\ decisions \in [Nodes -> Seq(Decision)]
    /\ edits \in 0 .. MaxEdits

Init ==
    /\ validatorSet = [n \in Nodes |-> Validators]
    /\ currentValidator = [n \in Nodes |-> 0]
    /\ pendingVotes = [n \in Nodes |-> [h \in Hashes |-> NoVotes]]
    /\ cast = {}
    /\ received = [n \in Nodes |-> {}]
    /\ decisions = [n \in Nodes |-> <<>>]
    /\ edits = 0

\* this.isValidator, computed once in the constructor and never again.
IsValidator(n) == n \in RangeOf(Validators) /\ n \in MayValidate

\* voteOnBlock: nothing stops a second vote on the same hash, so the caller
\* decides how often (VotesPerNode).
VoteOnBlock(n, h, approve) ==
    /\ IsValidator(n)
    /\ LET nth == Cardinality({v \in cast : v.by = n /\ v.hash = h}) + 1
       IN  /\ nth <= VotesPerNode
           /\ cast' = cast \cup {[by |-> n, hash |-> h, approve |-> approve, nth |-> nth]}
    /\ UNCHANGED <<validatorSet, currentValidator, pendingVotes, received, decisions, edits>>

\* Mutants of RequiredVotes: half is enough; everyone is needed.
RequiredVotesHalf(n) == Len(validatorSet[n]) \div 2
RequiredVotesAll(n) == Len(validatorSet[n])

\* Math.floor(validatorSet.length * 0.5) + 1
RequiredVotes(n) == Len(validatorSet[n]) \div 2 + 1

Tally(n, v) ==
    LET old == pendingVotes[n][v.hash]
    IN  IF v.approve THEN [old EXCEPT !.yes = @ + 1] ELSE [old EXCEPT !.no = @ + 1]

\* checkConsensus: approvals are looked at first; a decision deletes the entry.
Outcome(n, t) == IF t.yes >= RequiredVotes(n) THEN "approve"
                 ELSE IF t.no >= RequiredVotes(n) THEN "reject"
                 ELSE "open"

\* Mutant of AddVote: the entry is kept when a decision is emitted.
AddVoteKeepEntry(n, v) ==
    /\ v \in cast
    /\ Repeats \/ v \notin received[n]
    /\ received' = [received EXCEPT ![n] = @ \cup {v}]
    /\ LET t == Tally(n, v)
           o == Outcome(n, t)
       IN  /\ pendingVotes' = [pendingVotes EXCEPT ![n][v.hash] = t]
           /\ decisions' = IF o = "open" THEN decisions
                           ELSE [decisions EXCEPT ![n] =
                                   Append(@, [hash |-> v.hash, approved |-> o = "approve"])]
    /\ UNCHANGED <<validatorSet, currentValidator, cast, edits>>

\* addVote with checkConsensus: after the await of the signature check the push
\* and the count run in one go.  Neither the voter's membership nor an earlier
\* vote of the same voter is looked at.
AddVote(n, v) ==
    /\ v \in cast
    /\ Repeats \/ v \notin received[n]
    /\ received' = [received EXCEPT ![n] = @ \cup {v}]
    /\ LET t == Tally(n, v)
           o == Outcome(n, t)
       IN  /\ pendingVotes' = [pendingVotes EXCEPT ![n][v.hash] = IF o = "open" THEN t ELSE NoVotes]
           /\ decisions' = IF o = "open" THEN decisions
                           ELSE [decisions EXCEPT ![n] =
                                   Append(@, [hash |-> v.hash, approved |-> o = "approve"])]
    /\ UNCHANGED <<validatorSet, currentValidator, cast, edits>>

Author(n) ==
    IF currentValidator[n] + 1 \in DOMAIN validatorSet[n]
    THEN validatorSet[n][currentValidator[n] + 1] ELSE ""

\* Mutant of GetNextValidator: the turn wraps one place too late.
GetNextValidatorLate(n) ==
    /\ currentValidator' = [currentValidator EXCEPT ![n] =
           IF @ = NaN THEN NaN ELSE (@ + 1) % (Len(validatorSet[n]) + 1)]
    /\ UNCHANGED <<validatorSet, pendingVotes, cast, received, decisions, edits>>

\* getNextValidator: the author is read before the turn moves on; x % 0 is NaN.
GetNextValidator(n) ==
    /\ currentValidator' = [currentValidator EXCEPT ![n] =
           IF @ = NaN \/ validatorSet[n] = <<>> THEN NaN ELSE (@ + 1) % Len(validatorSet[n])]
    /\ UNCHANGED <<validatorSet, pendingVotes, cast, received, decisions, edits>>

\* Mutant of AddValidator: the list is not searched first.
AddValidatorAgain(n, v) ==
    /\ edits < MaxEdits
    /\ validatorSet' = [validatorSet EXCEPT ![n] = Append(@, v)]
    /\ edits' = edits + 1
    /\ UNCHANGED <<currentValidator, pendingVotes, cast, received, decisions>>

AddValidator(n, v) ==
    /\ edits < MaxEdits
    /\ v \notin RangeOf(validatorSet[n])
    /\ validatorSet' = [validatorSet EXCEPT ![n] = Append(@, v)]
    /\ edits' = edits + 1
    /\ UNCHANGED <<currentValidator, pendingVotes, cast, received, decisions>>

\* removeValidator: neither the turn nor the open votes are looked at again.
RemoveValidator(n, i) ==
    /\ edits < MaxEdits
    /\ validatorSet' = [validatorSet EXCEPT ![n] =
                            SubSeq(@, 1, i - 1) \o SubSeq(@, i + 1, Len(@))]
    /\ edits' = edits + 1
    /\ UNCHANGED <<currentValidator, pendingVotes, cast, received, decisions>>

Next ==
    \/ \E n \in Voters, h \in Hashes, approve \in BOOLEAN : VoteOnBlock(n, h, approve)
    \/ \E n \in Nodes, v \in Vote : AddVote(n, v)
    \/ \E n \in Nodes : GetNextValidator(n)
    \/ \E n \in Nodes, v \in Voters : AddValidator(n, v)
    \/ \E n \in Nodes : \E i \in DOMAIN validatorSet[n] : RemoveValidator(n, i)

Spec == Init /\ [][Next]_vars

\* Validators asked to vote do, and the channel delivers what was cast.
FairSpec ==
    /\ Spec
    /\ \A n \in Voters, h \in Hashes :
          WF_vars(\E approve \in BOOLEAN : VoteOnBlock(n, h, approve))
    /\ \A n \in Nodes, v \in Vote : WF_vars(AddVote(n, v) /\ v \notin received[n])

-----------------------------------------------------------------------------
(* Properties *)

Decided(n, h, outcome) ==
    \E i \in DOMAIN decisions[n] : decisions[n][i] = [hash |-> h, approved |-> outcome]

\* While nobody edits a validator set, no block is approved by one node and
\* rejected by another: two majorities of the same set share a voter, and a
\* voter's one vote counts once.
Agreement ==
    edits = 0 => \A n, m \in Nodes, h \in Hashes : ~(Decided(n, h, TRUE) /\ Decided(m, h, FALSE))

\* While nobody edits a validator set, consensusReached is emitted at most once
\* per block: votes that arrive after the entry was deleted are too few.
DecideOnce ==
    edits = 0 => \A n \in Nodes : \A i, j \in DOMAIN decisions[n] :
                     decisions[n][i].hash = decisions[n][j].hash => i = j

\* A block that a majority votes on the same way is eventually decided at every
\* node, while the set stays as it is.
MajorityVoted(h, approve) ==
    Cardinality({v \in cast : v.hash = h /\ v.approve = approve}) > Len(Validators) \div 2
MajorityDecides ==
    \A n \in Nodes : \A h \in Hashes : \A approve \in BOOLEAN :
        MajorityVoted(h, approve) ~> (edits > 0 \/ Decided(n, h, approve))

\* Between edits the turn names a validator of the set, so authors rotate over
\* all of them; only a removal can leave it naming nobody.
TurnNamesValidator == edits = 0 /\ Validators # <<>> => \A n \in Nodes : Author(n) # ""

-----------------------------------------------------------------------------
\* The list of the instance that TLC checks.
ThreeValidators == <<"v1", "v2", "v3">>
=============================================================================
