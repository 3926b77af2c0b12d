------------------------------ MODULE MCDLTNode ------------------------------
(***************************************************************************)
(* Finite instances of DLTNode for TLC.                                     *)
(***************************************************************************)
EXTENDS DLTNode

\* The validator lists the runs load, in the order of VALIDATOR_SET.
NoValidators    == <<>>
OneValidator    == <<"node-1">>
ThreeValidators == <<"node-1", "node-2", "node-3">>
FourValidators  == <<"node-1", "node-2", "node-3", "node-4">>
OtherFirst      == <<"node-2", "node-1", "node-3">>

Wire(i, p, id, v, ts) ==
    LET objs == {[tx |-> t, obj |-> 0] : t \in ts}
    IN  [index |-> i, prev |-> p, hash |-> [id |-> id, txs |-> objs],
         validator |-> v, arr |-> 0, txs |-> objs]

\* Two rival blocks on genesis by the first validator, one on top of each by the
\* second, and one by the third: every turn of a round of three.
A1 == Wire(1, GenesisHash, "a1", "node-1", {"t1"})
B1 == Wire(1, GenesisHash, "b1", "node-1", {})
A2 == Wire(2, A1.hash, "a2", "node-2", {})
B2 == Wire(2, B1.hash, "b2", "node-2", {})
A3 == Wire(3, A2.hash, "a3", "node-3", {})

\* Blocks Validator.validateBlock refuses: a hash that covers other contents, an
\* invalid transaction, a timestamp from the future, an unknown author.
Forged  == [A1 EXCEPT !.txs = {}]
BadTx   == Wire(1, GenesisHash, "badTx", "node-1", {"bad"})
Early   == Wire(1, GenesisHash, "early", "node-1", {})
Unknown == Wire(1, GenesisHash, "unknown", "node-9", {})
\* A block out of turn: valid in every other respect.
Skip    == Wire(1, GenesisHash, "skip", "node-2", {})
Future  == {Early}

TurnBlocks == {A1, B1, A2, B2, A3}
AllBlocks  == TurnBlocks \cup {Forged, BadTx, Early, Unknown, Skip}
RivalBlocks == {A1, B1, A2, B2}
\* Blocks for a chain whose only author is node-1.
S2 == Wire(2, A1.hash, "s2", "node-1", {})
SoloBlocks == {A1, B1, S2}
=============================================================================
