------------------------------- MODULE DLTNode -------------------------------
(***************************************************************************)
(* One running node of the chain started by src/index.ts: DLTNode           *)
(* (core/Node.ts) with the ConsensusEngine, Validator and NetworkManager it *)
(* owns.  Everything the node does happens on one JavaScript thread, so the *)
(* interleavings are those of its microtask queue: a handler runs up to its *)
(* first await, the rest of it is appended to `jobs', and the next message  *)
(* is read from a socket only when `jobs' is empty.  The ws library emits   *)
(* every message of one received chunk in the same tick, so up to MaxBatch  *)
(* handlers are started before any of them continues.                       *)
(*                                                                          *)
(* Peers are the environment: nothing under src/ connects to another node   *)
(* or broadcasts a block, so any peer that speaks the wire protocol may     *)
(* send any of WireBlocks and WireTxs, in any order and any number of times.*)
(***************************************************************************)
EXTENDS Integers, Sequences, FiniteSets

CONSTANTS
    Self,            \* config.id of this node
    Role,            \* config.role: "authority", "validator" or "peer"
    InitValidators,  \* config.validatorSet as loaded, a sequence of node ids
    Txs,             \* the transactions clients may send
    ValidTxs,        \* those that Transaction.isValid() accepts
    WireBlocks,      \* the blocks peers may send
    FutureBlocks,    \* those stamped more than a minute ahead of this node
    IdIsPem,         \* crypto.sign accepts config.id as a private key
    MaxBatch,        \* messages the socket delivers in one tick
    MaxObjects,      \* bound: transaction objects ever built from the wire
    MaxAdmin,        \* bound: calls that change the validator set
    MaxRestarts      \* bound: restarts of the process

VARIABLES
    chain,            \* DLTNode.blockchain
    arrays,           \* every array pendingTransactions has ever denoted, in
                      \* order, each as the set of objects it holds; the last
                      \* one is the current pool
    jobs,             \* the microtask queue: continuations of handlers
    validatorSet,     \* config.validatorSet, one array shared by all parts
    currentValidator, \* ConsensusEngine.currentValidator
    consensusRound,   \* ConsensusEngine.consensusRound
    pendingVotes,     \* ConsensusEngine.pendingVotes: voter -> block hash
    objects,          \* number of Transaction objects built so far
    responses,        \* answers POST /transactions has given
    admin,            \* number of validator-set changes so far
    restarts          \* number of restarts so far

vars == <<chain, arrays, jobs, validatorSet, currentValidator, consensusRound,
          pendingVotes, objects, responses, admin, restarts>>
consensusVars == <<currentValidator, consensusRound, pendingVotes>>
boundVars == <<admin, restarts>>

-----------------------------------------------------------------------------
(* Data *)

\* A Transaction object: two objects parsed from the same wire transaction are
\* different objects, and Array.includes tells them apart.
TxObj == [tx : Txs, obj : 0 .. MaxObjects]

\* A hash stands for what was hashed; id names the header, txs the contents.
HashIds == {"", "0", "genesis", "own"} \cup {b.hash.id : b \in WireBlocks}
                                      \cup {b.prev.id : b \in WireBlocks}
Hash == [id : HashIds, txs : SUBSET TxObj]
GenesisHash == [id |-> "genesis", txs |-> {}]
NoHash == [id |-> "", txs |-> {}]

RangeOf(s) == {s[i] : i \in DOMAIN s}

\* Every node id the configuration and the peers can name.
NodeIds == {"", Self} \cup RangeOf(InitValidators) \cup {b.validator : b \in WireBlocks}

\* arr = 0 : the block owns its transactions (txs).
\* arr > 0 : its transactions field is the very array arrays[arr].
Block == [index : Nat, prev : Hash, hash : Hash, validator : NodeIds,
          arr : Nat, txs : SUBSET TxObj]

Genesis == [index |-> 0, prev |-> [id |-> "0", txs |-> {}],
            hash |-> GenesisHash, validator |-> "", arr |-> 0, txs |-> {}]

Contents(b) == IF b.arr = 0 THEN b.txs ELSE arrays[b.arr]

\* block.hash = block.calculateHash(), evaluated on the contents of now
ValidHash(b) == b.hash.txs = Contents(b)

\* What the configuration and the wire can hold: a block parsed from a message
\* owns its transactions, and those are objects of their own (number 0).
ASSUME ConfigAssumption ==
    /\ Role \in {"authority", "validator", "peer"}
    /\ InitValidators \in Seq(NodeIds)
    /\ ValidTxs \subseteq Txs
    /\ IdIsPem \in BOOLEAN

ASSUME WireAssumption ==
    \A b \in WireBlocks : /\ b \in Block
                          /\ b.arr = 0
                          /\ \A o \in b.txs : o.obj = 0

ASSUME BoundAssumption ==
    /\ MaxBatch \in Nat /\ MaxObjects \in Nat
    /\ MaxAdmin \in Nat /\ MaxRestarts \in Nat

NaN == -1                \* 0 % 0; no comparison with it holds
Undefined == "undefined" \* an array read outside its bounds

Pool == arrays[Len(arrays)]
Tip == chain[Len(chain)]

-----------------------------------------------------------------------------
(* ConsensusEngine and Validator helpers *)

CanParticipate == Role \in {"validator", "authority"}

CurrentValidator ==
    IF validatorSet = <<>> THEN Self
    ELSE IF currentValidator + 1 \in DOMAIN validatorSet
         THEN validatorSet[currentValidator + 1]
         ELSE Undefined

NextIndex(i) ==
    IF i = NaN \/ validatorSet = <<>> THEN NaN ELSE (i + 1) % Len(validatorSet)

\* Math.ceil(validatorSet.length * 0.66)
RequiredVotes == (66 * Len(validatorSet) + 99) \div 100

\* Mutant of CurrentVotes: this node's own vote is not counted.
CurrentVotesOthersOnly == Cardinality(DOMAIN pendingVotes)

\* this.pendingVotes.size + 1
CurrentVotes == Cardinality(DOMAIN pendingVotes) + 1

\* Mutant of ValidBlock: previousHash is not compared.
ValidBlockNoPrev(b, tip) ==
    /\ b.index = tip.index + 1
    /\ ValidHash(b)
    /\ \A o \in Contents(b) : o.tx \in ValidTxs
    /\ b \notin FutureBlocks
    /\ b.validator \in RangeOf(validatorSet)

\* Validator.validateBlock, on what the block contains now.
ValidBlock(b, tip) ==
    /\ b.index = tip.index + 1
    /\ b.prev = tip.hash
    /\ ValidHash(b)
    /\ \A o \in Contents(b) : o.tx \in ValidTxs
    /\ b \notin FutureBlocks
    /\ b.validator \in RangeOf(validatorSet)

-----------------------------------------------------------------------------
(* Continuations *)

TxChecked(o)     == [kind |-> "txChecked", o |-> o, ok |-> o.tx \in ValidTxs]
BlockChecked(b)  == [kind |-> "blockChecked", b |-> b, ok |-> ValidBlock(b, Tip)]
BlockCreated(b)  == [kind |-> "blockCreated", b |-> b]
BlockSigned(b)   == [kind |-> "blockSigned", b |-> b]
\* CryptoUtils.signTransaction spreads the transaction into a plain object:
\* the result has the fields of a Transaction and none of its methods.
PostSigned(t)    == [kind |-> "postSigned", tx |-> t]

Job == [kind : {"txChecked"}, o : TxObj, ok : BOOLEAN]
       \cup [kind : {"blockChecked"}, b : Block, ok : BOOLEAN]
       \cup [kind : {"blockCreated", "blockSigned"}, b : Block]
       \cup [kind : {"postSigned"}, tx : Txs]

TypeOK ==
    /\ chain \in Seq(Block) /\ chain # <<>>
    /\ arrays \in Seq(SUBSET TxObj) /\ arrays # <<>>
    /\ jobs \in Seq(Job)
    /\ validatorSet \in Seq(NodeIds)
    /\ currentValidator \in Nat \cup {NaN}
    /\ consensusRound \in Nat
    /\ DOMAIN pendingVotes \subseteq {Self}
    /\ \A v \in DOMAIN pendingVotes : pendingVotes[v] \in Hash
    /\ objects \in 0 .. MaxObjects
    /\ responses \in SUBSET [tx : Txs, status : {201, 400, 500}]
    /\ admin \in 0 .. MaxAdmin
    /\ restarts \in 0 .. MaxRestarts

Init ==
    /\ chain = <<Genesis>>
    /\ arrays = <<{}>>
    /\ jobs = <<>>
    /\ validatorSet = InitValidators
    /\ currentValidator = 0
    /\ consensusRound = 0
    /\ pendingVotes = <<>>
    /\ objects = 0
    /\ responses = {}
    /\ admin = 0
    /\ restarts = 0

-----------------------------------------------------------------------------
(* Macrotasks: they run only when no continuation is queued *)

\* NetworkManager.handleMessage for each message of one chunk, then the handler
\* of the event it emits, up to its first await.  Parsing a transaction builds a
\* new object.
Handler(m, n) ==
    IF m.type = "block" THEN BlockChecked(m.block)
                        ELSE TxChecked([tx |-> m.tx, obj |-> n])

\* Object numbers a batch uses up: none when it carries no transaction.
Fresh(batch) == IF \A i \in DOMAIN batch : batch[i].type = "block" THEN 0 ELSE Len(batch)

Deliver(batch) ==
    /\ jobs = <<>>
    /\ objects + Fresh(batch) <= MaxObjects
    /\ objects' = objects + Fresh(batch)
    /\ jobs' = [i \in DOMAIN batch |-> Handler(batch[i], objects + i)]
    /\ UNCHANGED <<chain, arrays, validatorSet, consensusVars, responses, boundVars>>

\* POST /transactions: the handler rejects missing fields with 400, otherwise it
\* calls DLTNode.submitTransaction, which awaits CryptoUtils.signTransaction.
PostTransaction(t, wellFormed) ==
    /\ jobs = <<>>
    /\ IF wellFormed
       THEN jobs' = <<PostSigned(t)>> /\ UNCHANGED responses
       ELSE responses' = responses \cup {[tx |-> t, status |-> 400]} /\ UNCHANGED jobs
    /\ UNCHANGED <<chain, arrays, validatorSet, consensusVars, objects, boundVars>>

\* ConsensusEngine.addValidator and Validator.addToValidatorSet do the same.
AddValidator(v) ==
    /\ jobs = <<>> /\ admin < MaxAdmin
    /\ Role = "authority"
    /\ v \notin RangeOf(validatorSet)
    /\ validatorSet' = Append(validatorSet, v)
    /\ admin' = admin + 1
    /\ UNCHANGED <<chain, arrays, jobs, consensusVars, objects, responses, restarts>>

Splice(s, i) == SubSeq(s, 1, i - 1) \o SubSeq(s, i + 1, Len(s))

\* ConsensusEngine.removeValidator wraps the turn back to 0 when it falls off
\* the end; `a >= b' is false when a is NaN.
RemoveValidator(i) ==
    /\ jobs = <<>> /\ admin < MaxAdmin
    /\ Role = "authority"
    /\ validatorSet' = Splice(validatorSet, i)
    /\ currentValidator' = IF currentValidator >= Len(validatorSet) - 1
                           THEN 0 ELSE currentValidator
    /\ admin' = admin + 1
    /\ UNCHANGED <<chain, arrays, jobs, consensusRound, pendingVotes, objects,
                   responses, restarts>>

\* Validator.removeFromValidatorSet splices the same array and nothing else.
RemoveFromValidatorSet(i) ==
    /\ jobs = <<>> /\ admin < MaxAdmin
    /\ Role = "authority"
    /\ validatorSet' = Splice(validatorSet, i)
    /\ admin' = admin + 1
    /\ UNCHANGED <<chain, arrays, jobs, consensusVars, objects, responses, restarts>>

\* SIGTERM or a crash, then a new process: every field is in memory only.
Restart ==
    /\ restarts < MaxRestarts
    /\ restarts' = restarts + 1
    /\ chain' = <<Genesis>>
    /\ arrays' = <<{}>>
    /\ jobs' = <<>>
    /\ validatorSet' = InitValidators
    /\ currentValidator' = 0
    /\ consensusRound' = 0
    /\ pendingVotes' = <<>>
    /\ UNCHANGED <<objects, responses, admin>>

-----------------------------------------------------------------------------
(* Microtasks: the head of the queue runs *)

\* Mutants of AddBlockToChain: the pool is kept whole, it is filtered in place
\* (the array own blocks share), it is emptied.
AddBlockKeepPool(b) ==
    /\ chain' = Append(chain, b)
    /\ arrays' = Append(arrays, Pool)

AddBlockInPlace(b) ==
    /\ chain' = Append(chain, b)
    /\ arrays' = [arrays EXCEPT ![Len(arrays)] = Pool \ Contents(b)]

AddBlockEmptyPool(b) ==
    /\ chain' = Append(chain, b)
    /\ arrays' = Append(arrays, {})

\* DLTNode.addBlockToChain: push the block, replace the pool by a filtered copy.
AddBlockToChain(b) ==
    /\ chain' = Append(chain, b)
    /\ arrays' = Append(arrays, Pool \ Contents(b))

\* handleReceivedTransaction after validation, through startConsensus and
\* createBlock: the new block holds the pool array itself, and its hash covers
\* what the array contains now.
RunTxChecked(j) ==
    /\ j.kind = "txChecked"
    /\ IF ~j.ok
       THEN jobs' = Tail(jobs) /\ UNCHANGED <<arrays, consensusRound>>
       ELSE LET pool == Pool \cup {j.o}
                own  == [index |-> 0, prev |-> NoHash,
                         hash |-> [id |-> "own", txs |-> pool],
                         validator |-> Self, arr |-> Len(arrays), txs |-> {}]
            IN  /\ arrays' = [arrays EXCEPT ![Len(arrays)] = pool]
                /\ consensusRound' = consensusRound + (IF CanParticipate THEN 1 ELSE 0)
                /\ jobs' = IF CanParticipate /\ CurrentValidator = Self
                           THEN Append(Tail(jobs), BlockCreated(own))
                           ELSE Tail(jobs)
    /\ UNCHANGED <<chain, validatorSet, currentValidator, pendingVotes, objects,
                   responses, boundVars>>

\* proposeBlock up to the await of CryptoUtils.sign, which throws unless
\* config.id is itself a private key; the throw is caught and ends the round.
RunBlockCreated(j) ==
    /\ j.kind = "blockCreated"
    /\ jobs' = IF IdIsPem THEN Append(Tail(jobs), BlockSigned(j.b)) ELSE Tail(jobs)
    /\ UNCHANGED <<chain, arrays, validatorSet, consensusVars, objects,
                   responses, boundVars>>

\* The rest of proposeBlock: advance the turn, emit consensus:achieved.
RunBlockSigned(j) ==
    /\ j.kind = "blockSigned"
    /\ currentValidator' = NextIndex(currentValidator)
    /\ AddBlockToChain(j.b)
    /\ jobs' = Tail(jobs)
    /\ UNCHANGED <<validatorSet, consensusRound, pendingVotes, objects,
                   responses, boundVars>>

\* Mutant of Accepts: the author of the block need not hold the turn.
AcceptsAnyAuthor(j) == j.kind = "blockChecked" /\ j.ok

\* ConsensusEngine.validateBlock on a block that Validator.validateBlock passed.
Accepts(j) == /\ j.kind = "blockChecked" /\ j.ok
              /\ j.b.validator = CurrentValidator

RunBlockAdopted(j) ==
    /\ Accepts(j)
    /\ CurrentVotes >= RequiredVotes
    /\ pendingVotes' = <<>>
    /\ currentValidator' = NextIndex(currentValidator)
    /\ AddBlockToChain(j.b)
    /\ jobs' = Tail(jobs)
    /\ UNCHANGED <<validatorSet, consensusRound, objects, responses, boundVars>>

\* Mutant of RunBlockVoted: the vote is filed under the author of the block.
RunBlockVotedByAuthor(j) ==
    /\ Accepts(j)
    /\ CurrentVotes < RequiredVotes
    /\ pendingVotes' = [v \in DOMAIN pendingVotes \cup {j.b.validator} |-> j.b.hash]
    /\ jobs' = Tail(jobs)
    /\ UNCHANGED <<chain, arrays, validatorSet, currentValidator, consensusRound,
                   objects, responses, boundVars>>

RunBlockVoted(j) ==
    /\ Accepts(j)
    /\ CurrentVotes < RequiredVotes
    /\ pendingVotes' = [v \in {Self} |-> j.b.hash]
    /\ jobs' = Tail(jobs)
    /\ UNCHANGED <<chain, arrays, validatorSet, currentValidator, consensusRound,
                   objects, responses, boundVars>>

RunBlockRejected(j) ==
    /\ j.kind = "blockChecked"
    /\ ~Accepts(j)
    /\ jobs' = Tail(jobs)
    /\ UNCHANGED <<chain, arrays, validatorSet, consensusVars, objects,
                   responses, boundVars>>

\* submitTransaction after signing: signTransaction has spread the transaction
\* into a plain object, so broadcastTransaction finds no toJSON() to call; the
\* TypeError rejects submitTransaction before the transaction is handled locally
\* and the route answers 500.
RunPostSigned(j) ==
    /\ j.kind = "postSigned"
    /\ jobs' = Tail(jobs)
    /\ responses' = responses \cup {[tx |-> j.tx, status |-> 500]}
    /\ UNCHANGED <<chain, arrays, validatorSet, consensusVars, objects, boundVars>>

RunJob ==
    /\ jobs # <<>>
    /\ LET j == Head(jobs)
       IN  \/ RunTxChecked(j)
           \/ RunBlockCreated(j)
           \/ RunBlockSigned(j)
           \/ RunBlockAdopted(j)
           \/ RunBlockVoted(j)
           \/ RunBlockRejected(j)
           \/ RunPostSigned(j)

-----------------------------------------------------------------------------
Message == [type : {"block"}, block : WireBlocks]
           \cup [type : {"transaction"}, tx : Txs]
Batches == UNION {[1 .. n -> Message] : n \in 1 .. MaxBatch}

Next ==
    \/ RunJob
    \/ \E batch \in Batches : Deliver(batch)
    \/ \E t \in Txs, wellFormed \in BOOLEAN : PostTransaction(t, wellFormed)
    \/ \E v \in {b.validator : b \in WireBlocks} : AddValidator(v)
    \/ \E i \in DOMAIN validatorSet : RemoveValidator(i)
    \/ \E i \in DOMAIN validatorSet : RemoveFromValidatorSet(i)
    \/ Restart

Spec == Init /\ [][Next]_vars

(***************************************************************************)
(* The event loop always runs the next continuation.  Peers that still hold *)
(* a block keep offering it: SF, because a delivery is possible only each   *)
(* time the microtask queue has drained.                                    *)
(***************************************************************************)
FairSpec ==
    /\ Spec
    /\ WF_vars(RunJob)
    /\ \A b \in WireBlocks : SF_vars(Deliver(<<[type |-> "block", block |-> b]>>))

-----------------------------------------------------------------------------
(* Properties *)

\* A block added to the chain extends the one before it: its index is one more
\* and its previousHash is that block's hash (Validator.validateChain).
ChainLinked ==
    \A i \in 2 .. Len(chain) : /\ chain[i].index = chain[i - 1].index + 1
                              /\ chain[i].prev = chain[i - 1].hash

\* Validators take turns: the k-th block after genesis is by the k-th validator,
\* counted cyclically (while nobody edits the validator set).
RoundRobin ==
    \A i \in 2 .. Len(chain) :
        chain[i].validator =
            IF InitValidators = <<>> THEN Self
            ELSE InitValidators[((i - 2) % Len(InitValidators)) + 1]

ChainTxs == UNION {Contents(chain[i]) : i \in DOMAIN chain}

\* A transaction object waits in the pool or is in the chain, never both: what
\* addBlockToChain appends it also filters out of the pool.
PoolNotInChain == Pool \cap ChainTxs = {}

\* The transactions of a block that is in the chain never change, even though
\* the pool went on receiving transactions in the array the block was built on.
ContentsKept ==
    restarts' = restarts =>
        \A i \in DOMAIN chain : i \in DOMAIN chain' /\ Contents(chain[i])' = Contents(chain[i])
ChainContentsFrozen == [][ContentsKept]_vars

\* Without a restart a transaction leaves the pool only into the chain.
PoolLeaves == restarts' = restarts => Pool \ Pool' \subseteq ChainTxs'
PoolLeavesOnlyToChain == [][PoolLeaves]_vars

\* While peers keep offering the next valid blocks, the chain grows.
ChainGrows == <>(Len(chain) >= 3)
=============================================================================
