---------------------------- MODULE DLTNode_proofs ----------------------------
(***************************************************************************)
(* What holds of DLTNode for every configuration, every set of wire blocks  *)
(* and every bound: its types, and that the contents of the blocks of the   *)
(* chain are frozen although own blocks alias the pool's array.             *)
(***************************************************************************)
EXTENDS DLTNode, SequenceTheorems, TLAPS

USE DEF NaN

\* A spliced list of ids is a list of ids.
LEMMA SpliceType ==
    ASSUME NEW s \in Seq(NodeIds), NEW i \in DOMAIN s
    PROVE  Splice(s, i) \in Seq(NodeIds)
<1>1. SubSeq(s, 1, i - 1) \in Seq(NodeIds)
  OBVIOUS
<1>2. SubSeq(s, i + 1, Len(s)) \in Seq(NodeIds)
  OBVIOUS
<1> QED
  BY <1>1, <1>2 DEF Splice

\* The turn index stays an index or NaN, whatever the length of the set.
LEMMA NextIndexType ==
    ASSUME validatorSet \in Seq(NodeIds), NEW i \in Nat \cup {NaN}
    PROVE  NextIndex(i) \in Nat \cup {NaN}
<1>1. CASE i = NaN \/ validatorSet = <<>>
  BY <1>1 DEF NextIndex
<1>2. CASE ~(i = NaN \/ validatorSet = <<>>)
  <2>1. Len(validatorSet) \in Nat \ {0}
    BY <1>2
  <2> QED
    BY <1>2, <2>1 DEF NextIndex
<1> QED
  BY <1>1, <1>2

\* The pool is a set of transaction objects.
LEMMA PoolType ==
    ASSUME TypeOK
    PROVE  /\ Len(arrays) \in Nat \ {0}
           /\ Len(arrays) \in DOMAIN arrays
           /\ Pool \subseteq TxObj
BY DEF TypeOK, Pool

\* A queue keeps its type when its head is taken, or when one more is added.
LEMMA QueueType ==
    ASSUME TypeOK, jobs # <<>>
    PROVE  /\ Head(jobs) \in Job
           /\ Tail(jobs) \in Seq(Job)
           /\ \A j \in Job : Append(Tail(jobs), j) \in Seq(Job)
BY DEF TypeOK

LEMMA HashType ==
    ASSUME NEW name \in HashIds, NEW txs \in SUBSET TxObj
    PROVE  [id |-> name, txs |-> txs] \in Hash
BY DEF Hash

LEMMA GenesisType == Genesis \in Block
<1>1. "0" \in HashIds /\ "genesis" \in HashIds
  BY DEF HashIds
<1>2. {} \in SUBSET TxObj
  OBVIOUS
<1>3. [id |-> "0", txs |-> {}] \in Hash /\ GenesisHash \in Hash
  BY <1>1, <1>2, HashType DEF GenesisHash
<1>4. "" \in NodeIds
  BY DEF NodeIds
<1> QED
  BY <1>2, <1>3, <1>4 DEF Genesis, Block

LEMMA InitType == Init => TypeOK
<1> SUFFICES ASSUME Init PROVE TypeOK
  OBVIOUS
<1>2. chain \in Seq(Block) /\ chain # <<>>
  BY GenesisType DEF Init
<1>3. arrays \in Seq(SUBSET TxObj) /\ arrays # <<>>
  BY DEF Init
<1>4. DOMAIN pendingVotes = {}
  BY DEF Init
<1> QED
  BY <1>2, <1>3, <1>4, ConfigAssumption, BoundAssumption DEF Init, TypeOK

\* Handlers started by the messages of one batch are well-typed continuations.
LEMMA DeliverType ==
    ASSUME TypeOK, NEW batch \in Batches, Deliver(batch)
    PROVE  TypeOK'
<1>1. PICK n \in 1 .. MaxBatch : batch \in [1 .. n -> Message]
  BY DEF Batches
<1>2. n \in Nat /\ DOMAIN batch = 1 .. n /\ Len(batch) = n
  BY <1>1, BoundAssumption
<1>3. Fresh(batch) \in Nat
  BY <1>2 DEF Fresh
<1>4. objects' \in 0 .. MaxObjects
  BY <1>3, BoundAssumption DEF Deliver, TypeOK
<1>5. \A i \in 1 .. n : Handler(batch[i], objects + i) \in Job
  <2> SUFFICES ASSUME NEW i \in 1 .. n
               PROVE  Handler(batch[i], objects + i) \in Job
    OBVIOUS
  <2>1. batch[i] \in Message
    BY <1>1
  <2>2. CASE batch[i].type = "block"
    <3>1. batch[i].block \in Block
      BY <2>1, <2>2, WireAssumption DEF Message
    <3> QED
      BY <2>2, <3>1 DEF Handler, BlockChecked, Job, ValidBlock
  <2>3. CASE batch[i].type # "block"
    <3>1. batch[i].tx \in Txs
      BY <2>1, <2>3 DEF Message
    <3>2. Fresh(batch) = n
      BY <1>2, <2>3 DEF Fresh
    <3>3. objects + i \in 0 .. MaxObjects
      BY <1>2, <3>2, BoundAssumption DEF Deliver, TypeOK
    <3>4. [tx |-> batch[i].tx, obj |-> objects + i] \in TxObj
      BY <3>1, <3>3 DEF TxObj
    <3> QED
      BY <2>3, <3>4 DEF Handler, TxChecked, Job
  <2> QED
    BY <2>2, <2>3
<1>6. jobs' \in Seq(Job)
  BY <1>2, <1>5 DEF Deliver
<1> QED
  BY <1>4, <1>6 DEF Deliver, TypeOK, consensusVars, boundVars

LEMMA PostType ==
    ASSUME TypeOK, NEW t \in Txs, NEW wellFormed \in BOOLEAN,
           PostTransaction(t, wellFormed)
    PROVE  TypeOK'
<1>1. PostSigned(t) \in Job
  BY DEF PostSigned, Job
<1>2. jobs' \in Seq(Job)
  <2>1. CASE wellFormed
    BY <1>1, <2>1 DEF PostTransaction
  <2>2. CASE ~wellFormed
    BY <2>2 DEF PostTransaction, TypeOK
  <2> QED
    BY <2>1, <2>2
<1>3. responses' \in SUBSET [tx : Txs, status : {201, 400, 500}]
  BY DEF PostTransaction, TypeOK
<1> QED
  BY <1>2, <1>3 DEF PostTransaction, TypeOK, consensusVars, boundVars

\* Edits of the validator set, and a restart.
LEMMA AdminType ==
    ASSUME TypeOK,
           \/ \E v \in {b.validator : b \in WireBlocks} : AddValidator(v)
           \/ \E i \in DOMAIN validatorSet : RemoveValidator(i)
           \/ \E i \in DOMAIN validatorSet : RemoveFromValidatorSet(i)
           \/ Restart
    PROVE  TypeOK'
<1>1. ASSUME NEW v \in {b.validator : b \in WireBlocks}, AddValidator(v)
      PROVE  TypeOK'
  <2>1. v \in NodeIds
    BY DEF NodeIds
  <2>2. validatorSet' \in Seq(NodeIds)
    BY <1>1, <2>1 DEF AddValidator, TypeOK
  <2> QED
    BY <1>1, <2>2, BoundAssumption DEF AddValidator, TypeOK, consensusVars
<1>2. ASSUME NEW i \in DOMAIN validatorSet, RemoveValidator(i)
      PROVE  TypeOK'
  <2>1. validatorSet' \in Seq(NodeIds)
    BY <1>2, SpliceType DEF RemoveValidator, TypeOK
  <2>2. currentValidator' \in Nat \cup {NaN}
    BY <1>2 DEF RemoveValidator, TypeOK
  <2> QED
    BY <1>2, <2>1, <2>2, BoundAssumption DEF RemoveValidator, TypeOK
<1>3. ASSUME NEW i \in DOMAIN validatorSet, RemoveFromValidatorSet(i)
      PROVE  TypeOK'
  <2>1. validatorSet' \in Seq(NodeIds)
    BY <1>3, SpliceType DEF RemoveFromValidatorSet, TypeOK
  <2> QED
    BY <1>3, <2>1, BoundAssumption DEF RemoveFromValidatorSet, TypeOK, consensusVars
<1>4. ASSUME Restart
      PROVE  TypeOK'
  <2>2. chain' \in Seq(Block) /\ chain' # <<>>
    BY <1>4, GenesisType DEF Restart
  <2>3. arrays' \in Seq(SUBSET TxObj) /\ arrays' # <<>>
    BY <1>4 DEF Restart
  <2>4. DOMAIN pendingVotes' = {}
    BY <1>4 DEF Restart
  <2>5. restarts' \in 0 .. MaxRestarts
    BY <1>4, BoundAssumption DEF Restart, TypeOK
  <2> QED
    BY <1>4, <2>2, <2>3, <2>4, <2>5, ConfigAssumption DEF Restart, TypeOK
<1> QED
  BY <1>1, <1>2, <1>3, <1>4

\* Pushing a block and replacing the pool keep both sequences well typed.
LEMMA AddBlockType ==
    ASSUME TypeOK, NEW b \in Block, AddBlockToChain(b)
    PROVE  /\ chain' \in Seq(Block) /\ chain' # <<>>
           /\ arrays' \in Seq(SUBSET TxObj) /\ arrays' # <<>>
<1>1. Pool \ Contents(b) \in SUBSET TxObj
  BY PoolType
<1>2. chain' \in Seq(Block) /\ chain' # <<>>
  BY DEF AddBlockToChain, TypeOK
<1>3. arrays' \in Seq(SUBSET TxObj)
  BY <1>1 DEF AddBlockToChain, TypeOK
<1>4. arrays' # <<>>
  <2>1. arrays \in Seq(SUBSET TxObj)
    BY DEF TypeOK
  <2> QED
    BY <1>1, <2>1 DEF AddBlockToChain
<1> QED
  BY <1>2, <1>3, <1>4

LEMMA TxCheckedType ==
    ASSUME TypeOK, jobs # <<>>, RunTxChecked(Head(jobs))
    PROVE  TypeOK'
<1> DEFINE j == Head(jobs)
           pool == Pool \cup {j.o}
           own == [index |-> 0, prev |-> NoHash,
                   hash |-> [id |-> "own", txs |-> pool],
                   validator |-> Self, arr |-> Len(arrays), txs |-> {}]
<1>1. j \in Job /\ Tail(jobs) \in Seq(Job)
  BY QueueType
<1>2. j.o \in TxObj
  BY <1>1 DEF RunTxChecked, Job
<1>3. pool \in SUBSET TxObj
  BY <1>2, PoolType
<1>4. own \in Block
  <2> HIDE DEF pool
  <2>1. "own" \in HashIds /\ "" \in HashIds /\ Self \in NodeIds
    BY DEF HashIds, NodeIds
  <2>0. {} \in SUBSET TxObj
    OBVIOUS
  <2>2. [id |-> "own", txs |-> pool] \in Hash /\ NoHash \in Hash
    BY <1>3, <2>0, <2>1, HashType DEF NoHash
  <2> QED
    BY <2>0, <2>1, <2>2, PoolType DEF Block
<1>5. BlockCreated(own) \in Job
  BY <1>4 DEF BlockCreated, Job
<1>6. jobs' \in Seq(Job)
  <2>1. jobs' = Tail(jobs) \/ jobs' = Append(Tail(jobs), BlockCreated(own))
    BY DEF RunTxChecked
  <2> QED
    BY <1>1, <1>5, <2>1
<1>7. arrays' \in Seq(SUBSET TxObj) /\ arrays' # <<>>
  <2> HIDE DEF pool
  <2>1. arrays' = arrays \/ arrays' = [arrays EXCEPT ![Len(arrays)] = pool]
    BY DEF RunTxChecked, pool
  <2>2. arrays \in Seq(SUBSET TxObj) /\ arrays # <<>>
    BY DEF TypeOK
  <2>3. CASE arrays' = [arrays EXCEPT ![Len(arrays)] = pool]
    <3>1. arrays' \in Seq(SUBSET TxObj)
      BY <1>3, <2>2, <2>3
    <3>2. Len(arrays') = Len(arrays) /\ Len(arrays) # 0
      BY <2>2, <2>3
    <3> QED
      BY <3>1, <3>2
  <2> QED
    BY <2>1, <2>2, <2>3
<1>8. consensusRound' \in Nat
  BY DEF RunTxChecked, TypeOK
<1> QED
  BY <1>6, <1>7, <1>8 DEF RunTxChecked, TypeOK, boundVars

LEMMA JobType ==
    ASSUME TypeOK, RunJob
    PROVE  TypeOK'
<1> DEFINE j == Head(jobs)
<1>0. jobs # <<>> /\ j \in Job /\ Tail(jobs) \in Seq(Job)
  BY QueueType DEF RunJob
<1>1. CASE RunTxChecked(j)
  BY <1>0, <1>1, TxCheckedType
<1>2. CASE RunBlockCreated(j)
  <2>1. j.b \in Block
    BY <1>0, <1>2 DEF RunBlockCreated, Job
  <2>2. BlockSigned(j.b) \in Job
    BY <2>1 DEF BlockSigned, Job
  <2>3. jobs' \in Seq(Job)
    BY <1>0, <1>2, <2>2 DEF RunBlockCreated
  <2> QED
    BY <1>2, <2>3 DEF RunBlockCreated, TypeOK, consensusVars, boundVars
<1>3. CASE RunBlockSigned(j)
  <2>1. j.b \in Block
    BY <1>0, <1>3 DEF RunBlockSigned, Job
  <2>2. AddBlockToChain(j.b)
    BY <1>3 DEF RunBlockSigned
  <2>3. currentValidator' \in Nat \cup {NaN}
    BY <1>3, NextIndexType DEF RunBlockSigned, TypeOK
  <2> QED
    BY <1>0, <1>3, <2>1, <2>2, <2>3, AddBlockType DEF RunBlockSigned, TypeOK, boundVars
<1>4. CASE RunBlockAdopted(j)
  <2>1. j.b \in Block
    BY <1>0, <1>4 DEF RunBlockAdopted, Accepts, Job
  <2>2. AddBlockToChain(j.b)
    BY <1>4 DEF RunBlockAdopted
  <2>3. currentValidator' \in Nat \cup {NaN}
    BY <1>4, NextIndexType DEF RunBlockAdopted, TypeOK
  <2> QED
    BY <1>0, <1>4, <2>1, <2>2, <2>3, AddBlockType DEF RunBlockAdopted, TypeOK, boundVars
<1>5. CASE RunBlockVoted(j)
  <2>1. j.b.hash \in Hash
    BY <1>0, <1>5 DEF RunBlockVoted, Accepts, Job, Block
  <2> QED
    BY <1>0, <1>5, <2>1 DEF RunBlockVoted, TypeOK, boundVars
<1>6. CASE RunBlockRejected(j)
  BY <1>0, <1>6 DEF RunBlockRejected, TypeOK, consensusVars, boundVars
<1>7. CASE RunPostSigned(j)
  <2>1. j.tx \in Txs
    BY <1>0, <1>7 DEF RunPostSigned, Job
  <2> QED
    BY <1>0, <1>7, <2>1 DEF RunPostSigned, TypeOK, consensusVars, boundVars
<1> QED
  BY <1>1, <1>2, <1>3, <1>4, <1>5, <1>6, <1>7 DEF RunJob

LEMMA NextType == TypeOK /\ [Next]_vars => TypeOK'
<1> SUFFICES ASSUME TypeOK, [Next]_vars PROVE TypeOK'
  OBVIOUS
<1>1. CASE Next
  BY <1>1, JobType, DeliverType, PostType, AdminType DEF Next
<1>2. CASE UNCHANGED vars
  BY <1>2 DEF vars, TypeOK
<1> QED
  BY <1>1, <1>2

\* Every field of the node keeps its type: the votes of a node are only its own,
\* the turn is an index or NaN, every queued continuation is one the code makes.
THEOREM TypeCorrect == Spec => []TypeOK
BY InitType, NextType, PTL DEF Spec

-----------------------------------------------------------------------------
(* Aliasing of the pool.  An own block in the chain holds an array that is no *)
(* longer the pool's; a block still travelling through the queue may hold the *)
(* current one.  Objects in the queue, the pool and wire blocks are distinct. *)

HasBlock(j) == j.kind \in {"blockChecked", "blockCreated", "blockSigned"}

\* Blocks denote arrays that exist; those of the chain, arrays the pool has left.
ArrInv ==
    /\ \A i \in DOMAIN chain : chain[i].arr < Len(arrays)
    /\ \A i \in DOMAIN jobs : HasBlock(jobs[i]) => jobs[i].b.arr <= Len(arrays)

\* Objects parsed from messages are numbered from 1 and used once; number 0 is
\* for the transactions blocks bring along.
FreshArrays == \A k \in DOMAIN arrays : \A o \in arrays[k] : o.obj \in 1 .. objects
FreshChain  == \A i \in DOMAIN chain : \A o \in chain[i].txs : o.obj = 0
FreshBlocks == \A i \in DOMAIN jobs : HasBlock(jobs[i]) => \A o \in jobs[i].b.txs : o.obj = 0
Carries(i)  == jobs[i].kind = "txChecked"
FreshTxs    == \A i \in DOMAIN jobs : Carries(i) =>
                  /\ jobs[i].o.obj \in 1 .. objects
                  /\ \A k \in DOMAIN arrays : jobs[i].o \notin arrays[k]
                  /\ \A k \in DOMAIN jobs : Carries(k) /\ k # i => jobs[k].o # jobs[i].o

FreshInv == FreshArrays /\ FreshChain /\ FreshBlocks /\ FreshTxs

AliasInv == TypeOK /\ ArrInv
PoolInv  == FreshInv /\ PoolNotInChain

\* A queue whose head has run holds what it held, one place earlier.
LEMMA TailIndex ==
    ASSUME TypeOK, jobs # <<>>, NEW i \in DOMAIN Tail(jobs)
    PROVE  i + 1 \in DOMAIN jobs /\ Tail(jobs)[i] = jobs[i + 1]
BY DEF TypeOK

\* What one continuation does to the chain and to the arrays: it leaves both
\* alone, or pushes into the current array, or adds a block of the queue.
LEMMA JobShape ==
    ASSUME AliasInv, RunJob
    PROVE  \/ chain' = chain /\ arrays' = arrays
           \/ /\ chain' = chain
              /\ Head(jobs).kind = "txChecked"
              /\ arrays' = [arrays EXCEPT ![Len(arrays)] = Pool \cup {Head(jobs).o}]
           \/ /\ HasBlock(Head(jobs))
              /\ Head(jobs).b \in Block
              /\ Head(jobs).b.arr <= Len(arrays)
              /\ AddBlockToChain(Head(jobs).b)
<1> DEFINE j == Head(jobs)
<1>0. jobs # <<>> /\ j \in Job
  BY QueueType DEF RunJob, AliasInv
<1>1. HasBlock(j) => j.b \in Block /\ j.b.arr <= Len(arrays)
  <2>1. 1 \in DOMAIN jobs /\ j = jobs[1]
    BY <1>0 DEF AliasInv, TypeOK
  <2>2. HasBlock(j) => j.b \in Block
    BY <1>0 DEF HasBlock, Job
  <2> QED
    BY <2>1, <2>2 DEF AliasInv, ArrInv
<1>2. CASE RunTxChecked(j)
  BY <1>2 DEF RunTxChecked
<1>3. CASE RunBlockSigned(j)
  BY <1>1, <1>3 DEF RunBlockSigned, HasBlock
<1>4. CASE RunBlockAdopted(j)
  BY <1>1, <1>4 DEF RunBlockAdopted, Accepts, HasBlock
<1>5. CASE RunBlockCreated(j) \/ RunBlockVoted(j) \/ RunBlockRejected(j) \/ RunPostSigned(j)
  BY <1>5 DEF RunBlockCreated, RunBlockVoted, RunBlockRejected, RunPostSigned
<1> QED
  BY <1>2, <1>3, <1>4, <1>5 DEF RunJob

\* No other step without a restart touches the chain or the arrays.
LEMMA OtherShape ==
    ASSUME [Next]_vars, ~RunJob, restarts' = restarts, TypeOK
    PROVE  chain' = chain /\ arrays' = arrays
<1>1. CASE \E batch \in Batches : Deliver(batch)
  BY <1>1 DEF Deliver
<1>2. CASE \E t \in Txs, wellFormed \in BOOLEAN : PostTransaction(t, wellFormed)
  BY <1>2 DEF PostTransaction
<1>3. CASE \E v \in {b.validator : b \in WireBlocks} : AddValidator(v)
  BY <1>3 DEF AddValidator
<1>4. CASE \E i \in DOMAIN validatorSet : RemoveValidator(i) \/ RemoveFromValidatorSet(i)
  BY <1>4 DEF RemoveValidator, RemoveFromValidatorSet
<1>5. CASE Restart
  BY <1>5, BoundAssumption DEF Restart, TypeOK
<1>6. CASE UNCHANGED vars
  BY <1>6 DEF vars
<1> QED
  BY <1>1, <1>2, <1>3, <1>4, <1>5, <1>6 DEF Next

\* The three shapes of a step, seen from the arrays: those the pool has left
\* never change again.
LEMMA OldArraysFixed ==
    ASSUME AliasInv, [Next]_vars, restarts' = restarts
    PROVE  /\ Len(arrays') >= Len(arrays)
           /\ \A k \in 1 .. Len(arrays) - 1 : arrays'[k] = arrays[k]
<1>0. arrays \in Seq(SUBSET TxObj) /\ Len(arrays) \in Nat \ {0}
  BY PoolType DEF AliasInv, TypeOK
<1>1. CASE arrays' = arrays
  BY <1>0, <1>1
<1>2. CASE arrays' = [arrays EXCEPT ![Len(arrays)] = Pool \cup {Head(jobs).o}]
  BY <1>0, <1>2
<1>3. ASSUME NEW b, AddBlockToChain(b)
      PROVE  /\ Len(arrays') >= Len(arrays)
             /\ \A k \in 1 .. Len(arrays) - 1 : arrays'[k] = arrays[k]
  BY <1>0, <1>3 DEF AddBlockToChain
<1> QED
  BY <1>1, <1>2, <1>3, JobShape, OtherShape DEF AliasInv

\* Chain and arrays as Init and Restart leave them.
LEMMA FreshStart ==
    ASSUME NEW ch, NEW ar, ch = <<Genesis>>, ar = <<{}>>
    PROVE  /\ Len(ar) = 1 /\ DOMAIN ar = {1} /\ ar[1] = {}
           /\ DOMAIN ch = {1} /\ ch[1].arr = 0 /\ ch[1].txs = {}
<1>1. Len(ar) = 1 /\ DOMAIN ar = {1} /\ ar[1] = {}
  OBVIOUS
<1>2. DOMAIN ch = {1} /\ ch[1] = Genesis
  OBVIOUS
<1>3. Genesis.arr = 0 /\ Genesis.txs = {}
  BY DEF Genesis
<1> QED
  BY <1>1, <1>2, <1>3

LEMMA InitAlias == Init => AliasInv
<1> SUFFICES ASSUME Init PROVE AliasInv
  OBVIOUS
<1>1. TypeOK
  BY InitType
<1>2. ArrInv
  <2>1. \A i \in DOMAIN chain : chain[i].arr < Len(arrays)
    BY FreshStart DEF Init
  <2>2. DOMAIN jobs = {}
    BY DEF Init
  <2> QED
    BY <2>1, <2>2 DEF ArrInv
<1> QED
  BY <1>1, <1>2 DEF AliasInv

\* What is in the queue after a continuation has run was there, one place later,
\* or is a continuation for the new own block or for the block at the head.
QueuedOwn(q) == /\ q.kind \in {"blockCreated", "blockSigned"}
                /\ \/ q.b.arr = Len(arrays) /\ q.b.txs = {}
                   \/ HasBlock(Head(jobs)) /\ q.b = Head(jobs).b

LEMMA JobsAfter ==
    ASSUME AliasInv, RunJob, NEW i \in DOMAIN jobs'
    PROVE  \/ i + 1 \in DOMAIN jobs /\ jobs'[i] = jobs[i + 1]
           \/ QueuedOwn(jobs'[i])
<1> DEFINE j == Head(jobs)
<1>0. jobs # <<>> /\ Tail(jobs) \in Seq(Job)
  BY QueueType DEF RunJob, AliasInv
<1>1. CASE jobs' = Tail(jobs)
  BY <1>0, <1>1, TailIndex DEF AliasInv
<1>2. ASSUME NEW n, jobs' = Append(Tail(jobs), n), QueuedOwn(n)
      PROVE  \/ i + 1 \in DOMAIN jobs /\ jobs'[i] = jobs[i + 1]
             \/ QueuedOwn(jobs'[i])
  <2>1. CASE i \in DOMAIN Tail(jobs)
    BY <1>0, <1>2, <2>1, TailIndex DEF AliasInv
  <2>2. CASE i \notin DOMAIN Tail(jobs)
    <3>1. jobs'[i] = n
      BY <1>0, <1>2, <2>2
    <3> QED
      BY <1>2, <3>1
  <2> QED
    BY <2>1, <2>2
<1>3. CASE RunTxChecked(j)
  <2> DEFINE own == [index |-> 0, prev |-> NoHash,
                     hash |-> [id |-> "own", txs |-> Pool \cup {j.o}],
                     validator |-> Self, arr |-> Len(arrays), txs |-> {}]
  <2>1. jobs' = Tail(jobs) \/ jobs' = Append(Tail(jobs), BlockCreated(own))
    BY <1>3 DEF RunTxChecked
  <2>2. QueuedOwn(BlockCreated(own))
    BY DEF BlockCreated, QueuedOwn
  <2> QED
    BY <1>1, <1>2, <2>1, <2>2
<1>4. CASE RunBlockCreated(j)
  <2>1. jobs' = Tail(jobs) \/ jobs' = Append(Tail(jobs), BlockSigned(j.b))
    BY <1>4 DEF RunBlockCreated
  <2>2. QueuedOwn(BlockSigned(j.b))
    BY <1>4 DEF RunBlockCreated, HasBlock, BlockSigned, QueuedOwn
  <2> QED
    BY <1>1, <1>2, <2>1, <2>2
<1>5. CASE \/ RunBlockSigned(j) \/ RunBlockAdopted(j) \/ RunBlockVoted(j)
           \/ RunBlockRejected(j) \/ RunPostSigned(j)
  BY <1>1, <1>5 DEF RunBlockSigned, RunBlockAdopted, RunBlockVoted,
                    RunBlockRejected, RunPostSigned
<1> QED
  BY <1>3, <1>4, <1>5 DEF RunJob

LEMMA NextAlias == AliasInv /\ [Next]_vars => AliasInv'
<1> SUFFICES ASSUME AliasInv, [Next]_vars PROVE AliasInv'
  OBVIOUS
<1>0. /\ TypeOK /\ TypeOK'
      /\ Len(arrays) \in Nat \ {0} /\ Len(arrays') \in Nat \ {0}
  <2>1. TypeOK /\ TypeOK'
    BY NextType DEF AliasInv
  <2>2. arrays' \in Seq(SUBSET TxObj) /\ arrays' # <<>>
    BY <2>1 DEF TypeOK
  <2> QED
    BY <2>1, <2>2, PoolType
<1>c. \A i \in DOMAIN chain : chain[i].arr \in Nat /\ chain[i].arr < Len(arrays)
  <2>1. \A i \in DOMAIN chain : chain[i] \in Block
    BY <1>0 DEF TypeOK
  <2> QED
    BY <2>1 DEF AliasInv, ArrInv, Block
<1>1. CASE Restart
  <2>1. \A i \in DOMAIN chain' : chain'[i].arr < Len(arrays')
    BY <1>1, FreshStart DEF Restart
  <2>2. DOMAIN jobs' = {}
    BY <1>1 DEF Restart
  <2> QED
    BY <1>0, <2>1, <2>2 DEF AliasInv, ArrInv
<1>2. CASE RunJob
  <2>0. restarts' = restarts
    BY <1>2 DEF RunJob, RunTxChecked, RunBlockCreated, RunBlockSigned, RunBlockAdopted,
                RunBlockVoted, RunBlockRejected, RunPostSigned, boundVars
  <2>1. Len(arrays') >= Len(arrays)
    BY <2>0, OldArraysFixed
  <2>2. \A i \in DOMAIN chain' : chain'[i].arr < Len(arrays')
    <3>1. CASE chain' = chain
      BY <1>0, <1>c, <2>1, <3>1
    <3>2. ASSUME NEW b \in Block, b.arr <= Len(arrays), AddBlockToChain(b)
          PROVE  \A i \in DOMAIN chain' : chain'[i].arr < Len(arrays')
      <4>1. Len(arrays') = Len(arrays) + 1
        BY <3>2 DEF AddBlockToChain, AliasInv, TypeOK
      <4>2. \A i \in DOMAIN chain' : chain'[i] = b \/ (i \in DOMAIN chain /\ chain'[i] = chain[i])
        BY <3>2 DEF AddBlockToChain, AliasInv, TypeOK
      <4> QED
        BY <1>0, <1>c, <3>2, <4>1, <4>2 DEF Block
    <3> QED
      BY <1>2, <3>1, <3>2, JobShape
  <2>3. \A i \in DOMAIN jobs' : HasBlock(jobs'[i]) => jobs'[i].b.arr <= Len(arrays')
    <3> SUFFICES ASSUME NEW i \in DOMAIN jobs', HasBlock(jobs'[i])
                 PROVE  jobs'[i].b.arr <= Len(arrays')
      OBVIOUS
    <3>1. jobs'[i].b.arr \in Nat
      <4>1. jobs'[i] \in Job
        BY <1>0 DEF TypeOK
      <4> QED
        BY <4>1 DEF Job, Block, HasBlock
    <3>2. jobs'[i].b.arr <= Len(arrays)
      <4>1. HasBlock(Head(jobs)) => Head(jobs).b.arr <= Len(arrays)
        <5>1. jobs # <<>> /\ 1 \in DOMAIN jobs /\ Head(jobs) = jobs[1]
          BY <1>0, <1>2 DEF RunJob, TypeOK
        <5> QED
          BY <5>1 DEF AliasInv, ArrInv
      <4> QED
        BY <1>0, <1>2, <4>1, JobsAfter DEF AliasInv, ArrInv, QueuedOwn
    <3> QED
      BY <1>0, <2>1, <3>1, <3>2
  <2> QED
    BY <1>0, <2>2, <2>3 DEF AliasInv, ArrInv
<1>3. CASE \E batch \in Batches : Deliver(batch)
  <2>1. PICK batch \in Batches : Deliver(batch)
    BY <1>3
  <2>2. chain' = chain /\ arrays' = arrays
    BY <2>1 DEF Deliver
  <2>3. ASSUME NEW i \in DOMAIN jobs', HasBlock(jobs'[i])
        PROVE  jobs'[i].b.arr <= Len(arrays')
    <3>1. PICK n \in 1 .. MaxBatch : batch \in [1 .. n -> Message]
      BY DEF Batches
    <3>2. i \in 1 .. n /\ jobs'[i] = Handler(batch[i], objects + i) /\ batch[i] \in Message
      BY <2>1, <2>3, <3>1 DEF Deliver
    <3>3. batch[i].type = "block" /\ jobs'[i].b = batch[i].block
      BY <2>3, <3>2 DEF Handler, TxChecked, BlockChecked, HasBlock
    <3>4. batch[i].block \in WireBlocks
      BY <3>2, <3>3 DEF Message
    <3> QED
      BY <1>0, <2>2, <3>3, <3>4, WireAssumption
  <2> QED
    BY <1>0, <2>2, <2>3 DEF AliasInv, ArrInv
<1>4. CASE \E t \in Txs, wellFormed \in BOOLEAN : PostTransaction(t, wellFormed)
  <2>1. PICK t \in Txs, wellFormed \in BOOLEAN : PostTransaction(t, wellFormed)
    BY <1>4
  <2>2. chain' = chain /\ arrays' = arrays /\ jobs = <<>>
    BY <2>1 DEF PostTransaction
  <2>3. jobs' = jobs \/ jobs' = <<PostSigned(t)>>
    BY <2>1 DEF PostTransaction
  <2>4. ~HasBlock(PostSigned(t))
    BY DEF PostSigned, HasBlock
  <2>5. \A i \in DOMAIN jobs' : ~HasBlock(jobs'[i])
    BY <2>2, <2>3, <2>4
  <2> QED
    BY <1>0, <2>2, <2>5 DEF AliasInv, ArrInv
<1>5. CASE \/ \E v \in {b.validator : b \in WireBlocks} : AddValidator(v)
           \/ \E i \in DOMAIN validatorSet : RemoveValidator(i) \/ RemoveFromValidatorSet(i)
           \/ UNCHANGED vars
  <2>1. chain' = chain /\ arrays' = arrays /\ jobs' = jobs
    BY <1>5 DEF AddValidator, RemoveValidator, RemoveFromValidatorSet, vars
  <2> QED
    BY <1>0, <2>1 DEF AliasInv, ArrInv
<1> QED
  BY <1>1, <1>2, <1>3, <1>4, <1>5 DEF Next

\* What the blocks of the chain contain does not depend on the current array.
LEMMA ChainKept ==
    ASSUME AliasInv, [Next]_vars, restarts' = restarts,
           NEW c \in DOMAIN chain, chain'[c] = chain[c]
    PROVE  Contents(chain[c])' = Contents(chain[c])
<1>1. chain[c].arr \in Nat /\ chain[c].arr < Len(arrays)
  <2>1. chain[c] \in Block
    BY DEF AliasInv, TypeOK
  <2> QED
    BY <2>1 DEF AliasInv, ArrInv, Block
<1> QED
  BY <1>1, OldArraysFixed, PoolType DEF Contents, AliasInv

\* The transactions of a block in the chain never change, though the node goes on
\* pushing received transactions into the array the block was built from.
THEOREM ContentsFrozen == Spec => ChainContentsFrozen
<1>1. AliasInv /\ [Next]_vars => ContentsKept
  <2> SUFFICES ASSUME AliasInv, [Next]_vars, restarts' = restarts, NEW i \in DOMAIN chain
               PROVE  i \in DOMAIN chain' /\ Contents(chain[i])' = Contents(chain[i])
    BY DEF ContentsKept
  <2>1. i \in DOMAIN chain' /\ chain'[i] = chain[i]
    <3>1. CASE chain' = chain
      BY <3>1
    <3>2. ASSUME NEW b, AddBlockToChain(b)
          PROVE  i \in DOMAIN chain' /\ chain'[i] = chain[i]
      BY <3>2 DEF AddBlockToChain, AliasInv, TypeOK
    <3> QED
      BY <3>1, <3>2, JobShape, OtherShape DEF AliasInv
  <2> QED
    BY <2>1, ChainKept
<1> QED
  BY <1>1, InitAlias, NextAlias, PTL DEF Spec, ChainContentsFrozen

\* A transaction leaves the pool only into the chain: a block takes away from the
\* pool exactly what it holds at that moment.
THEOREM PoolLeavesToChain == Spec => PoolLeavesOnlyToChain
<1>1. AliasInv /\ [Next]_vars => PoolLeaves
  <2> SUFFICES ASSUME AliasInv, [Next]_vars, restarts' = restarts
               PROVE  Pool \ Pool' \subseteq ChainTxs'
    BY DEF PoolLeaves
  <2>0. /\ arrays \in Seq(SUBSET TxObj) /\ Len(arrays) \in Nat \ {0}
        /\ chain \in Seq(Block)
    BY PoolType DEF AliasInv, TypeOK
  <2>1. CASE arrays' = arrays
    BY <2>1 DEF Pool
  <2>2. CASE arrays' = [arrays EXCEPT ![Len(arrays)] = Pool \cup {Head(jobs).o}]
    BY <2>0, <2>2 DEF Pool
  <2>3. ASSUME NEW b \in Block, b.arr <= Len(arrays), AddBlockToChain(b)
        PROVE  Pool \ Pool' \subseteq ChainTxs'
    <3>1. Pool' = Pool \ Contents(b)
      BY <2>0, <2>3 DEF AddBlockToChain, Pool
    <3>2. Contents(b)' = Contents(b)
      BY <2>0, <2>3 DEF AddBlockToChain, Contents, Block
    <3>3. Len(chain) + 1 \in DOMAIN chain' /\ chain'[Len(chain) + 1] = b
      BY <2>0, <2>3 DEF AddBlockToChain
    <3>4. Contents(b)' \subseteq ChainTxs'
      BY <3>3 DEF ChainTxs, Contents
    <3> QED
      BY <3>1, <3>2, <3>4
  <2> QED
    BY <2>1, <2>2, <2>3, JobShape, OtherShape DEF AliasInv
<1> QED
  BY <1>1, InitAlias, NextAlias, PTL DEF Spec, PoolLeavesOnlyToChain

LEMMA StartFresh ==
    ASSUME chain = <<Genesis>>, arrays = <<{}>>, jobs = <<>>
    PROVE  PoolInv
<1>1. FreshArrays /\ FreshChain
  BY FreshStart DEF FreshArrays, FreshChain
<1>2. FreshBlocks /\ FreshTxs
  BY DEF FreshBlocks, FreshTxs
<1>3. Pool = {}
  BY FreshStart DEF Pool
<1> QED
  BY <1>1, <1>2, <1>3 DEF PoolInv, FreshInv, PoolNotInChain

\* Objects the messages of a batch make are new, one for each message.
LEMMA DeliverFresh ==
    ASSUME AliasInv, PoolInv, NEW batch \in Batches, Deliver(batch)
    PROVE  PoolInv'
<1>1. PICK n \in 1 .. MaxBatch : batch \in [1 .. n -> Message]
  BY DEF Batches
<1>2. /\ chain' = chain /\ arrays' = arrays /\ objects' = objects + Fresh(batch)
      /\ DOMAIN jobs' = 1 .. n /\ Len(batch) = n /\ n \in Nat /\ objects \in Nat
      /\ \A i \in 1 .. n : jobs'[i] = Handler(batch[i], objects + i)
  BY <1>1, BoundAssumption DEF Deliver, AliasInv, TypeOK
<1>3. Fresh(batch) \in Nat
  BY <1>1, <1>2 DEF Fresh
<1>4. FreshArrays' /\ FreshChain'
  BY <1>2, <1>3 DEF PoolInv, FreshInv, FreshArrays, FreshChain
<1>5. FreshBlocks'
  <2> SUFFICES ASSUME NEW i \in 1 .. n, HasBlock(jobs'[i]), NEW o \in jobs'[i].b.txs
               PROVE  o.obj = 0
    BY <1>2 DEF FreshBlocks
  <2>1. batch[i] \in Message /\ batch[i].type = "block" /\ jobs'[i].b = batch[i].block
    BY <1>1, <1>2 DEF Handler, TxChecked, BlockChecked, HasBlock
  <2>2. batch[i].block \in WireBlocks
    BY <2>1 DEF Message
  <2> QED
    BY <2>1, <2>2, WireAssumption
<1>6. \A i \in 1 .. n : jobs'[i].kind = "txChecked" =>
          jobs'[i].o.obj = objects + i /\ Fresh(batch) = n
  <2> SUFFICES ASSUME NEW i \in 1 .. n, jobs'[i].kind = "txChecked"
               PROVE  jobs'[i].o.obj = objects + i /\ Fresh(batch) = n
    OBVIOUS
  <2>1. batch[i].type # "block"
    BY <1>2 DEF Handler, TxChecked, BlockChecked
  <2>2. Fresh(batch) = n
    BY <1>1, <1>2, <2>1 DEF Fresh
  <2> QED
    BY <1>2, <2>1, <2>2 DEF Handler, TxChecked
<1>7. FreshTxs'
  <2> SUFFICES ASSUME NEW i \in 1 .. n, jobs'[i].kind = "txChecked"
               PROVE  /\ jobs'[i].o.obj \in 1 .. objects'
                      /\ \A k \in DOMAIN arrays' : jobs'[i].o \notin arrays'[k]
                      /\ \A k \in 1 .. n : jobs'[k].kind = "txChecked" /\ k # i
                                              => jobs'[k].o # jobs'[i].o
    BY <1>2 DEF FreshTxs, Carries
  <2>1. jobs'[i].o.obj = objects + i /\ objects' = objects + n
    BY <1>2, <1>6
  <2>2. ASSUME NEW k \in DOMAIN arrays PROVE jobs'[i].o \notin arrays[k]
    <3>1. jobs'[i].o.obj \notin 1 .. objects
      BY <1>2, <2>1
    <3> QED
      BY <3>1 DEF PoolInv, FreshInv, FreshArrays
  <2>3. \A k \in 1 .. n : jobs'[k].kind = "txChecked" /\ k # i => jobs'[k].o # jobs'[i].o
    BY <1>2, <1>6, <2>1
  <2> QED
    BY <1>2, <2>1, <2>2, <2>3
<1>8. PoolNotInChain'
  BY <1>2 DEF PoolInv, PoolNotInChain, Pool, ChainTxs, Contents
<1> QED
  BY <1>4, <1>5, <1>7, <1>8 DEF PoolInv, FreshInv

\* Continuations carry on objects and blocks that were in the queue.
LEMMA QueueFresh ==
    ASSUME AliasInv, PoolInv, RunJob
    PROVE  /\ FreshBlocks'
           /\ \A i \in DOMAIN jobs' : jobs'[i].kind = "txChecked" =>
                 i + 1 \in DOMAIN jobs /\ jobs'[i] = jobs[i + 1] /\ i + 1 # 1
           /\ jobs # <<>> /\ 1 \in DOMAIN jobs /\ Head(jobs) = jobs[1]
           /\ DOMAIN jobs' \subseteq Nat \ {0}
<1>1. jobs # <<>> /\ 1 \in DOMAIN jobs /\ Head(jobs) = jobs[1] /\ jobs \in Seq(Job)
  BY DEF RunJob, AliasInv, TypeOK
<1>2. jobs' \in Seq(Job)
  BY JobType DEF AliasInv, TypeOK
<1>3. DOMAIN jobs' \subseteq Nat \ {0}
  BY <1>2
<1>4. \A i \in DOMAIN jobs' : HasBlock(jobs'[i]) => \A o \in jobs'[i].b.txs : o.obj = 0
  BY <1>1, JobsAfter DEF PoolInv, FreshInv, FreshBlocks, QueuedOwn
<1>5. \A i \in DOMAIN jobs' : jobs'[i].kind = "txChecked" =>
                 i + 1 \in DOMAIN jobs /\ jobs'[i] = jobs[i + 1] /\ i + 1 # 1
  BY <1>3, JobsAfter DEF QueuedOwn
<1> QED
  BY <1>1, <1>3, <1>4, <1>5 DEF FreshBlocks

\* An object in the queue is in no block of the chain.
LEMMA QueuedNotInChain ==
    ASSUME AliasInv, PoolInv, NEW i \in DOMAIN jobs, Carries(i)
    PROVE  jobs[i].o \notin ChainTxs
<1> SUFFICES ASSUME NEW c \in DOMAIN chain, jobs[i].o \in Contents(chain[c])
             PROVE  FALSE
  BY DEF ChainTxs
<1>1. CASE chain[c].arr = 0
  BY <1>1 DEF Contents, PoolInv, FreshInv, FreshChain, FreshTxs
<1>2. CASE chain[c].arr # 0
  <2>1. chain[c].arr \in Nat /\ chain[c].arr < Len(arrays) /\ Len(arrays) \in Nat
    <3>1. chain[c] \in Block
      BY DEF AliasInv, TypeOK
    <3> QED
      BY <3>1, PoolType DEF AliasInv, ArrInv, Block
  <2>2. chain[c].arr \in DOMAIN arrays
    BY <1>2, <2>1 DEF AliasInv, TypeOK
  <2> QED
    BY <1>2, <2>2 DEF Contents, PoolInv, FreshInv, FreshTxs
<1> QED
  BY <1>1, <1>2

LEMMA JobFresh ==
    ASSUME AliasInv, PoolInv, RunJob, restarts' = restarts, objects' = objects
    PROVE  PoolInv'
<1> DEFINE j == Head(jobs)
<1>0. /\ arrays \in Seq(SUBSET TxObj) /\ Len(arrays) \in Nat \ {0}
      /\ chain \in Seq(Block) /\ Pool = arrays[Len(arrays)]
      /\ 1 \in DOMAIN jobs /\ j = jobs[1] /\ [Next]_vars
  BY PoolType, QueueFresh DEF AliasInv, TypeOK, Pool, Next
<1>1. FreshBlocks'
  BY QueueFresh
<1>2. ASSUME chain' = chain, arrays' = arrays
      PROVE  PoolInv'
  <2>1. FreshArrays' /\ FreshChain'
    BY <1>2 DEF PoolInv, FreshInv, FreshArrays, FreshChain
  <2>2. FreshTxs'
    BY <1>2, QueueFresh DEF PoolInv, FreshInv, FreshTxs, Carries
  <2>3. PoolNotInChain'
    BY <1>2 DEF PoolInv, PoolNotInChain, Pool, ChainTxs, Contents
  <2> QED
    BY <1>1, <2>1, <2>2, <2>3 DEF PoolInv, FreshInv
<1>3. ASSUME chain' = chain, j.kind = "txChecked",
             arrays' = [arrays EXCEPT ![Len(arrays)] = Pool \cup {j.o}]
      PROVE  PoolInv'
  <2>1. /\ DOMAIN arrays' = DOMAIN arrays
        /\ Len(arrays) \in DOMAIN arrays
        /\ \A k \in DOMAIN arrays : arrays'[k] \subseteq arrays[k] \cup {j.o}
        /\ Pool' = Pool \cup {j.o}
    BY <1>0, <1>3 DEF Pool
  <2>2. j.o.obj \in 1 .. objects
    BY <1>0, <1>3 DEF PoolInv, FreshInv, FreshTxs, Carries
  <2>3. FreshArrays' /\ FreshChain'
    BY <1>3, <2>1, <2>2 DEF PoolInv, FreshInv, FreshArrays, FreshChain
  <2>4. FreshTxs'
    <3> SUFFICES ASSUME NEW i \in DOMAIN jobs', jobs'[i].kind = "txChecked"
                 PROVE  /\ jobs'[i].o.obj \in 1 .. objects
                        /\ \A k \in DOMAIN arrays : jobs'[i].o \notin arrays'[k]
                        /\ \A k \in DOMAIN jobs' : jobs'[k].kind = "txChecked" /\ k # i
                                                      => jobs'[k].o # jobs'[i].o
      BY <2>1 DEF FreshTxs, Carries
    <3>1. i + 1 \in DOMAIN jobs /\ jobs'[i] = jobs[i + 1] /\ i + 1 # 1 /\ Carries(i + 1)
      BY QueueFresh DEF Carries
    <3>2. jobs'[i].o # j.o
      BY <1>0, <1>3, <3>1 DEF PoolInv, FreshInv, FreshTxs, Carries
    <3>3. jobs'[i].o.obj \in 1 .. objects /\ \A k \in DOMAIN arrays : jobs'[i].o \notin arrays[k]
      BY <3>1 DEF PoolInv, FreshInv, FreshTxs
    <3>4. ASSUME NEW k \in DOMAIN jobs', jobs'[k].kind = "txChecked", k # i
          PROVE  jobs'[k].o # jobs'[i].o
      <4>1. k + 1 \in DOMAIN jobs /\ jobs'[k] = jobs[k + 1] /\ Carries(k + 1) /\ k + 1 # i + 1
        BY <3>4, QueueFresh DEF Carries
      <4> QED
        BY <3>1, <4>1 DEF PoolInv, FreshInv, FreshTxs
    <3> QED
      BY <2>1, <3>2, <3>3, <3>4
  <2>5. PoolNotInChain'
    <3>1. ChainTxs' = ChainTxs
      BY <1>0, <1>3, ChainKept DEF ChainTxs
    <3>2. j.o \notin ChainTxs
      BY <1>0, <1>3, QueuedNotInChain DEF Carries
    <3> QED
      BY <2>1, <3>1, <3>2 DEF PoolInv, PoolNotInChain
  <2> QED
    BY <1>1, <2>3, <2>4, <2>5 DEF PoolInv, FreshInv
<1>4. ASSUME NEW b \in Block, HasBlock(j), b = j.b, b.arr <= Len(arrays), AddBlockToChain(b)
      PROVE  PoolInv'
  <2>1. /\ DOMAIN arrays' = DOMAIN arrays \cup {Len(arrays) + 1}
        /\ \A k \in DOMAIN arrays : arrays'[k] = arrays[k]
        /\ arrays'[Len(arrays) + 1] = Pool \ Contents(b)
        /\ Pool' = Pool \ Contents(b)
        /\ Len(arrays) \in DOMAIN arrays
    BY <1>0, <1>4 DEF AddBlockToChain, Pool
  <2>2. /\ DOMAIN chain' = DOMAIN chain \cup {Len(chain) + 1}
        /\ chain'[Len(chain) + 1] = b
        /\ \A c \in DOMAIN chain : chain'[c] = chain[c]
    BY <1>0, <1>4 DEF AddBlockToChain
  <2>3. Contents(b)' = Contents(b)
    BY <1>0, <1>4, <2>1 DEF Contents, Block
  <2>4. FreshArrays'
    BY <1>0, <2>1 DEF PoolInv, FreshInv, FreshArrays
  <2>5. FreshChain'
    BY <1>0, <1>4, <2>2 DEF PoolInv, FreshInv, FreshChain, FreshBlocks
  <2>6. FreshTxs'
    <3> SUFFICES ASSUME NEW i \in DOMAIN jobs', jobs'[i].kind = "txChecked"
                 PROVE  /\ jobs'[i].o.obj \in 1 .. objects
                        /\ \A k \in DOMAIN arrays' : jobs'[i].o \notin arrays'[k]
                        /\ \A k \in DOMAIN jobs' : jobs'[k].kind = "txChecked" /\ k # i
                                                      => jobs'[k].o # jobs'[i].o
      BY DEF FreshTxs, Carries
    <3>1. i + 1 \in DOMAIN jobs /\ jobs'[i] = jobs[i + 1] /\ Carries(i + 1)
      BY QueueFresh DEF Carries
    <3>3. jobs'[i].o.obj \in 1 .. objects /\ \A k \in DOMAIN arrays : jobs'[i].o \notin arrays[k]
      BY <3>1 DEF PoolInv, FreshInv, FreshTxs
    <3>4. ASSUME NEW k \in DOMAIN jobs', jobs'[k].kind = "txChecked", k # i
          PROVE  jobs'[k].o # jobs'[i].o
      <4>1. k + 1 \in DOMAIN jobs /\ jobs'[k] = jobs[k + 1] /\ Carries(k + 1) /\ k + 1 # i + 1
        BY <3>4, QueueFresh DEF Carries
      <4> QED
        BY <3>1, <4>1 DEF PoolInv, FreshInv, FreshTxs
    <3> QED
      BY <1>0, <2>1, <3>3, <3>4
  <2>7. PoolNotInChain'
    <3> SUFFICES ASSUME NEW o \in Pool', NEW c \in DOMAIN chain', o \in Contents(chain[c])'
                 PROVE  FALSE
      BY DEF PoolNotInChain, ChainTxs
    <3>1. o \in Pool /\ o \notin Contents(b)
      BY <2>1
    <3>2. CASE c \in DOMAIN chain
      BY <1>0, <2>2, <3>1, <3>2, ChainKept DEF PoolInv, PoolNotInChain, ChainTxs
    <3>3. CASE c = Len(chain) + 1
      <4>1. Contents(chain[c])' = Contents(b)'
        BY <2>2, <3>3 DEF Contents
      <4> QED
        BY <2>3, <3>1, <4>1
    <3> QED
      BY <2>2, <3>2, <3>3
  <2> QED
    BY <1>1, <2>4, <2>5, <2>6, <2>7 DEF PoolInv, FreshInv
<1> QED
  BY <1>2, <1>3, <1>4, JobShape

LEMMA NextFresh == AliasInv /\ PoolInv /\ [Next]_vars => PoolInv'
<1> SUFFICES ASSUME AliasInv, PoolInv, [Next]_vars PROVE PoolInv'
  OBVIOUS
<1>1. CASE RunJob
  <2>1. restarts' = restarts /\ objects' = objects
    BY <1>1 DEF RunJob, RunTxChecked, RunBlockCreated, RunBlockSigned, RunBlockAdopted,
                RunBlockVoted, RunBlockRejected, RunPostSigned, boundVars
  <2> QED
    BY <1>1, <2>1, JobFresh
<1>2. CASE \E batch \in Batches : Deliver(batch)
  BY <1>2, DeliverFresh
<1>3. CASE \E t \in Txs, wellFormed \in BOOLEAN : PostTransaction(t, wellFormed)
  <2>1. PICK t \in Txs, wellFormed \in BOOLEAN : PostTransaction(t, wellFormed)
    BY <1>3
  <2>2. /\ chain' = chain /\ arrays' = arrays /\ objects' = objects
        /\ jobs = <<>> /\ (jobs' = jobs \/ jobs' = <<PostSigned(t)>>)
    BY <2>1 DEF PostTransaction
  <2>3. \A i \in DOMAIN jobs' : jobs'[i].kind = "postSigned"
    BY <2>2 DEF PostSigned
  <2>4. FreshBlocks' /\ FreshTxs'
    BY <2>3 DEF FreshBlocks, FreshTxs, Carries, HasBlock
  <2> QED
    BY <2>2, <2>4 DEF PoolInv, FreshInv, FreshArrays, FreshChain, PoolNotInChain,
                      Pool, ChainTxs, Contents
<1>4. CASE Restart
  <2>1. chain' = <<Genesis>> /\ arrays' = <<{}>> /\ jobs' = <<>>
    BY <1>4 DEF Restart
  <2>2. FreshArrays' /\ FreshChain'
    BY <2>1, FreshStart DEF FreshArrays, FreshChain
  <2>3. FreshBlocks' /\ FreshTxs'
    BY <2>1 DEF FreshBlocks, FreshTxs
  <2>4. Pool' = {}
    BY <2>1, FreshStart DEF Pool
  <2> QED
    BY <2>2, <2>3, <2>4 DEF PoolInv, FreshInv, PoolNotInChain
<1>5. CASE \/ \E v \in {b.validator : b \in WireBlocks} : AddValidator(v)
           \/ \E i \in DOMAIN validatorSet : RemoveValidator(i) \/ RemoveFromValidatorSet(i)
           \/ UNCHANGED vars
  <2>1. chain' = chain /\ arrays' = arrays /\ jobs' = jobs /\ objects' = objects
    BY <1>5 DEF AddValidator, RemoveValidator, RemoveFromValidatorSet, vars
  <2> QED
    BY <2>1 DEF PoolInv, FreshInv, FreshArrays, FreshChain, FreshBlocks, FreshTxs,
                Carries, PoolNotInChain, Pool, ChainTxs, Contents
<1> QED
  BY <1>1, <1>2, <1>3, <1>4, <1>5 DEF Next

\* A transaction object is never both waiting in the pool and in a block of the
\* chain, so no later block of this node takes it up a second time.
THEOREM PoolApartFromChain == Spec => []PoolNotInChain
<1>1. Init => PoolInv
  BY StartFresh DEF Init
<1>2. PoolInv => PoolNotInChain
  BY DEF PoolInv
<1> QED
  BY <1>1, <1>2, InitAlias, NextAlias, NextFresh, PTL DEF Spec

-----------------------------------------------------------------------------
(* The links of the chain, when a socket delivers one message per tick and   *)
(* config.id is no private key.  A block is then appended to the very tip it *)
(* was validated against, because nothing else is queued; with two messages  *)
(* in a tick, or with a signature that succeeds, ChainLinked does not hold.  *)

BuildsOn(b, tip) == b.index = tip.index + 1 /\ b.prev = tip.hash

CheckedBuildsOnTip ==
    \A i \in DOMAIN jobs : jobs[i].kind = "blockChecked" /\ jobs[i].ok => BuildsOn(jobs[i].b, Tip)

NothingSigned == IdIsPem \/ \A i \in DOMAIN jobs : jobs[i].kind # "blockSigned"

OneJob == MaxBatch = 1 => Len(jobs) <= 1

LinkInv == ChainLinked /\ CheckedBuildsOnTip

\* What a batch leaves in the queue.
LEMMA DeliveredJobs ==
    ASSUME TypeOK, NEW batch \in Batches, Deliver(batch)
    PROVE  /\ Len(jobs') \in Nat /\ Len(jobs') <= MaxBatch
           /\ \A i \in DOMAIN jobs' :
                 /\ jobs'[i].kind \in {"blockChecked", "txChecked"}
                 /\ jobs'[i].kind = "blockChecked" =>
                       jobs'[i].ok = ValidBlock(jobs'[i].b, Tip)
<1>1. PICK n \in 1 .. MaxBatch : batch \in [1 .. n -> Message]
  BY DEF Batches
<1>2. n \in Nat /\ n <= MaxBatch /\ DOMAIN batch = 1 .. n
  BY <1>1, BoundAssumption
<1>3. jobs' = [i \in 1 .. n |-> Handler(batch[i], objects + i)]
  BY <1>2 DEF Deliver
<1>4. Len(jobs') = n /\ DOMAIN jobs' = 1 .. n
  BY <1>2, <1>3
<1>5. \A i \in 1 .. n : jobs'[i] = BlockChecked(batch[i].block)
                        \/ \E o : jobs'[i] = TxChecked(o)
  BY <1>3 DEF Handler
<1> QED
  BY <1>2, <1>4, <1>5 DEF BlockChecked, TxChecked

\* A continuation leaves the rest of the queue and appends one at most, for a
\* block of its own.
LEMMA QueueAfter ==
    ASSUME TypeOK, RunJob
    PROVE  /\ jobs # <<>>
           /\ \/ jobs' = Tail(jobs)
              \/ \E n : /\ jobs' = Append(Tail(jobs), n)
                        /\ n.kind \in {"blockCreated", "blockSigned"}
                        /\ n.kind = "blockSigned" => IdIsPem
<1>1. CASE RunTxChecked(Head(jobs))
  BY <1>1 DEF RunJob, RunTxChecked, BlockCreated
<1>2. CASE RunBlockCreated(Head(jobs))
  BY <1>2 DEF RunJob, RunBlockCreated, BlockSigned
<1>3. CASE ~RunTxChecked(Head(jobs)) /\ ~RunBlockCreated(Head(jobs))
  BY <1>3 DEF RunJob, RunBlockSigned, RunBlockAdopted, RunBlockVoted, RunBlockRejected,
              RunPostSigned
<1> QED
  BY <1>1, <1>2, <1>3

\* With one message per tick the queue has one continuation at most, and without
\* a private key none that appends an own block.
LEMMA InitOneJob == Init => OneJob /\ NothingSigned
BY DEF Init, OneJob, NothingSigned

LEMMA NextOneJob == TypeOK /\ OneJob /\ NothingSigned /\ [Next]_vars => OneJob' /\ NothingSigned'
<1> SUFFICES ASSUME TypeOK, OneJob, NothingSigned, [Next]_vars
             PROVE  OneJob' /\ NothingSigned'
  OBVIOUS
<1>0. jobs \in Seq(Job)
  BY DEF TypeOK
<1>1. CASE RunJob
  <2>0. Len(jobs) \in Nat \ {0} /\ Tail(jobs) \in Seq(Job) /\ Len(Tail(jobs)) = Len(jobs) - 1
    BY <1>0, <1>1, QueueAfter
  <2>1. \A i \in DOMAIN Tail(jobs) : i + 1 \in DOMAIN jobs /\ Tail(jobs)[i] = jobs[i + 1]
    BY <1>1, QueueAfter, TailIndex
  <2>2. CASE jobs' = Tail(jobs)
    BY <2>0, <2>1, <2>2 DEF OneJob, NothingSigned
  <2>3. ASSUME NEW n, jobs' = Append(Tail(jobs), n), n.kind = "blockSigned" => IdIsPem
        PROVE  OneJob' /\ NothingSigned'
    <3> DEFINE q == Tail(jobs)
    <3>1. /\ Len(jobs') = Len(q) + 1
          /\ \A i \in DOMAIN jobs' : (i \in DOMAIN q /\ jobs'[i] = q[i]) \/ jobs'[i] = n
      BY <2>0, <2>3
    <3> HIDE DEF q
    <3>2. NothingSigned'
      BY <2>1, <2>3, <3>1 DEF NothingSigned, q
    <3>3. OneJob'
      BY <2>0, <3>1 DEF OneJob, q
    <3> QED
      BY <3>2, <3>3
  <2> QED
    BY <1>1, <2>2, <2>3, QueueAfter
<1>2. CASE \E batch \in Batches : Deliver(batch)
  <2>1. \A i \in DOMAIN jobs' : jobs'[i].kind # "blockSigned"
    BY <1>2, DeliveredJobs
  <2>2. Len(jobs') <= MaxBatch
    BY <1>2, DeliveredJobs
  <2> QED
    BY <2>1, <2>2 DEF OneJob, NothingSigned
<1>3. CASE \E t \in Txs, wellFormed \in BOOLEAN : PostTransaction(t, wellFormed)
  <2>1. PICK t \in Txs : jobs' = jobs \/ jobs' = <<PostSigned(t)>>
    BY <1>3 DEF PostTransaction
  <2>2. CASE jobs' = <<PostSigned(t)>>
    <3>1. Len(jobs') = 1 /\ \A i \in DOMAIN jobs' : jobs'[i] = PostSigned(t)
      BY <2>2
    <3> QED
      BY <3>1 DEF OneJob, NothingSigned, PostSigned
  <2> QED
    BY <2>1, <2>2 DEF OneJob, NothingSigned
<1>4. CASE \/ \E v \in {b.validator : b \in WireBlocks} : AddValidator(v)
           \/ \E i \in DOMAIN validatorSet : RemoveValidator(i) \/ RemoveFromValidatorSet(i)
           \/ UNCHANGED vars
  <2>1. jobs' = jobs
    BY <1>4 DEF AddValidator, RemoveValidator, RemoveFromValidatorSet, vars
  <2> QED
    BY <2>1 DEF OneJob, NothingSigned
<1>5. CASE Restart
  <2>1. jobs' = <<>>
    BY <1>5 DEF Restart
  <2> QED
    BY <2>1 DEF OneJob, NothingSigned
<1> QED
  BY <1>1, <1>2, <1>3, <1>4, <1>5 DEF Next

\* With one message per tick, what runs is all there is in the queue.
LEMMA OnlyJob ==
    ASSUME MaxBatch = 1, TypeOK, OneJob, RunJob
    PROVE  1 \in DOMAIN jobs /\ Head(jobs) = jobs[1] /\ Head(jobs) \in Job /\ Tail(jobs) = <<>>
<1>1. jobs \in Seq(Job)
  BY DEF TypeOK
<1>2. jobs # <<>>
  BY DEF RunJob
<1>3. Len(jobs) <= 1
  BY DEF OneJob
<1>4. Len(jobs) \in Nat /\ Len(jobs) # 0
  <2>1. Len(jobs) \in Nat
    BY <1>1
  <2>2. \A s \in Seq(Job) : s # <<>> => Len(s) \in Nat \ {0}
    BY EmptySeq
  <2> QED
    BY <1>1, <1>2, <2>1, <2>2
<1>5. Len(jobs) = 1
  <2>1. \A n \in Nat : n # 0 /\ n <= 1 => n = 1
    OBVIOUS
  <2> QED
    BY <1>3, <1>4, <2>1
<1>6. 1 \in DOMAIN jobs /\ Head(jobs) = jobs[1] /\ Head(jobs) \in Job
  BY <1>1, <1>5
<1>7. Tail(jobs) \in Seq(Job) /\ Len(Tail(jobs)) = 0
  BY <1>1, <1>2, <1>5, HeadTailProperties
<1>8. Tail(jobs) = <<>>
  BY <1>7, EmptySeq
<1> QED
  BY <1>6, <1>8

LEMMA OnlyOne ==
    /\ DOMAIN <<>> = {}
    /\ \A n : DOMAIN Append(<<>>, n) = {1} /\ Append(<<>>, n)[1] = n
OBVIOUS

\* What is appended on the tip it was validated against keeps the chain linked.
LEMMA AppendLinked ==
    ASSUME NEW ch \in Seq(Block), ch # <<>>, NEW b \in Block, BuildsOn(b, ch[Len(ch)]),
           \A i \in 2 .. Len(ch) : BuildsOn(ch[i], ch[i - 1])
    PROVE  \A i \in 2 .. Len(Append(ch, b)) : BuildsOn(Append(ch, b)[i], Append(ch, b)[i - 1])
<1> DEFINE t == Append(ch, b)
<1>1. Len(t) = Len(ch) + 1 /\ t[Len(ch) + 1] = b /\ \A i \in 1 .. Len(ch) : t[i] = ch[i]
  OBVIOUS
<1>2. Len(ch) \in Nat \ {0}
  OBVIOUS
<1> HIDE DEF t
<1>3. ASSUME NEW i \in 2 .. Len(t) PROVE BuildsOn(t[i], t[i - 1])
  <2>1. CASE i = Len(ch) + 1
    <3>1. i - 1 = Len(ch) /\ Len(ch) \in 1 .. Len(ch)
      BY <1>2, <2>1
    <3>2. t[i] = b /\ t[i - 1] = ch[Len(ch)]
      BY <1>1, <2>1, <3>1
    <3> QED
      BY <3>2
  <2>2. CASE i # Len(ch) + 1
    <3>1. i \in 2 .. Len(ch) /\ i \in 1 .. Len(ch) /\ i - 1 \in 1 .. Len(ch)
      BY <1>1, <1>2, <2>2
    <3>2. t[i] = ch[i] /\ t[i - 1] = ch[i - 1]
      BY <1>1, <3>1
    <3> QED
      BY <3>1, <3>2
  <2> QED
    BY <2>1, <2>2
<1> QED
  BY <1>3 DEF t

LEMMA InitLinked == Init => LinkInv
<1> SUFFICES ASSUME Init PROVE LinkInv
  OBVIOUS
<1>1. Len(chain) = 1 /\ DOMAIN jobs = {}
  BY DEF Init
<1> QED
  BY <1>1 DEF LinkInv, ChainLinked, CheckedBuildsOnTip

LEMMA NextLinked ==
    ASSUME MaxBatch = 1, ~IdIsPem
    PROVE  TypeOK /\ OneJob /\ NothingSigned /\ LinkInv /\ [Next]_vars => LinkInv'
<1> SUFFICES ASSUME TypeOK, OneJob, NothingSigned, LinkInv, [Next]_vars PROVE LinkInv'
  OBVIOUS
<1>0. chain \in Seq(Block) /\ chain # <<>> /\ jobs \in Seq(Job)
  BY DEF TypeOK
<1>1. CASE RunJob
  <2> DEFINE j == Head(jobs)
  <2>1. 1 \in DOMAIN jobs /\ j = jobs[1] /\ j \in Job /\ Tail(jobs) = <<>>
    BY <1>1, OnlyJob
  <2>2. CheckedBuildsOnTip'
    <3>1. CASE jobs' = Tail(jobs)
      BY <2>1, <3>1 DEF CheckedBuildsOnTip
    <3>2. ASSUME NEW n, jobs' = Append(Tail(jobs), n), n.kind \in {"blockCreated", "blockSigned"}
          PROVE  CheckedBuildsOnTip'
      <4>1. \A i \in DOMAIN jobs' : jobs'[i] = n
        BY <2>1, <3>2
      <4> QED
        BY <3>2, <4>1 DEF CheckedBuildsOnTip
    <3> QED
      BY <1>1, <3>1, <3>2, QueueAfter
  <2>3. CASE RunBlockAdopted(j)
    <3>1. j.kind = "blockChecked" /\ j.ok /\ chain' = Append(chain, j.b)
      BY <2>3 DEF RunBlockAdopted, Accepts, AddBlockToChain
    <3>2. BuildsOn(j.b, chain[Len(chain)])
      BY <2>1, <3>1 DEF LinkInv, CheckedBuildsOnTip, Tip
    <3>3. j.b \in Block
      BY <2>1, <3>1 DEF Job
    <3>4. \A i \in 2 .. Len(chain) : BuildsOn(chain[i], chain[i - 1])
      BY DEF LinkInv, ChainLinked, BuildsOn
    <3>5. \A i \in 2 .. Len(chain') : BuildsOn(chain'[i], chain'[i - 1])
      BY <1>0, <3>1, <3>2, <3>3, <3>4, AppendLinked
    <3> QED
      BY <2>2, <3>5 DEF LinkInv, ChainLinked, BuildsOn
  <2>4. CASE ~RunBlockAdopted(j)
    <3>1. j.kind # "blockSigned"
      BY <2>1 DEF NothingSigned
    <3>2. chain' = chain
      BY <1>1, <2>4, <3>1 DEF RunJob, RunTxChecked, RunBlockCreated, RunBlockSigned, RunBlockVoted,
         RunBlockRejected, RunPostSigned
    <3> QED
      BY <2>2, <3>2 DEF LinkInv, ChainLinked
  <2> QED
    BY <2>3, <2>4
<1>2. CASE \E batch \in Batches : Deliver(batch)
  <2>1. chain' = chain
    BY <1>2 DEF Deliver
  <2>2. CheckedBuildsOnTip'
    BY <1>2, <2>1, DeliveredJobs DEF CheckedBuildsOnTip, ValidBlock, BuildsOn, Tip
  <2> QED
    BY <2>1, <2>2 DEF LinkInv, ChainLinked
<1>3. CASE \E t \in Txs, wellFormed \in BOOLEAN : PostTransaction(t, wellFormed)
  <2>1. PICK t \in Txs : chain' = chain /\ (jobs' = jobs \/ jobs' = <<PostSigned(t)>>)
    BY <1>3 DEF PostTransaction
  <2>2. CASE jobs' = <<PostSigned(t)>>
    <3>1. \A i \in DOMAIN jobs' : jobs'[i] = PostSigned(t)
      BY <2>2
    <3> QED
      BY <2>1, <3>1 DEF LinkInv, ChainLinked, CheckedBuildsOnTip, PostSigned
  <2> QED
    BY <2>1, <2>2 DEF LinkInv, ChainLinked, CheckedBuildsOnTip, Tip
<1>4. CASE \/ \E v \in {b.validator : b \in WireBlocks} : AddValidator(v)
           \/ \E i \in DOMAIN validatorSet : RemoveValidator(i) \/ RemoveFromValidatorSet(i)
           \/ UNCHANGED vars
  <2>1. jobs' = jobs /\ chain' = chain
    BY <1>4 DEF AddValidator, RemoveValidator, RemoveFromValidatorSet, vars
  <2> QED
    BY <2>1 DEF LinkInv, ChainLinked, CheckedBuildsOnTip, Tip
<1>5. CASE Restart
  <2>1. Len(chain') = 1 /\ DOMAIN jobs' = {}
    BY <1>5 DEF Restart
  <2> QED
    BY <2>1 DEF LinkInv, ChainLinked, CheckedBuildsOnTip
<1> QED
  BY <1>1, <1>2, <1>3, <1>4, <1>5 DEF Next

\* With one message per tick every block of the chain extends the one before
\* it, for any peers, validators, edits of the validator set and restarts.
THEOREM ChainAlwaysLinked ==
    ASSUME MaxBatch = 1, ~IdIsPem
    PROVE  Spec => []ChainLinked
<1>1. LinkInv => ChainLinked
  BY DEF LinkInv
<1>2. Init => TypeOK /\ OneJob /\ NothingSigned /\ LinkInv
  BY InitType, InitOneJob, InitLinked
<1>3. TypeOK /\ OneJob /\ NothingSigned /\ LinkInv /\ [Next]_vars
      => TypeOK' /\ OneJob' /\ NothingSigned' /\ LinkInv'
  BY NextType, NextOneJob, NextLinked
<1> QED
  BY <1>1, <1>2, <1>3, PTL DEF Spec

-----------------------------------------------------------------------------
(* The turns of the validators.  An own block may wait in the queue for its  *)
(* signature; when nothing else is queued the turn cannot pass meanwhile.     *)

TurnKept ==
    /\ validatorSet = InitValidators
    /\ InitValidators # <<>> => currentValidator = (Len(chain) - 1) % Len(InitValidators)

Own(j) == j.kind \in {"blockCreated", "blockSigned"}

OwnInTurn ==
    MaxBatch = 1 => \A i \in DOMAIN jobs :
        Own(jobs[i]) => jobs[i].b.validator = Self /\ CurrentValidator = Self

TurnInv == RoundRobin /\ TurnKept /\ OwnInTurn

\* The validator whose turn comes after n others.
Turn(n) == IF InitValidators = <<>> THEN Self
           ELSE InitValidators[(n % Len(InitValidators)) + 1]

\* Counting on from a remainder is counting on from the number.
LEMMA ModNext ==
    ASSUME NEW n \in Nat, NEW m \in Nat \ {0}
    PROVE  n % m \in Nat /\ n % m < m /\ ((n % m) + 1) % m = (n + 1) % m
<1>1. PICK q \in Nat : q = n \div m
  OBVIOUS
<1>2. PICK r \in Nat : r = n % m
  OBVIOUS
<1>3. n = m * q + r /\ r < m
  BY <1>1, <1>2
<1>4. (n + 1) % m = (r + 1) % m
  BY <1>3
<1> QED
  BY <1>2, <1>3, <1>4

LEMMA LengthsType ==
    ASSUME TypeOK
    PROVE  /\ chain \in Seq(Block) /\ Len(chain) \in Nat /\ Len(chain) - 1 \in Nat
           /\ InitValidators # <<>> => Len(InitValidators) \in Nat \ {0}
<1>1. chain \in Seq(Block) /\ chain # <<>>
  BY DEF TypeOK
<1> QED
  BY <1>1, ConfigAssumption

\* The engine asks the validator whose turn the length of the chain says it is.
LEMMA CurrentIsTurn ==
    ASSUME TypeOK, TurnKept
    PROVE  CurrentValidator = Turn(Len(chain) - 1)
<1>1. CASE InitValidators = <<>>
  BY <1>1 DEF TurnKept, CurrentValidator, Turn
<1>2. CASE InitValidators # <<>>
  <2> DEFINE n == Len(chain) - 1
             m == Len(InitValidators)
  <2>1. n \in Nat /\ m \in Nat \ {0}
    BY <1>2, LengthsType
  <2>2. n % m \in Nat /\ n % m < m
    BY <2>1, ModNext
  <2>3. currentValidator = n % m /\ validatorSet = InitValidators
    BY <1>2 DEF TurnKept
  <2>4. (n % m) + 1 \in DOMAIN InitValidators
    <3> HIDE DEF n
    <3>1. (n % m) + 1 \in 1 .. m
      BY <2>1, <2>2
    <3> QED
      BY <3>1, ConfigAssumption
  <2> QED
    BY <1>2, <2>3, <2>4 DEF CurrentValidator, Turn
<1> QED
  BY <1>1, <1>2

\* A block appended by the one whose turn it is, when the turn moves with it.
LEMMA TurnPasses ==
    ASSUME TypeOK, RoundRobin, TurnKept, NEW b \in Block, AddBlockToChain(b),
           b.validator = CurrentValidator, validatorSet' = validatorSet,
           currentValidator' = NextIndex(currentValidator)
    PROVE  RoundRobin' /\ TurnKept'
<1> DEFINE n == Len(chain)
<1>1. /\ n \in Nat /\ n - 1 \in Nat /\ n # 0
      /\ Len(chain') = n + 1 /\ chain'[n + 1] = b
      /\ \A i \in 1 .. n : chain'[i] = chain[i]
  <2>1. chain \in Seq(Block) /\ n \in Nat /\ n - 1 \in Nat
    BY LengthsType
  <2>2. chain' = Append(chain, b)
    BY DEF AddBlockToChain
  <2> QED
    BY <2>1, <2>2
<1>2. b.validator = Turn(n - 1)
  BY CurrentIsTurn
<1>3. \A i \in 2 .. n : chain[i].validator = Turn(i - 2)
  BY DEF RoundRobin, Turn
<1> HIDE DEF n
<1>4. \A i \in 2 .. n + 1 : chain'[i].validator = Turn(i - 2)
  <2> SUFFICES ASSUME NEW i \in 2 .. n + 1 PROVE chain'[i].validator = Turn(i - 2)
    OBVIOUS
  <2>1. CASE i = n + 1
    <3>1. i - 2 = n - 1
      BY <1>1, <2>1
    <3> QED
      BY <1>1, <1>2, <2>1, <3>1
  <2>2. CASE i # n + 1
    <3>1. i \in 2 .. n /\ i \in 1 .. n
      BY <1>1, <2>2
    <3> QED
      BY <1>1, <1>3, <3>1
  <2> QED
    BY <2>1, <2>2
<1>5. RoundRobin'
  BY <1>1, <1>4 DEF RoundRobin, Turn
<1>6. InitValidators # <<>> => currentValidator' = n % Len(InitValidators)
  <2> SUFFICES ASSUME InitValidators # <<>> PROVE currentValidator' = n % Len(InitValidators)
    OBVIOUS
  <2> DEFINE m == Len(InitValidators)
  <2>1. m \in Nat \ {0}
    BY LengthsType
  <2>2. (n - 1) % m \in Nat /\ (((n - 1) % m) + 1) % m = ((n - 1) + 1) % m
    BY <1>1, <2>1, ModNext
  <2>3. currentValidator = (n - 1) % m /\ validatorSet = InitValidators
    BY DEF TurnKept, n
  <2>4. currentValidator # NaN
    BY <2>2, <2>3
  <2>5. currentValidator' = (currentValidator + 1) % m
    BY <2>3, <2>4 DEF NextIndex
  <2>6. (n - 1) + 1 = n
    BY <1>1
  <2> QED
    BY <2>2, <2>3, <2>5, <2>6
<1>7. Len(chain') - 1 = n
  BY <1>1
<1> QED
  BY <1>5, <1>6, <1>7 DEF TurnKept

\* Where neither the chain, the validators nor the turn changes, only the queue
\* can disturb the invariant.
LEMMA TurnStays ==
    ASSUME TurnInv, chain' = chain, validatorSet' = validatorSet,
           currentValidator' = currentValidator,
           MaxBatch = 1 => \A i \in DOMAIN jobs' :
               Own(jobs'[i]) => jobs'[i].b.validator = Self /\ CurrentValidator = Self
    PROVE  TurnInv'
<1>1. RoundRobin' /\ TurnKept'
  BY DEF TurnInv, RoundRobin, TurnKept
<1>2. CurrentValidator' = CurrentValidator
  BY DEF CurrentValidator
<1> QED
  BY <1>1, <1>2 DEF TurnInv, OwnInTurn

LEMMA InitTurn == Init => TurnInv
<1> SUFFICES ASSUME Init PROVE TurnInv
  OBVIOUS
<1>1. Len(chain) = 1 /\ DOMAIN jobs = {}
  BY DEF Init
<1>2. InitValidators # <<>> => 0 = 0 % Len(InitValidators)
  BY ConfigAssumption
<1> QED
  BY <1>1, <1>2 DEF Init, TurnInv, RoundRobin, TurnKept, OwnInTurn

LEMMA NextTurn ==
    ASSUME MaxAdmin = 0, IdIsPem => MaxBatch = 1
    PROVE  TypeOK /\ OneJob /\ NothingSigned /\ TurnInv /\ [Next]_vars => TurnInv'
<1> SUFFICES ASSUME TypeOK, OneJob, NothingSigned, TurnInv, [Next]_vars PROVE TurnInv'
  OBVIOUS
<1>0. ~(admin < MaxAdmin)
  BY DEF TypeOK
<1>1. CASE RunJob
  <2> DEFINE j == Head(jobs)
  <2>0. jobs # <<>> /\ j \in Job /\ 1 \in DOMAIN jobs /\ j = jobs[1]
    BY <1>1 DEF RunJob, TypeOK
  <2>1. MaxBatch = 1 => Tail(jobs) = <<>>
    BY <1>1, OnlyJob
  <2>2. CASE RunTxChecked(j)
    <3>1. UNCHANGED <<chain, validatorSet, currentValidator>>
      BY <2>2 DEF RunTxChecked
    <3>2. \/ jobs' = Tail(jobs)
          \/ \E n : jobs' = Append(Tail(jobs), n) /\ n.b.validator = Self /\ CurrentValidator = Self
      BY <2>2 DEF RunTxChecked, BlockCreated
    <3>3. MaxBatch = 1 => \A i \in DOMAIN jobs' :
              jobs'[i].b.validator = Self /\ CurrentValidator = Self
      BY <2>1, <3>2, OnlyOne
    <3> QED
      BY <3>1, <3>3, TurnStays
  <2>3. CASE RunBlockCreated(j)
    <3>1. UNCHANGED <<chain, validatorSet, currentValidator>>
      BY <2>3 DEF RunBlockCreated, consensusVars
    <3>2. jobs' = Tail(jobs) \/ jobs' = Append(Tail(jobs), BlockSigned(j.b))
      BY <2>3 DEF RunBlockCreated
    <3>3. MaxBatch = 1 => j.b.validator = Self /\ CurrentValidator = Self
      BY <2>0, <2>3 DEF RunBlockCreated, TurnInv, OwnInTurn, Own
    <3>4. BlockSigned(j.b).b = j.b
      BY DEF BlockSigned
    <3>5. MaxBatch = 1 => \A i \in DOMAIN jobs' : jobs'[i] = BlockSigned(j.b)
      BY <2>1, <3>2, OnlyOne
    <3> QED
      BY <3>1, <3>3, <3>4, <3>5, TurnStays
  <2>4. CASE RunBlockSigned(j)
    <3>1. j.kind = "blockSigned" /\ MaxBatch = 1
      BY <2>0, <2>4 DEF RunBlockSigned, NothingSigned
    <3>2. j.b.validator = CurrentValidator /\ j.b \in Block
      BY <2>0, <3>1 DEF TurnInv, OwnInTurn, Own, Job
    <3>3. RoundRobin' /\ TurnKept'
      BY <2>4, <3>2, TurnPasses DEF RunBlockSigned, TurnInv
    <3>4. jobs' = <<>>
      BY <2>1, <2>4, <3>1 DEF RunBlockSigned
    <3> QED
      BY <3>3, <3>4 DEF TurnInv, OwnInTurn
  <2>5. CASE RunBlockAdopted(j)
    <3>1. j.kind = "blockChecked" /\ j.b.validator = CurrentValidator
      BY <2>5 DEF RunBlockAdopted, Accepts
    <3>2. j.b \in Block
      BY <2>0, <3>1 DEF Job
    <3>3. RoundRobin' /\ TurnKept'
      BY <2>5, <3>1, <3>2, TurnPasses DEF RunBlockAdopted, TurnInv
    <3>4. MaxBatch = 1 => jobs' = <<>>
      BY <2>1, <2>5 DEF RunBlockAdopted
    <3> QED
      BY <3>3, <3>4 DEF TurnInv, OwnInTurn
  <2>6. CASE RunBlockVoted(j) \/ RunBlockRejected(j) \/ RunPostSigned(j)
    <3>1. UNCHANGED <<chain, validatorSet, currentValidator>> /\ jobs' = Tail(jobs)
      BY <2>6 DEF RunBlockVoted, RunBlockRejected, RunPostSigned, consensusVars
    <3>2. MaxBatch = 1 => DOMAIN jobs' = {}
      BY <2>1, <3>1
    <3> QED
      BY <3>1, <3>2, TurnStays
  <2> QED
    BY <1>1, <2>2, <2>3, <2>4, <2>5, <2>6 DEF RunJob
<1>2. CASE \E batch \in Batches : Deliver(batch)
  <2>1. UNCHANGED <<chain, validatorSet, currentValidator>>
    BY <1>2 DEF Deliver, consensusVars
  <2>2. \A i \in DOMAIN jobs' : ~Own(jobs'[i])
    BY <1>2, DeliveredJobs DEF Own
  <2> QED
    BY <2>1, <2>2, TurnStays
<1>3. CASE \E t \in Txs, wellFormed \in BOOLEAN : PostTransaction(t, wellFormed)
  <2>1. PICK t \in Txs : /\ UNCHANGED <<chain, validatorSet, currentValidator>>
                         /\ jobs = <<>> /\ (jobs' = jobs \/ jobs' = <<PostSigned(t)>>)
    BY <1>3 DEF PostTransaction, consensusVars
  <2>2. \A i \in DOMAIN jobs' : jobs'[i] = PostSigned(t)
    BY <2>1
  <2>3. ~Own(PostSigned(t))
    BY DEF Own, PostSigned
  <2> QED
    BY <2>1, <2>2, <2>3, TurnStays
<1>4. CASE UNCHANGED vars
  <2>1. UNCHANGED <<chain, validatorSet, currentValidator, jobs>>
    BY <1>4 DEF vars
  <2> QED
    BY <2>1, TurnStays DEF TurnInv, OwnInTurn
<1>5. CASE Restart
  <2>1. /\ Len(chain') = 1 /\ DOMAIN jobs' = {} /\ validatorSet' = InitValidators
        /\ currentValidator' = 0
    BY <1>5 DEF Restart
  <2>2. InitValidators # <<>> => 0 = 0 % Len(InitValidators)
    BY ConfigAssumption
  <2> QED
    BY <2>1, <2>2 DEF TurnInv, RoundRobin, TurnKept, OwnInTurn
<1>6. CASE \/ \E v \in {b.validator : b \in WireBlocks} : AddValidator(v)
           \/ \E i \in DOMAIN validatorSet : RemoveValidator(i) \/ RemoveFromValidatorSet(i)
  BY <1>0, <1>6 DEF AddValidator, RemoveValidator, RemoveFromValidatorSet
<1> QED
  BY <1>1, <1>2, <1>3, <1>4, <1>5, <1>6 DEF Next

\* While nobody edits the validator set, every block of the chain is by the
\* validator whose turn it was, however many messages a tick brings, as long as
\* either no own block is ever signed or nothing runs beside its signature.
THEOREM TurnsAlwaysKept ==
    ASSUME MaxAdmin = 0, IdIsPem => MaxBatch = 1
    PROVE  Spec => []RoundRobin
<1>1. TurnInv => RoundRobin
  BY DEF TurnInv
<1>2. Init => TypeOK /\ OneJob /\ NothingSigned /\ TurnInv
  BY InitType, InitOneJob, InitTurn
<1>3. TypeOK /\ OneJob /\ NothingSigned /\ TurnInv /\ [Next]_vars
      => TypeOK' /\ OneJob' /\ NothingSigned' /\ TurnInv'
  BY NextType, NextOneJob, NextTurn
<1> QED
  BY <1>1, <1>2, <1>3, PTL DEF Spec
=============================================================================
