# Verification of the DLT node and its libraries

TLA+ models of the TypeScript system under `src/`, TLC configurations that check
them on small instances, and TLAPS proofs of the properties that matter most.
Paths in this file are relative to `src/src/` unless they say otherwise.

    tlc -workers 2 -config node_receive.cfg MCDLTNode     # a run
    tlapm DLTNode_proofs.tla                              # a proof module

## 1. The system

The repository has two entry points and a large library that neither uses whole.

* `index.ts` (`npm start`) runs one node: `core/Node.ts` owns a chain and a pool,
  `consensus/ConsensusEngine.ts`, `core/Validator.ts`, `network/NetworkManager.ts`
  and `api/Server.ts`. This is the program's core and is modelled first and whole.
* `app.ts` wires a second platform: `core/consensus/poa.ts`,
  `core/blockchain/Blockchain.ts`, contracts, permissions, audit trail,
  tokenization, marketplace and payments behind `core/api/APILayer.ts`.
* `core/blockchain/Ledger.ts`, the pools of `core/transaction`, the fault
  tolerance parts of `core/consensus` and others are exported for users of the
  package; no entry point constructs them, and they are not wired to each other.

There is no test suite (`test.js` is a demonstration); `src/dist` is build output.

### Inventory

| component (source) | state | operations | interacts by | what is hard |
|---|---|---|---|---|
| DLTNode (`core/Node.ts`) | chain, pending transactions | receive transaction or block, submit, add block | awaits on engine and validator; callbacks of the network | the handlers of one socket chunk start in one tick and continue after each other: state read before an `await` is used after it; own blocks share the pool's array |
| ConsensusEngine of the node (`consensus/ConsensusEngine.ts`) | turn, round, votes, shared validator list | propose, validate, vote, edit the set | called by DLTNode | a vote map that is cleared per block, turn and list that move apart |
| Validator, Block, Transaction (`core/`) | the shared validator list | validity predicates, edits of the set | called by both | two owners of one list |
| NetworkManager (`network/`) | sockets, peers | listen, dial, dispatch, broadcast, ping, shut down | callbacks into DLTNode | messages of one chunk are dispatched without yielding; sockets that open late, are dialled again or die unheard |
| ProofOfAuthority (`core/consensus/poa.ts`) | validator list, turn, open votes | vote, count, take turns, edit the set | events out, `addVote` in | order, loss and repetition of votes across nodes |
| AuditTrail (`core/audit/AuditTrail.ts`) | entries, last hash, database records, pointer | `logEvent`, load, trim | Level database, two writes per entry | overlapping callers, a load nobody awaits, death between the writes, rejected writes |
| Ledger (`core/blockchain/Ledger.ts`, `block.ts`) | blocks by hash and by number, accounts | `addBlock` | offered blocks | a block refused half way must leave no trace; nonces within and across blocks |
| TransactionPool, EnhancedTransactionPool (`core/transaction`) | pending and processed transactions, index by account, nonce tracker, blacklist | admit, evict, expire, process, reconfigure | called by block builders | records of one fact that many operations change; limits lowered under a full pool |
| AutomaticFailover (`core/consensus`) | nodes, health, leader, timers | health reports and checks, election, recovery | timers, callbacks | outcomes that arrive after the node changed or left; failures in the middle of a check |
| NetworkPartitionHandler | nodes, partition, timers | heartbeats, check, recovery, resolution | timers | an untracked loop that survives the partition it was started for |
| ConsensusRecovery | mode, stage, attempts | the chain of stages, emergency mode, reset | timers | a reset or completion leaves timers of the earlier recovery behind |
| ByzantineFaultTolerance | evidence, accusations, slashings, jail, reputation | accuse, slash, jail, release, clean up | called from outside | several maps about one validator changed apart |
| FaultTolerantConsensus | round, phase, health, recovery mode, timers | rounds, health check, recovery | timers | a timer overwritten and never cleared; delays that outlive `stop` |
| core ConsensusEngine (`core/consensus/ConsensusEngine.ts`) | round, phase, votes, validator list | round timer, proposals and votes handed in, edits of the set | timers, called from outside | an outcome decided by votes that come late, twice, or from validators removed since |
| ValidatorHealthMonitor | health records, alerts | record success and failure, check, clean up | called from outside, a timer | alerts that follow a record kept apart from them |
| Blockchain (`core/blockchain/Blockchain.ts`) | chain, pending transactions | load, submit, mine | `app.ts`, the domain ledgers | mining never ends (section 6) |
| CacheLayer, DatabaseOptimizer | entries and their order of use; connections, cached queries | get, set, evict, expire; query, pool | called from outside, timers | two records of one cache; a connection held across an `await` |
| ParallelProcessor, ShardingManager | tasks, queue, workers; shards, routes | run, retry, restart; assign, rebalance | timers, answers of workers | a late answer of a worker replaced meanwhile; two rebalancings at once |
| PerformanceMonitor | samples, alerts, profiles | record, check, profile, clean up | timers | samples trimmed under what was made from them |
| SmartContractEngine, ContractExecutionEngine, ContractStateManager, GasMeter | contracts and balances; calls and their counts; storage, snapshots, history; price, refunds | deploy, call; update, snapshot, restore, reset; charge, refund | called from outside | snapshots that alias live state; deployments that begin together; calls counted after a reset |
| EnhancedLedger, HighPerformanceLedger, contract deployment, security scan | accounts, caches, code | blocks, calls, scans | called from outside | section 7 |
| PermissionManager, AccessControl, RBACManager (`core/accesscontrol`, `core/compliance`, `auth`) | users, roles, permissions, sessions, rate counts | create, assign, grant, check, authenticate | called from outside, middleware | lists shared by reference; caches and copies of permissions |
| AMLSystem, KYCSystem, ComplianceReporting with RegulatoryDashboard | analyses, alerts, verifications, reports | analyse, verify, approve, report | timers, called from outside | decisions that must follow the evidence; statistics of another shape than their reader expects |
| SmartContractAutomation (`core/automation`) | contracts, templates, payrolls | create, sign, activate, pay | awaited log entries and payments | overlapping payrolls; a contract replaced after an `await` |
| domain ledgers (`core/financial`, `core/identity`, `core/supplychain`, `core/digitalgov`) | records with a status | life-cycle steps | a Blockchain each | a step that fails after the ledger took it |
| tokenization, marketplace, payments, `APILayer`, cryptography | assets, orders, accounts | transfer, order, pay; routes; pure functions | `APILayer` | section 7 |


`PROJECT.json` names every component with its sources and says which are
modelled, and lists every hazard with its line and the properties that watch it.

## 2. The modules

| module | models | composed or checked by |
|---|---|---|
| `DLTNode` | the running node with engine, validator, network and API | `MCDLTNode` |
| `DLTNode_proofs` | theorems of `DLTNode` | |
| `ProofOfAuthority`, `ProofOfAuthority_proofs` | several nodes running `poa.ts` over a channel | `ProofOfAuthority` |
| `AuditTrail`, `AuditTrail_proofs` | the trail, its database and their crashes | `AuditTrail` |
| `Ledger` | accounts and blocks | `MCLedgerAndPools` |
| `AbstractPool` | what both pools promise | refined by both |
| `TransactionPool` | the basic pool | `MCLedgerAndPools`, refines `AbstractPool` |
| `EnhancedTransactionPool` | the pool with limits, policies and spam protection | `MCLedgerAndPools`, refines `AbstractPool` |
| `LedgerAndPools_proofs` | theorems of the ledger and of both pools | extends `MCLedgerAndPools` |
| `AutomaticFailover`, `NetworkPartitionHandler`, `ConsensusRecovery`, `ByzantineFaultTolerance` | the fault-tolerance parts | `MCFaultTolerance` |
| `FaultTolerantConsensus` | the rounds and the recovery mode of one node | `MCFaultTolerance` |
| `FaultTolerance_proofs` | theorems of these five | extends `MCFaultTolerance` |
| `PermissionManager`, `AccessControl`, `RBACManager` | who may do what, three times over | `Services` |
| `CacheLayer`, `PerformanceMonitor` | the performance layer | `Services` |
| `DatabaseOptimizer`, `ShardingManager`, `ParallelProcessor` | its connections, its shards, its tasks and workers | `Services` |
| `AMLSystem`, `KYCSystem`, `ComplianceReporting` | compliance: analyses, verifications, reports and the dashboard | `Services` |
| `NetworkManager` | several nodes' sockets and peer tables | `Services` |
| `ValidatorHealthMonitor` | the unused monitor of `core/consensus` | `Services` |
| `ConsensusEngine` | the unused engine of `core/consensus` | `MCServices` |
| `BlockSelection` | the choice of a block's transactions; extends `EnhancedTransactionPool` | `MCServices` |
| `SmartContractEngine`, `ContractExecutionEngine`, `ContractStateManager` | contracts | `MCServices` |
| `GasMeter` | the price and the refunds of gas | `MCServices` |
| `SmartContractAutomation` | contracts and payrolls | `MCServices` |
| `SecureFinancialLedger` | the chain of `app.ts` with the ledger that extends it | `MCServices` |
| `Services` | the thirteen services above it side by side | `MCServices` extends it with the eight others |
| `Services_proofs` | theorems of these thirteen | extends `Services` |
| `AllServices_proofs` | theorems of the eight others, and of all together | extends `MCServices` and `Services_proofs` |
| `Maps` | partial functions (`Put`, `Get`, `Drop`), what a filter leaves of a list (`Kept`), sums | the services |

The modules `MCLedgerAndPools`, `MCFaultTolerance`, `Services` and `MCServices` instantiate their
parts with constants of their own, to which only the `.cfg` gives values; the theorems about
the parts are therefore about the properties the runs check, for all values. The services take
their helpers from `Maps` and none from a library: a proof about an instance carries every
definition the instance has.

Operators whose comment begins with `Mutant of` are deliberate bugs: each stands
before the definition it spoils, and `PROJECT.json` says which property a run
finds violated when it takes that definition's place.

### DLTNode

JavaScript runs one handler at a time, up to an `await`; the rest of it is queued.
`jobs` is that queue of continuations and `Deliver(batch)` is one socket chunk:
the handlers of all its messages start, in order, before any continues.

| source | model |
|---|---|
| `DLTNode.blockchain`, `pendingTransactions` | `chain`; `arrays`, whose last element is the pool. An own block holds a reference (`arr`) to the pool's array, so later pushes show up in it until `addBlockToChain` replaces the array by a filtered copy |
| `handleNewTransaction` to its `await` | `Handler`, then `RunTxChecked`, which pushes and may propose |
| `createBlock`, `sign` | `RunBlockCreated`, `RunBlockSigned`: signing throws unless the id is a PEM key (`IdIsPem`) |
| `handleNewBlock`, `validateBlock`, `addVote` | `Accepts` on the tip read at arrival, then `RunBlockAdopted`, `RunBlockVotedByAuthor`, `RunBlockVoted`, `RunBlockRejected` |
| `POST /transactions` | `PostTransaction`, `RunPostSigned` |
| `addValidator`, `removeValidator`, `Validator.removeFromValidatorSet` | `AddValidator`, `RemoveValidator`, `RemoveFromValidatorSet`, on one shared list |
| a new process | `Restart`: nothing is persisted |

A hash is the record of what was hashed, so hashing is injective. Peers may send
any of `WireBlocks` and `Txs` any number of times: nothing under `src/` connects to
a peer or broadcasts a block, so peers are the environment.

### ProofOfAuthority

One state per node, votes in a set that the channel delivers in any order, late or
never, and twice if `Repeats`. `pendingVotes` counts approvals and rejections,
which is all `checkConsensus` reads. `RequiredVotes`, `Tally` and `Outcome` are
`checkConsensus`; `AddVote` includes the deletion of the entry once decided.

### AuditTrail

`logEvent` is cut where it suspends: `LogEvent` (check), `AppendEntry` (push and
trim), `PutEntry`, `PutLast`; `PutFails` rejects either write. `LoadLast` is the
load the constructor starts without awaiting, `Restart` a death at any point, with
the database as it stands. How callers overlap is the constant set `Disciplines`.

### Ledger and pools

`AddBlock` is the synchronous `addBlock` with all its checks; account maps are
copied and replace the ledger's own only at the end, as in the code. The pools have
one action per method; `EnhancedTransactionPool` keeps the order of the `Map`
(`place`) because eviction and FIFO selection depend on it, and time as a bounded
clock. A FIFO eviction that finds every transaction added in the current
millisecond never ends: `AddTransactionSpins` sets `spinning`, and nothing
follows.

### Fault tolerance

Delays are configuration, so pending timers fire in any order: each module keeps
the timers that are pending as counters or sets, and one action per callback.
Handlers that call each other are functions from a record of the state
(`Now`) to the record after them, and `Become` installs the result, so that one
action is one whole handler. `FaultTolerantConsensus` can only time out its rounds:
`getPendingTransactions` returns nothing, so no block is proposed and no vote
comes in.

### Network

Each socket has two ends that open, close and fail apart. The listening end has
listeners for messages and for its end; the dialling end has none once it is
open, so it keeps its entry for ever and hears nothing. `netSent` numbers the
broadcasts and `netReceived` counts what arrives where.

### Services

The other parts call neither the node nor one another and share no state. Each is
a module with one action per operation, cut where the code awaits, and one per
timer. `MCServices`, with those of `Services`, explores them one at a time: `part` is chosen at the start and
never changes, the other parts stay at their first state, and an invariant of a
part is guarded by `part = "..."` where other parts' first states make it hold
for nothing. Each of its properties collects what one kind of hazard means in
each part:

| property | of the parts |
|---|---|
| `CopiesAgree` | `HistoryIsAnalysed` (AML), `EvictionKeepsUp`, `OrderHasNoStrays` (cache), `RoutedIsMember`, `RangesAreRoutes` (shards), `CacheReads` (database), `AlertsWatchRecords`, `SummaryIsOfSamples` (monitor), `DashboardCountsAll` (reporting), `HistoryIsOfTransitions`, `SizeIsLimited` (contract state), `RefundIsOfLastRecord` (gas), `SupplyIsKept` (contracts), `CountsAgree`, `StorageWithinNonce` (execution), `IncomingIsOpen` (network) |
| `LimitsHold` | `EachTaskOnce`, `WaitingIsQueued` (processor), `RebalancingEnds` (shards), `ConnectionsExclusive` (database), `PriceIsLimited` (gas), `RateIsLimited` (RBAC) |
| `AuthorityKept` | `PermissionsMatchRoles`, `LockedByAttempts` (access), `AuthorityIsGranted` (permissions), `CacheFollowsRoles` (RBAC) |
| `DecisionsFollow` | `NothingBlockedKept`, `FrequencyCloses` (AML), `PipelineDecides`, `LimitAppliesByHandOnly` (KYC), `PaymentsAreReported`, `TypedWhenMade` (automation), `TransactionsUnscored` (reporting), `LedgerHasTheCompleted` (financial), `OneOutcome` (engine), `FailuresAreAlerted` (health), `HeardOneWay` (network), `BlockIsExecutable`, `BlockWithinLimits` (selection) |
| `EndsAreKept` | `FinishedForGood` (processor), `SignaturesKept` (automation), `AccessEndsOnce` (access), `ApprovalSticks` (reporting) |

## 3. Runs

| run | instance | shows |
|---|---|---|
| `node_receive` | 3 validators, one message per tick, all turns and five kinds of refused block | the chain is linked, in turn order, and grows while peers offer blocks |
| `node_batch` | 1 validator that can sign, two messages per tick, 4 transaction objects, one edit, one restart | no transaction is both waiting and in the chain, blocks in the chain are frozen in spite of aliasing, nothing leaves the pool but into the chain |
| `node_live4` (violated) | 4 validators | with four or more, no block is ever adopted |
| `node_burst` (violated) | two blocks in one tick | both are checked against one tip and both are appended |
| `poa_votes` | 3 validators, 4 voters, 2 collecting nodes, one block, one edit | decisions agree, come once, and come |
| `poa_repeat` (violated) | votes may be delivered twice | one voter makes a majority |
| `audit_trail` | 4 events, batch of 2, keep 2 then 1, two restarts, one rejected write, serial and overlapping callers | memory and database stay linked; nothing acknowledged is cut off |
| `audit_startup` (violated) | one call before the load resolves | the trail is broken from its second entry on |
| `ledger_pools` | 5 transfers, 4 blocks of up to 2; pool of 4 transactions, 4 configurations | funds and nonces, one chain by number and by hash, the index, nonce order, capacity, the abstract pool |
| `fault_tolerance` | 2-node failover, 3-node partition, recovery pipeline, one accused validator, rounds of 3 validators | recoveries are carried on by a timer, one leader, sides kept, jail on record, rounds go on and wait for recovery |
| `bft_double_sign` (violated) | 2 validators, 2 rounds, 2 blocks | no double signing is ever detected |
| `services` | 21 parts, two of whatever may compete (sockets, accounts, workers, connections, payrolls, sweeps) | copies agree, limits hold, authority follows the roles, decisions follow the evidence, and what has ended stays ended |

A violated run checks what a comment or the README of the program says; the finding
in `PROJECT.json` quotes it.

**Bounds.** They are constants named in each module (`Max...`) and in the guards.
Three validators give every position of a turn (first, next, wrap around) and make
two votes a majority; four is the first size at which the vote map cannot reach
the quorum. Two messages per tick are enough for a read before an `await` to
become stale. Two pool arrays and four objects let an own block share the pool's
array while both grow. Four audit events with a batch of two and a trim at three
give a trim, a pointer write and an entry after both; two restarts let a restart
meet what the first one left. Two stray timers of each kind let an old
timer meet a new one. The ledger's transfers include competing nonces, a
transfer to oneself, an unknown receiver and gas that cannot be paid. In `services`
each part has two of what its hazard needs two of: two queries and two connections, two
workers and a third record for a replaced one, one key more than a cache holds, two
sockets between two nodes, two accounts that share a role list, two payrolls of
one contract, three transactions of two senders for a block. Sizes are in small units,
and the choices the other parts start with are fixed, which the comments of `MCInit`
say. `Deadlock` is off where all bounds can be used up, and in `services` because a
ledger that mines hangs.

**Fairness.** `node_receive` and `node_live4`: weak fairness of `RunJob` is the event
loop, which always runs the next continuation; strong fairness of each block's
delivery says that peers which still hold a block keep offering it (strong,
because delivery is only possible each time the queue has drained). `poa_votes`:
validators asked to vote do so and the channel delivers what was cast; a run of
the liveness property with an edit is excused. All other runs check safety only.

## 4. Proofs

Theorems hold for every value of the constants allowed by the modules' named
assumptions (`ConfigAssumption`, `LedgerAssumption`, `BoundAssumption` and so on, which
TLC evaluates in the runs). Where a theorem needs more, its `ASSUME` says what, and a
run or a finding shows why.

* **DLTNode** — `TypeCorrect`, `PoolApartFromChain`, `ContentsFrozen`,
  `PoolLeavesToChain`. The argument is about aliasing. `ArrInv`: a block of the
  chain only refers to arrays the pool has left, a block still in the queue may
  refer to the current one. `FreshInv`: transaction objects built from the wire are
  numbered, used once, and apart from those that blocks bring along, so the object a
  continuation is about to push is in no array yet. With both, every step either
  leaves chain and arrays alone, pushes into the current array, or adds a block
  and replaces the array (`JobShape`), and none of the three touches what the chain
  holds.
  `ChainAlwaysLinked` assumes one message per tick and a node that cannot sign: then
  at most one continuation is queued (`OneJob`), and a block that was checked still
  builds on the tip. `node_burst` shows that two messages are too many; own blocks,
  which a node that signs would append, have no `previousHash` (section 6).
  `TurnsAlwaysKept` assumes that nobody edits the validator set, and one message per
  tick only if the node signs.
* **ProofOfAuthority** — `TypeCorrect` (no sequence of edits makes a list name a node
  twice) and `TurnCorrect` without conditions; `DecidesOnce` and `AgreementHolds` when
  no vote is delivered twice and each validator is asked once per block
  (`OnceEach`; `poa_repeat` shows what happens otherwise). Each tally is bounded by the
  votes delivered, so a decision has a quorum of voters behind it; two quorums
  have more votes than there are validators.
* **AuditTrail** — `TypeCorrect`; `ChainAlwaysIntact` by the invariant `TypeOK /\ (Quiet
  => QuietInv)`: at most one call stands between its check and its push, what it
  has built is linked to the last hash, and the last hash is the last entry's;
  `PointerAlwaysHasRecord` by `PointerInv`, which no discipline is needed for.
  `AcknowledgedNeverFork` and `StoreAlwaysChained` are about serial callers, whatever
  dies: every record of the database is linked to one that was the last hash when
  it was built (`LastHashFollows`), and only the newest may miss its pointer.
* **Ledger** — `ChainAlwaysLinked`: `ChainLinked` with the lengths of hashes (a hash
  contains its parent's, so a new block's is longer than all known ones and
  overwrites none). `NoncesAlwaysInOrder` and `FundsAlwaysAccounted` by the invariant
  `Books`, a relation between the accounts and the transactions of the chain, each at
  its place: it is kept by one transaction at a later place (`ExecuteKeeps`), hence
  by the loop of a block (`ProcessAllKeeps`), hence by `addBlock`. Money needs that a
  sum does not depend on the order in which it is taken (`SumExtended`,
  `SumChanged`). `PartsTypeCorrect` assumes that no amount is negative (`NoDebt`):
  the ledger itself does not, and with negative values balances may be.
* **EnhancedTransactionPool** — `TypeCorrect`, `IndexAlwaysExact`, `NonceAlwaysOrdered`,
  `ProcessedNeverBack` and `PoolImplementsAbstract`, from the invariant `TypeOK`,
  `IndexMatchesPending`, `ProtectedOn`, `TrackerAhead` and `NonceOrder`: while spam
  protection stays on, the tracker is ahead of every nonce it let in, so a new
  nonce is above all pending ones. `AdmissionAlwaysFits`: the order of eviction is a strict
  order under each policy, so what goes is as many as the excess, and an
  admission leaves the pool within limits lowered under it.
* **TransactionPool** — `BasicTypeCorrect` and `BasicPoolImplementsAbstract`, step by
  step; its eviction may take any transactions for these.
* **AutomaticFailover, NetworkPartitionHandler, ConsensusRecovery,
  ByzantineFaultTolerance** — `LeaderAlwaysOne`, `LeaderAlwaysWatched`,
  `SideAlwaysKept`, `RecoveryAlwaysCarriedOn`, `JailAlwaysHasRecord` and, of the first
  three together, `RecoveriesAlwaysCarriedOn`. Each handler is a function from record
  to record, and `Sound` (failover) and `PartitionInv` are what all of them
  keep. A health check visits the nodes in the order of their map and each may elect
  a leader on the way: `AfterTurnsSound` carries `Sound` through the list, and
  `LeaderAlwaysWatched` adds that the check after the last turn sees what they
  left. The hypotheses are about the constants only: priorities are bounded sets
  of naturals, a configuration asks for at least one active node, bounds are numbers.
* **FaultTolerantConsensus** — `RoundsAlwaysGoOn`, `RecoveryAlwaysHoldsRounds`. A
  validator's status follows the number of its failures, failures only grow, so
  the active set only shrinks and a detected partition never resolves
  (`DetectedLasts`); hence the branch of the partition check that would leave
  recovery mode without starting a round is never taken, and every other way out
  of a handler leaves a timer or stays in recovery.
  `FaultToleranceAlwaysTyped` adds the types, with those of the four parts above: of the
  places of the validators that may propose, one has as many before it as the round asks
  for (`PlaceOfRank`).

The properties of the services are theorems too: `AuthorityAlwaysKept`, `LimitsAlwaysHold`,
`CopiesAlwaysAgree`, `DecisionsAlwaysFollow`, `EndsAlwaysKept` and `ServicesAlwaysTyped`. A run of
`MCServices` is a run of one service, whose `Spec` the theorems are about. Each is put together from
one theorem per service (`...SpecHolds`, `TasksInOnePlace`), which has an inductive invariant of its
own; the service's `...Step` has one step per action.

* **AccessControl, PermissionManager, RBACManager** — any accounts, roles, permissions, limits
  and windows. `AccessInv`: a user's permissions are those of the role list he was made with
  or another user shares his list, since a change of the list rewrites one user's copy
  only; he is locked exactly when his failed attempts have reached the limit, which every
  way of counting them keeps (`AttemptKeeps`). `RBACInv`: the cache has an entry for each
  identity, it is what the identity's roles give and what the identity carries, which each of
  the operations has to bring about in all three places (`IdentitySetKeeps`). `RateInv` relates
  the counter of an identity and role to the requests let through: those since its window
  began are no more than its count, those in the window's length before that no more than
  the limit. Any stretch as long as a window meets at most two of these sets, so at most
  twice the limit passes, and at the edge of two windows it does.
* **ParallelProcessor** — every handler ends in `processNextTask`, so `TasksFit` and
  `RecordsFit` are about whatever tasks, queue, records and attempts it has left, and
  `TakingFits` goes on from there. Sorting the queue neither loses nor repeats a task because
  no two places have one rank (`RanksDiffer`, `SortedPermutes`). `RetriesInv` bounds the retries
  of each task and, by the set of what has been retried, the delays under way.
* **DatabaseOptimizer, ShardingManager** — `DatabaseInv`: a connection that a query holds, if
  it is still in the pool, is marked as used, so no other query is given it, though the pool may
  be emptied and filled while the query runs; `PlansInv`: the plans on their way are of indexes
  over their query's tables. `ShardsInv`: a shard is marked in the step in which a sweep comes to
  it, and of two that meet there the first to leave takes the mark along; the health check
  leaves marks alone. That ranges and routes agree (`RangesFollow`) is arithmetic: among as many
  shards as divide 256.
* **CacheLayer, PerformanceMonitor** — `CacheInv`: the order names cached keys once each whatever
  the policies were; while the policy is the first one its record is complete. `MonitorInv`: the
  timers that run are those the configuration asks for, so alerts are looked for only while
  records are taken, and samples go to the newest profile.
* **AMLSystem, KYCSystem, ComplianceReporting** — `AMLInv`: a user's history is the tail of the
  analyses kept of him; a transaction of one from whom the threshold of transactions of this
  hour is remembered is critical, so it is blocked and not remembered. `KYCInv`: a request is
  decided once, at the end of its pipeline, unless somebody writes to it. `ReportingInv`: what is
  filed is counted, at once, where it is shown.
* **NetworkManager** — `NetworkInv` follows every message: what is on its way to a node was sent
  by the one that dialled it, on one of its sockets only (`FlightsOnce`), and has not been
  received (`ReceivedOnce`), because a table has one entry per address dialled.
* **ValidatorHealthMonitor** — `HealthInv`: every call that measures looks for alerts, so who was
  seen in this interval has those its metrics call for (`AlertsFollow`).
* **SmartContractAutomation** — contracts are numbered as they are made, so none takes another's
  place while that one is being replaced after an `await`; an employee was paid as often as
  there are payrolls that are paying him or have reported him (`PaymentsKept`).
* **SecureFinancialLedger** — `FinancialInv`: what is on the chain's list is there once
  (`OnLedgerOnce`), and a record of completion is of a transaction that stays completed, because
  no reversal is accepted.
* **ConsensusEngine of core/consensus** — `RoundsInv`: nobody is in the validator list or among
  the votes twice. Two outcomes would need two thirds of the members each, and two such sets
  have more members than there are.
* **BlockSelection** — `SelectionInv` is the invariant of `EnhancedTransactionPool` (proved again, as this
  module extends that one) with the order of places, which under spam protection is the order of
  nonces for each account. The loop that fills a block is a recursive function over places: it
  never passes the gas or the size, and by price it leaves out nothing that pays more than what
  it takes.
* **ContractStateManager** — `StateInv` holds for all the objects there are, since contracts and
  snapshots share them: each is over the limit by one key at most. A key's history is the
  values of the transitions that changed it: a transition adds the same key to both lists.
* **SmartContractEngine** — a transfer takes from one balance what it adds to another, and the
  sum of a function changed in two places follows from `SumChanged`; that to oneself changes none.
* **ContractExecutionEngine** — `ExecutionInv`: the counts agree in the present and in every
  snapshot that may be restored, and calls begun before add the same to both sides after.
* **GasMeter** — `GasInv`: the price never leaves the range from the lowest to the highest
  limit there was, whichever of them holds when it is adjusted (`PriceMoves`), and the best of
  the discounts is a percentage (`BestIsPercentage`). `UsageInv`: the last refunded record of a
  transaction in the history is the last there was, because the history is cut at its front.

`ServiceConstants` and `AllConstants` are what these assume of the constants: bounds are numbers, the
sets that are counted or summed are finite, and what the configuration must say for the code to make
sense. Every role may send at least one request, a task may be tried at least once, a cache holds one
key at least, a pool is filled with no more connections than it may have, a lowest price is
at most the highest one, a discount is from 0 to 100 percent, a node is one of the validators, alerts
of failures are among those kept, and a use of gas is of some gas, as that of every
transaction is (half of an odd limit, which a use of none would be refunded, is rounded up).
`services.cfg` gives values that satisfy both.

Loops and sums are recursive functions here, and the library's induction theorems cannot
be used with the installed provers. What a loop keeps is proved from the least
index at which it would fail (`LeastNatural`, from the well-foundedness of the
naturals), and that the recursive function exists in the same way, once for each loop.

In the same way `Maps` has the filter of a list as what stands at a set of its places (`Kept`) and
not by a test, and a sum as a function of the sets of its keys, so that both can be reasoned about:
a filter keeps the order and drops nothing that passes (`KeptIs`, `KeptOfKept` and the lemmas beside
them), and a sum changes with the value of one key by the difference (`SumChanged`).

**Only model-checked:** liveness (`ChainGrows`, `MajorityDecides`), because fairness and
`ENABLED` are out of the prover's reach. Every invariant and every other action property of a
passing run is stated by a theorem.

## 5. Plan

1. Done: the node, votes, audit trail, ledger and pools, the fault-tolerance parts,
   the services, and the theorems above.
2. Done: the services, with their types, copies and decisions, for all instances.
3. Models that could still be added: custom policies of `PermissionManager` and the
   reports kept by the security scan of contracts.

## 6. What the code does that a reader may not expect

Met while modelling; the first five are findings with a run, the others are
modelled as they are or leave nothing to model.

* Four or more validators adopt no block (`consensus/ConsensusEngine.ts:106`); a
  burst breaks the chain (`core/Node.ts:117`); a repeated vote counts twice
  (`core/consensus/poa.ts:79`); the trail is broken by a call before its load
  (`core/audit/AuditTrail.ts:44`); double signing goes unseen
  (`core/consensus/ByzantineFaultTolerance.ts:87`).
* The node: own blocks keep index 0 and an empty `previousHash`
  (`consensus/ConsensusEngine.ts:57`); the shipped configuration cannot sign, so the
  pool never drains; `POST /transactions` answers 500; the transactions of blocks
  that peers send stay in the pool, because they are other objects; a restart
  loses the chain; `Validator.ts:155` leaves the turn out of range.
* `poa.ts`: every proposed block has hash `''` and number 1; removing a validator
  leaves the turn and open votes as they are. `app.ts` never proposes.
* `Blockchain.ts`: mining compares 4 characters with 64 zeros and never ends.
* `Ledger`: a transfer to oneself is credited and not debited; neither
  `transactionsRoot` nor signatures are checked; `validateChain` is always false;
  `BlockBuilder` always writes `gasUsed` 0. `EnhancedLedger.addBlock` recomputes the
  hash from other fields and accepts no block.
* `EnhancedTransactionPool`: the nonce tracker is not lowered by an eviction, so an
  evicted transaction's nonce is gone; a FIFO eviction may spin for ever; the price
  policy may evict a dearer transaction than the one it makes room for.
* `FaultTolerantConsensus`: nothing refreshes `lastSeen`, so all validators end up
  failed; in recovery with too few of them it stays there (`:344`); `stop` leaves
  delays and recovery timers pending, and the rounds go on.
* `ConsensusRecovery`: emergency mode never ends by itself (`:75`, `:455`).
  `NetworkPartitionHandler`: both halves of an even split take themselves for the
  majority (`:225`). `AutomaticFailover`: a leader added again loses its flag, so its
  removal leaves `currentLeader` naming an absent node. `ByzantineFaultTolerance`:
  `|| 100` reads a reputation of 0 as 100. The core `ConsensusEngine` counts votes
  for different blocks together.
* `SmartContractEngine`: deploying with constructor arguments throws
  (`executeConstructor` passes no function name), so `TokenizationEngine` can create no
  asset and `AssetMarketplace` no order.
* `MpesaPaymentPlatform.registerAccount` always throws under this repository's
  `PermissionManager`.
* `NetworkManager`: the node that dials adds no listener for messages or for the end
  of its socket, so it hears neither welcome nor ping nor transaction, and two nodes
  hear one another only if each dialled the other. Entries of dead sockets
  stay; `lastSeen` never moves; dialling again leaves the earlier socket open,
  shutdown included; a socket that opens after the shutdown adds an entry.
* `EnhancedTransactionPool`: "older transactions get slight priority boost" subtracts
  the age (`calculateTransactionPriority`); by price or priority a later nonce may be chosen
  first, which the ledger refuses; the retry also counts what was never attempted.
* `SimpleBlock.mineBlock` (`:51`) makes `minePendingTransactions` and whatever calls it
  hang; a failed read of the stored chain writes a new genesis over it; pending
  transactions are in memory only.
* `SecureFinancialLedger`: a transaction whose audit entry fails is FAILED though the
  ledger has it; what is held is never released, reversals are always refused, and
  CRITICAL cannot be reached.
* Compliance: the AML statistics lack `totalTransactions`, so scores are NaN, the
  dashboard always POOR and the comprehensive report NON_COMPLIANT.
* Core `ConsensusEngine`: votes of removed validators count; a node's own votes are
  objects, which the check of their signature refuses.
* `ValidatorHealthMonitor`: the first failure of an unknown validator is recorded as a
  perfect record; silence is never alerted; `getPreviousStatus` is always null.
* `ContractStateManager`: without an encryption key it throws; snapshots are the live
  object; `setStorageValue` counts no new key's length and writes no history; a restore
  leaves no transition. `GasMeter`: lowering the maximum drops the price when demand is
  high. `ContractExecutionEngine`: calls begun before a reset or a restore are counted after
  it; a restored snapshot brings no contract back; the check for reentrancy reads a counter
  nobody counts; gas used is not compared with the limit. `SmartContractEngine`: deployments begun together by one deployer get one
  address and the last replaces the others; negative amounts are taken.
* `RBACManager` and its middleware: at the edge of two windows twice the limit passes; a
  change of role starts a new count; a signed request is taken again for five minutes.
  `PermissionManager`: a grant to one user of a role is a grant to all.
* `DatabaseOptimizer`: results are kept under the text of a query without its
  parameters; batch writes report success and write nothing. `SmartContractAutomation`:
  payrolls may overlap and pay twice, every employee is reported as unpaid, and the next
  pay date is a week away whatever the period.

## 7. Not modelled

Cryptography (hashes are injective, a signature is valid or not), wording, logging,
events without a listener in the package, getters and statistics. Priorities of
failover nodes are distinct; checkpoints of the recovery, on which no other state
depends, are left out. `APILayer` holds no state of the ledger.

Components without a reachable state to speak of, each because of a line of its own:

* tokenization and marketplace: no asset can be made (section 6);
* `MpesaPaymentPlatform`: no account can be registered;
* `IdentityKYCLedger`: it hands `addTransaction` an amount of 0, which throws, so no
  identity is registered; `SupplyChainLedger.registerProduct` (`:672`) does the same;
* `DigitalGovLedger`: `verifyRecord` (`:231`) and `transferLandOwnership` (`:321`) change
  their record and then call `addBlock`, which `Blockchain` does not have;
* `AuditTrailSystem.ts` does not parse, so it cannot be loaded;
* `HighPerformanceLedger` throws in its constructor; `EnhancedLedger.addBlock` accepts
  no block;
* `EnhancedTransactionValidator` verifies signatures with an address for a key and
  finds none valid; `TransactionValidator` is a predicate on one transaction.

* `ContractDeployment` calls `CryptoUtils.hash`, which does not exist, in every
  deployment and every request for approval.

The security scan of contracts matches patterns in source text and keeps reports of it.
