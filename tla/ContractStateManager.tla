-------------------------- MODULE ContractStateManager --------------------------
(***************************************************************************)
(* core/contracts/ContractStateManager.ts, made with an encryptionKey (without     *)
(* one the constructor throws).  A state is an object: an update stores the one it  *)
(* is given, setStorageValue and deleteStorageValue change the stored one in place,  *)
(* and a snapshot holds the very object it was taken of, so it shows every change      *)
(* until the next update or restore puts another object in its place.  A restore makes  *)
(* a copy.  Values are their lengths; compression and encryption are stubs that change   *)
(* nothing; time is in snapshotIntervals.                                                *)
(***************************************************************************)
EXTENDS Integers, Sequences, Maps

CONSTANTS
    Contracts,
    StorageKeys,
    KeyLength,
    Values,        \* lengths
    MaxStorage,    \* maxStorageSize
    MaxSnapshots,
    MaxObjects,    \* bound: state objects made
    MaxTime        \* bound: intervals

VARIABLES
    stateTime,
    objects,           \* the state objects made, in order: <<storage>>
    contractStates,    \* contract -> its object
    stateSnapshots,    \* contract -> <<[object, at]>>
    stateTransitions,  \* <<[contract, from, to]>>: two storages
    stateHistory       \* contract -> key -> <<value>>

stateVars == <<stateTime, objects, contractStates, stateSnapshots, stateTransitions, stateHistory>>

Init ==
    /\ stateTime = 0 /\ objects = <<>>
    /\ contractStates = Empty /\ stateSnapshots = Empty
    /\ stateTransitions = <<>> /\ stateHistory = Empty

Storages == UNION {[keys -> Values] : keys \in SUBSET StorageKeys}
StorageOf(c) == IF c \in DOMAIN contractStates THEN objects[contractStates[c]] ELSE Empty

\* calculateStateSize; the fields that stay the same are not counted.
StateSize(storage) == Sum([k \in DOMAIN storage |-> storage[k] + KeyLength])

\* calculateStateDiff, of the keys added or modified.
Changed(from, to) == {k \in DOMAIN to : k \notin DOMAIN from \/ from[k] # to[k]}

\* updateStateHistory
Extended(history, from, to) ==
    [k \in DOMAIN history \cup Changed(from, to) |->
        IF k \in Changed(from, to) THEN Append(Get(history, k, <<>>), to[k]) ELSE history[k]]

\* shouldCreateSnapshot
SnapshotDue(c) ==
    LET taken == Get(stateSnapshots, c, <<>>)
    IN  taken = <<>> \/ stateTime - taken[Len(taken)].at >= 1

\* What createSnapshot stores; cleanupOldSnapshots, after an update.
WithSnapshot(c, object) ==
    Put(stateSnapshots, c, Append(Get(stateSnapshots, c, <<>>), [object |-> object, at |-> stateTime]))
Cleaned(taken) == SubSeq(taken, IF Len(taken) > MaxSnapshots THEN Len(taken) - MaxSnapshots + 1 ELSE 1, Len(taken))

\* updateContractState with a new object or, changed by hand or not, the one stored.
UpdateContractState(c, object) ==
    LET to == objects'[object]
        snapshots == IF SnapshotDue(c) THEN WithSnapshot(c, object) ELSE stateSnapshots
    IN  /\ StateSize(to) <= MaxStorage
        /\ contractStates' = Put(contractStates, c, object)
        /\ stateTransitions' = Append(stateTransitions, [contract |-> c, from |-> StorageOf(c), to |-> to])
        /\ stateHistory' = Put(stateHistory, c, Extended(Get(stateHistory, c, Empty), StorageOf(c), to))
        /\ stateSnapshots' = Put(snapshots, c, Cleaned(snapshots[c]))
        /\ UNCHANGED stateTime

UpdateWithNew(c, storage) ==
    /\ Len(objects) < MaxObjects /\ objects' = Append(objects, storage)
    /\ UpdateContractState(c, Len(objects) + 1)

UpdateWithStored(c) ==
    /\ c \in DOMAIN contractStates /\ Len(stateTransitions) < MaxObjects
    /\ UNCHANGED objects
    /\ UpdateContractState(c, contractStates[c])

\* A new key's own length is not looked at.
SetStorageValue(c, k, value) ==
    /\ c \in DOMAIN contractStates
    /\ StateSize(StorageOf(c)) - Get(StorageOf(c), k, 0) + value <= MaxStorage
    /\ objects' = [objects EXCEPT ![contractStates[c]] = Put(@, k, value)]
    /\ UNCHANGED <<stateTime, contractStates, stateSnapshots, stateTransitions, stateHistory>>

DeleteStorageValue(c, k) ==
    /\ c \in DOMAIN contractStates /\ k \in DOMAIN StorageOf(c)
    /\ objects' = [objects EXCEPT ![contractStates[c]] = Drop(@, {k})]
    /\ UNCHANGED <<stateTime, contractStates, stateSnapshots, stateTransitions, stateHistory>>

\* createSnapshot by hand: the limit applies at the next update.
CreateSnapshot(c) ==
    /\ c \in DOMAIN contractStates /\ Len(Get(stateSnapshots, c, <<>>)) <= MaxSnapshots
    /\ stateSnapshots' = WithSnapshot(c, contractStates[c])
    /\ UNCHANGED <<stateTime, objects, contractStates, stateTransitions, stateHistory>>

\* The copy is of the object as it is now; no transition and no history tell of it.
RestoreFromSnapshot(c, i) ==
    /\ c \in DOMAIN stateSnapshots /\ i \in DOMAIN stateSnapshots[c] /\ Len(objects) < MaxObjects
    /\ objects' = Append(objects, objects[stateSnapshots[c][i].object])
    /\ contractStates' = Put(contractStates, c, Len(objects) + 1)
    /\ UNCHANGED <<stateTime, stateSnapshots, stateTransitions, stateHistory>>

DeleteSnapshot(c, i) ==
    /\ c \in DOMAIN stateSnapshots /\ i \in DOMAIN stateSnapshots[c]
    /\ stateSnapshots' = [stateSnapshots EXCEPT ![c] = Kept(@, DOMAIN @ \ {i})]
    /\ UNCHANGED <<stateTime, objects, contractStates, stateTransitions, stateHistory>>

\* clearContractState; clearAllStates does it for all of them.
Clear(contracts) ==
    /\ contractStates' = Drop(contractStates, contracts)
    /\ stateSnapshots' = Drop(stateSnapshots, contracts)
    /\ stateHistory' = Drop(stateHistory, contracts)
    /\ stateTransitions' = Kept(stateTransitions, {i \in DOMAIN stateTransitions : stateTransitions[i].contract \notin contracts})
    /\ UNCHANGED <<stateTime, objects>>

IntervalPasses ==
    /\ stateTime < MaxTime /\ stateTime' = stateTime + 1
    /\ UNCHANGED <<objects, contractStates, stateSnapshots, stateTransitions, stateHistory>>

Next ==
    \/ \E c \in Contracts :
        \/ \E storage \in Storages : UpdateWithNew(c, storage)
        \/ UpdateWithStored(c) \/ CreateSnapshot(c)
        \/ \E k \in StorageKeys :
            \/ \E value \in Values : SetStorageValue(c, k, value)
            \/ DeleteStorageValue(c, k)
        \/ \E i \in 1..(MaxSnapshots + 1) : RestoreFromSnapshot(c, i) \/ DeleteSnapshot(c, i)
        \/ Clear({c})
    \/ Clear(Contracts)
    \/ IntervalPasses

Spec == Init /\ [][Next]_stateVars

-----------------------------------------------------------------------------
TypeOK ==
    /\ stateTime \in 0..MaxTime /\ Len(objects) <= MaxObjects
    /\ \A i \in DOMAIN objects : objects[i] \in Storages
    /\ IsMap(contractStates, Contracts, DOMAIN objects)
    /\ DOMAIN stateSnapshots \subseteq Contracts
    /\ \A c \in DOMAIN stateSnapshots : \A i \in DOMAIN stateSnapshots[c] :
          stateSnapshots[c][i] \in [object : DOMAIN objects, at : 0..stateTime]
    /\ \A i \in DOMAIN stateTransitions : stateTransitions[i] \in [contract : Contracts, from : Storages, to : Storages]
    /\ DOMAIN stateHistory \subseteq Contracts
    /\ \A c \in DOMAIN stateHistory : \A k \in DOMAIN stateHistory[c] :
          k \in StorageKeys /\ \A i \in DOMAIN stateHistory[c][k] : stateHistory[c][k][i] \in Values

\* A state is over its limit by one key at most, the last that was set by hand,
\* however keys are set and deleted, and so is what any snapshot restores.
SizeIsLimited ==
    /\ \A c \in DOMAIN contractStates : StateSize(StorageOf(c)) <= MaxStorage + KeyLength
    /\ \A c \in DOMAIN stateSnapshots : \A i \in DOMAIN stateSnapshots[c] :
          StateSize(objects[stateSnapshots[c][i].object]) <= MaxStorage + KeyLength

\* A key's history is what the contract's transitions brought it, in their
\* order: of each the value it found to differ from the state as it was then,
\* with everything set by hand or restored between the two.
HistoryIsOfTransitions ==
    \A c \in Contracts : \A k \in StorageKeys :
        LET changes(t) == t.contract = c /\ k \in Changed(t.from, t.to)
            changing == Kept(stateTransitions, {i \in DOMAIN stateTransitions : changes(stateTransitions[i])})
        IN  Get(Get(stateHistory, c, Empty), k, <<>>) = [i \in DOMAIN changing |-> changing[i].to[k]]
=============================================================================
