------------------------------ MODULE AuditTrail ------------------------------
(***************************************************************************)
(* core/audit/AuditTrail.ts: a hash-linked log in memory, of which every    *)
(* entry is written to a Level database together with a pointer to the last *)
(* one.  logEvent suspends three times (before the push, and on each of the *)
(* two puts), the constructor starts the load of the last entry and does not *)
(* wait for it, and the process may die at any point.                       *)
(*                                                                         *)
(* How callers overlap is not the class's choice; `discipline' says it:     *)
(*   serial    a caller waits for the previous logEvent to settle           *)
(*   perTurn   calls overlap, but each starts in its own turn of the event  *)
(*             loop, so no two are between their check and their push       *)
(*   sameTurn  several are started in one turn, without an await between    *)
(***************************************************************************)
EXTENDS Integers, Sequences, FiniteSets

CONSTANTS
    Events,      \* the calls of logEvent (and of its log* wrappers), each made once
    Genesis,     \* the call of createGenesisAuditEntry
    Disciplines, \* the disciplines a run covers
    EagerStarts, \* {FALSE}, or with TRUE: callers that do not wait for the load
    Immutable,   \* this.isImmutable
    BatchSize,   \* 100 in the code
    KeepAbove,   \* 10000
    KeepLast,    \* 5000
    None,        \* no `last_audit_entry' in the database
    MaxRestarts, \* bound: deaths of the process
    MaxFaults    \* bound: rejected database writes

ASSUME CallsAssumption == Genesis \notin Events
ASSUME BatchAssumption == /\ BatchSize \in Nat \ {0} /\ KeepAbove \in Nat
                          /\ KeepLast \in Nat \ {0} /\ MaxRestarts \in Nat /\ MaxFaults \in Nat
ASSUME DisciplineAssumption == /\ Disciplines \subseteq {"serial", "perTurn", "sameTurn"}
                               /\ EagerStarts \subseteq BOOLEAN /\ Immutable \in BOOLEAN

VARIABLES
    entries,    \* this.entries
    lastHash,   \* this.lastHash
    store,      \* the `audit_<id>' records of the database
    lastStored, \* its `last_audit_entry' record
    start,      \* "loading" until initializeAuditTrail's db.get resolves
    found,      \* what that db.get will answer
    stage,      \* [call -> how far it is]
    built,      \* [call -> the entry it has built]
    boot,       \* how often the process has been restarted
    faults,     \* rejected writes so far
    discipline, \* how this run's callers overlap
    eager       \* whether they may call before the load is over

vars == <<entries, lastHash, store, lastStored, start, found, stage, built,
          boot, faults, discipline, eager>>

Calls == Events \cup {Genesis}
Stages == {"idle", "checked", "put", "putLast", "done", "refused", "failed", "lost"}
InFlight == {"checked", "put", "putLast"}

\* sha256 of an entry, by what tells entries apart: the call and the process
\* that made it.  Zero is the '0' the first entry is linked to.
Zero == <<>>
Hash == (Calls \X (0 .. MaxRestarts)) \cup {Zero}
Entry == [id : Calls, boot : 0 .. MaxRestarts, prev : Hash]

ASSUME NoneAssumption == None \notin Entry

\* Mutant of HashOf: the timestamp is left out of what is hashed.
HashOfUntimed(e) == <<e.id>>

HashOf(e) == <<e.id, e.boot>>

TypeOK ==
    /\ entries \in Seq(Entry)
    /\ lastHash \in Hash
    /\ store \in SUBSET Entry
    /\ lastStored \in Entry \cup {None}
    /\ start \in {"loading", "ready"}
    /\ found \in Entry \cup {None}
    /\ stage \in [Calls -> Stages]
    /\ built \in [Calls -> Entry]
    /\ boot \in 0 .. MaxRestarts
    /\ faults \in 0 .. MaxFaults
    /\ discipline \in Disciplines
    /\ eager \in EagerStarts

\* entries = [], lastHash = '0', and the db.get of initializeAuditTrail issued.
Init ==
    /\ entries = <<>> /\ lastHash = Zero
    /\ store = {} /\ lastStored = None
    /\ start = "loading" /\ found = None
    /\ stage = [c \in Calls |-> "idle"]
    /\ built = [c \in Calls |-> [id |-> c, boot |-> 0, prev |-> Zero]]
    /\ boot = 0 /\ faults = 0
    /\ discipline \in Disciplines
    /\ eager \in EagerStarts

-----------------------------------------------------------------------------
\* verifyAuditTrailIntegrity, from the second entry on.  Recomputing a hash
\* fails for a genesis entry only (its details are not the hashed ones), and
\* one that is not first fails the link already.
Linked(s) == \A i \in 2 .. Len(s) : s[i].prev = HashOf(s[i - 1])

Settled(c) == stage[c] \notin InFlight

\* Whether the callers' discipline lets a call start now.
MayStart ==
    /\ eager \/ (start = "ready" /\ Settled(Genesis))
    /\ discipline = "serial" => \A c \in Calls : Settled(c)
    /\ discipline = "perTurn" => \A c \in Calls : stage[c] # "checked"

Push(e) == /\ entries' = Append(entries, e)
           /\ lastHash' = HashOf(e)

\* addEntry up to its first suspension: the integrity check looks at the
\* entries of this moment, the push comes after the await.
Submit(c, e) ==
    /\ built' = [built EXCEPT ![c] = e]
    /\ IF Immutable /\ entries # <<>>
       THEN /\ stage' = [stage EXCEPT ![c] = IF Linked(entries) THEN "checked" ELSE "refused"]
            /\ UNCHANGED <<entries, lastHash>>
       ELSE /\ Push(e)
            /\ stage' = [stage EXCEPT ![c] = "put"]

\* logEvent: the entry is built on the last hash there is now.
LogEvent(c) ==
    /\ stage[c] = "idle"
    /\ MayStart
    /\ Submit(c, [id |-> c, boot |-> boot, prev |-> lastHash])
    /\ UNCHANGED <<store, lastStored, start, found, boot, faults, discipline, eager>>

\* initializeAuditTrail, when its db.get resolves: the entry found is taken as
\* the last one; when there is none a genesis entry is made, linked to '0'
\* whatever has been logged meanwhile.  It resolves in a turn of its own.
LoadLast ==
    /\ start = "loading"
    /\ \A c \in Calls : stage[c] # "checked"
    /\ start' = "ready"
    /\ IF found # None
       THEN Push(found) /\ UNCHANGED <<stage, built>>
       ELSE Submit(Genesis, [id |-> Genesis, boot |-> boot, prev |-> Zero])
    /\ UNCHANGED <<store, lastStored, found, boot, faults, discipline, eager>>

\* Mutant of AppendEntry: lastHash is moved only once the entry is stored.
AppendEntryOnly(c) ==
    /\ stage[c] = "checked"
    /\ entries' = Append(entries, built[c])
    /\ stage' = [stage EXCEPT ![c] = "put"]
    /\ UNCHANGED <<lastHash, store, lastStored, start, found, built, boot, faults, discipline, eager>>

\* addEntry after a successful check.
AppendEntry(c) ==
    /\ stage[c] = "checked"
    /\ Push(built[c])
    /\ stage' = [stage EXCEPT ![c] = "put"]
    /\ UNCHANGED <<store, lastStored, start, found, built, boot, faults, discipline, eager>>

\* db.put(`audit_<id>'): the key of a genesis entry is the same on every boot.
PutEntry(c) ==
    /\ stage[c] = "put"
    /\ store' = {s \in store : s.id # c} \cup {built[c]}
    /\ stage' = [stage EXCEPT ![c] = "putLast"]
    /\ UNCHANGED <<entries, lastHash, lastStored, start, found, built, boot, faults, discipline, eager>>

\* cleanupOldEntries, run when the length is a multiple of batchSize.
Kept(s) == IF Len(s) % BatchSize = 0 /\ Len(s) > KeepAbove /\ Len(s) > KeepLast
           THEN SubSeq(s, Len(s) - KeepLast + 1, Len(s)) ELSE s

\* Mutant of PutLast: the pointer is only moved once per batch.
PutLastPerBatch(c) ==
    /\ stage[c] = "putLast"
    /\ lastStored' = IF Len(entries) % BatchSize = 0 THEN built[c] ELSE lastStored
    /\ entries' = Kept(entries)
    /\ stage' = [stage EXCEPT ![c] = "done"]
    /\ UNCHANGED <<lastHash, store, start, found, built, boot, faults, discipline, eager>>

\* db.put('last_audit_entry'), then the event and the cleanup; logEvent returns.
PutLast(c) ==
    /\ stage[c] = "putLast"
    /\ lastStored' = built[c]
    /\ entries' = Kept(entries)
    /\ stage' = [stage EXCEPT ![c] = "done"]
    /\ UNCHANGED <<lastHash, store, start, found, built, boot, faults, discipline, eager>>

\* Mutant of PutFails: a rejected write of the record is swallowed.
PutFailsSilently(c) ==
    /\ stage[c] = "put"
    /\ faults < MaxFaults
    /\ faults' = faults + 1
    /\ stage' = [stage EXCEPT ![c] = "putLast"]
    /\ UNCHANGED <<entries, lastHash, store, lastStored, start, found, built, boot, discipline, eager>>

\* Either put rejects: logEvent throws, and the entry stays in memory.
PutFails(c) ==
    /\ stage[c] \in {"put", "putLast"}
    /\ faults < MaxFaults
    /\ faults' = faults + 1
    /\ stage' = [stage EXCEPT ![c] = "failed"]
    /\ UNCHANGED <<entries, lastHash, store, lastStored, start, found, built, boot, discipline, eager>>

\* Mutant of Restart: the new process does not look for a last entry.
RestartUnloaded ==
    /\ boot < MaxRestarts
    /\ boot' = boot + 1
    /\ entries' = <<>> /\ lastHash' = Zero
    /\ start' = "loading" /\ found' = None
    /\ stage' = [c \in Calls |-> IF c = Genesis THEN "idle"
                                 ELSE IF Settled(c) THEN stage[c] ELSE "lost"]
    /\ UNCHANGED <<store, lastStored, built, faults, discipline, eager>>

\* The process dies and a new one constructs the trail on the same database.
Restart ==
    /\ boot < MaxRestarts
    /\ boot' = boot + 1
    /\ entries' = <<>> /\ lastHash' = Zero
    /\ start' = "loading" /\ found' = lastStored
    /\ stage' = [c \in Calls |-> IF c = Genesis THEN "idle"
                                 ELSE IF Settled(c) THEN stage[c] ELSE "lost"]
    /\ UNCHANGED <<store, lastStored, built, faults, discipline, eager>>

Next ==
    \/ LoadLast
    \/ Restart
    \/ \E c \in Events : LogEvent(c)
    \/ \E c \in Calls : AppendEntry(c) \/ PutEntry(c) \/ PutLast(c) \/ PutFails(c)

Spec == Init /\ [][Next]_vars

-----------------------------------------------------------------------------
\* The trail in memory is what verifyAuditTrailIntegrity calls intact, so no
\* caller is ever turned away, whatever is still being written and however
\* often entries were trimmed or the process restarted, as long as no two
\* calls stand between their check and their push and none overtakes the load.
ChainIntact == (discipline # "sameTurn" /\ ~eager) => Linked(entries)

\* The pointer a restart goes by always names a record the database holds:
\* a death between the two puts loses the entry from the trail, never the trail.
PointerHasRecord == lastStored # None => lastStored \in store

\* The comment in addEntry, `Verify integrity before adding new entry', taken
\* at its word: what has been added always verifies.
IntegrityHeld == Linked(entries)

Acknowledged(s) == stage[s.id] = "done" /\ s.id # Genesis

\* With serial callers, two entries whose logEvent has returned are never
\* linked to the same entry: no acknowledged entry is cut off the trail by a
\* restart, a rejected write or a death between the puts.
NoAcknowledgedFork ==
    (discipline = "serial" /\ ~eager) =>
        \A s, t \in store : Acknowledged(s) /\ Acknowledged(t) /\ s # t => s.prev # t.prev

\* With serial callers and no rejected write, the database alone holds a whole
\* trail: what an entry is linked to is a record, or the start of the trail.
StoreIsChained ==
    (discipline = "serial" /\ ~eager /\ faults = 0) =>
        \A s \in store : s.prev = Zero \/ \E t \in store : HashOf(t) = s.prev
=============================================================================
