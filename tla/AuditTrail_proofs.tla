-------------------------- MODULE AuditTrail_proofs --------------------------
(***************************************************************************)
(* The integrity of the trail in memory, for any number of calls, restarts  *)
(* and rejected writes and any trimming parameters.                         *)
(*                                                                         *)
(* ChainIntact alone is not inductive: a push keeps the links only because  *)
(* the entry pushed was built on what is still the last hash.  QuietInv     *)
(* adds that, which needs that one call at most stands between its check    *)
(* and its push, and that nothing is logged while the last entry is loaded. *)
(***************************************************************************)
EXTENDS AuditTrail, SequenceTheorems, TLAPS

Quiet == discipline # "sameTurn" /\ ~eager

LastHashIsLast == entries # <<>> => lastHash = HashOf(entries[Len(entries)])

CheckedIsNext ==
    \A c \in Calls : stage[c] = "checked" => entries # <<>> /\ built[c].prev = lastHash

OneChecked ==
    \A c, d \in Calls : stage[c] = "checked" /\ stage[d] = "checked" => c = d

LoadsFirst == start = "loading" => entries = <<>> /\ \A c \in Calls : stage[c] # "checked"

QuietInv ==
    /\ Linked(entries)
    /\ LastHashIsLast
    /\ CheckedIsNext
    /\ OneChecked
    /\ LoadsFirst

IInv == TypeOK /\ (Quiet => QuietInv)

-----------------------------------------------------------------------------
LEMMA HashOfEntry == ASSUME NEW e \in Entry PROVE HashOf(e) \in Hash
  BY DEF HashOf, Hash, Entry

LEMMA ZeroIsHash == Zero \in Hash
  BY DEF Hash

LEMMA NewEntry ==
  ASSUME NEW c \in Calls, NEW b \in 0 .. MaxRestarts, NEW p \in Hash
  PROVE  [id |-> c, boot |-> b, prev |-> p] \in Entry
  BY DEF Entry

\* What addEntry pushes stays linked when it was built on the last entry.
LEMMA PushKeepsLinks ==
  ASSUME NEW s \in Seq(Entry), Linked(s), NEW e \in Entry,
         s # <<>> => e.prev = HashOf(s[Len(s)])
  PROVE  /\ Append(s, e) \in Seq(Entry)
         /\ Append(s, e) # <<>>
         /\ Linked(Append(s, e))
         /\ Append(s, e)[Len(Append(s, e))] = e
PROOF
  <1> DEFINE t == Append(s, e)
  <1>1. t \in Seq(Entry) /\ Len(t) = Len(s) + 1 /\ t[Len(s) + 1] = e
    OBVIOUS
  <1>2. \A i \in 1 .. Len(s) : t[i] = s[i]
    OBVIOUS
  <1>3. ASSUME NEW i \in 2 .. Len(t) PROVE t[i].prev = HashOf(t[i - 1])
    <2>1. CASE i = Len(s) + 1
      <3>1. s # <<>> /\ i - 1 = Len(s) /\ Len(s) \in 1 .. Len(s)
        BY <2>1, <1>1
      <3>2. t[i - 1] = s[Len(s)]
        BY <3>1, <1>2
      <3> QED BY <3>1, <3>2, <2>1, <1>1
    <2>2. CASE i # Len(s) + 1
      <3>1. i \in 2 .. Len(s) /\ i \in 1 .. Len(s) /\ i - 1 \in 1 .. Len(s)
        BY <2>2, <1>1
      <3>2. s[i].prev = HashOf(s[i - 1])
        BY <3>1 DEF Linked
      <3> QED BY <3>1, <3>2, <1>2
    <2> QED BY <2>1, <2>2
  <1> QED BY <1>1, <1>3 DEF Linked

\* cleanupOldEntries keeps a tail of the entries, so their links and the last.
LEMMA TrimKeepsLinks ==
  ASSUME NEW s \in Seq(Entry)
  PROVE  /\ Kept(s) \in Seq(Entry)
         /\ Linked(s) => Linked(Kept(s))
         /\ s # <<>> => Kept(s) # <<>> /\ Kept(s)[Len(Kept(s))] = s[Len(s)]
         /\ s = <<>> => Kept(s) = <<>>
PROOF
  <1> USE BatchAssumption
  <1>1. CASE Kept(s) = s
    BY <1>1
  <1>2. CASE Kept(s) # s
    <2> DEFINE d == Len(s) - KeepLast
               t == SubSeq(s, d + 1, Len(s))
    <2>1. Kept(s) = t /\ Len(s) > KeepLast
      BY <1>2 DEF Kept
    <2>2. d \in Nat /\ Len(s) \in Nat /\ d + 1 >= 1 /\ d + KeepLast = Len(s)
      BY <2>1
    <2>3. /\ t \in Seq(Entry)
          /\ Len(t) = KeepLast
          /\ \A i \in 1 .. KeepLast : t[i] = s[d + i]
      BY <2>1, <2>2
    <2>4. ASSUME Linked(s), NEW i \in 2 .. Len(t) PROVE t[i].prev = HashOf(t[i - 1])
      <3>1. i \in 1 .. KeepLast /\ i - 1 \in 1 .. KeepLast /\ d + i \in 2 .. Len(s)
            /\ d + (i - 1) = (d + i) - 1
        BY <2>2, <2>3
      <3>2. t[i] = s[d + i] /\ t[i - 1] = s[(d + i) - 1]
        BY <3>1, <2>3
      <3>3. s[d + i].prev = HashOf(s[(d + i) - 1])
        BY <3>1, <2>4 DEF Linked
      <3> QED BY <3>2, <3>3
    <2>5. t # <<>> /\ t[Len(t)] = s[Len(s)] /\ s # <<>>
      <3>1. KeepLast \in 1 .. KeepLast /\ KeepLast > 0
        OBVIOUS
      <3>2. t[KeepLast] = s[d + KeepLast]
        BY <3>1, <2>3
      <3>3. t[Len(t)] = s[Len(s)]
        BY <3>2, <2>2, <2>3
      <3>4. Len(t) # 0 /\ Len(s) # 0
        BY <3>1, <2>1, <2>2, <2>3
      <3>5. Len(<<>>) = 0
        OBVIOUS
      <3> HIDE DEF t
      <3> QED BY <3>3, <3>4, <3>5
    <2>6. Linked(s) => Linked(t)
      BY <2>4 DEF Linked
    <2> HIDE DEF t
    <2> QED BY <2>1, <2>3, <2>5, <2>6
  <1> QED BY <1>1, <1>2
-----------------------------------------------------------------------------
LEMMA CallType == /\ \A c \in Events : c \in Calls
                  /\ Genesis \in Calls
  BY DEF Calls

LEMMA InitTypeOK == Init => TypeOK
PROOF
  <1> SUFFICES ASSUME Init PROVE TypeOK
    OBVIOUS
  <1>1. 0 \in 0 .. MaxRestarts /\ 0 \in 0 .. MaxFaults
    BY BatchAssumption
  <1>2. built \in [Calls -> Entry]
    BY <1>1, ZeroIsHash, NewEntry DEF Init
  <1>3. stage \in [Calls -> Stages]
    BY DEF Init, Stages
  <1> QED BY <1>1, <1>2, <1>3, ZeroIsHash DEF Init, TypeOK

LEMMA InitQuietInv == Init => QuietInv
  BY DEF Init, QuietInv, Linked, LastHashIsLast, CheckedIsNext, OneChecked, LoadsFirst

\* Submit and Push put entries of the right type where they belong.
LEMMA PushType ==
  ASSUME TypeOK, NEW e \in Entry, Push(e)
  PROVE  entries' \in Seq(Entry) /\ lastHash' \in Hash
  BY HashOfEntry DEF Push, TypeOK

LEMMA SubmitType ==
  ASSUME TypeOK, NEW c \in Calls, NEW e \in Entry, Submit(c, e)
  PROVE  /\ entries' \in Seq(Entry) /\ lastHash' \in Hash
         /\ stage' \in [Calls -> Stages] /\ built' \in [Calls -> Entry]
PROOF
  <1>1. built' \in [Calls -> Entry]
    BY DEF Submit, TypeOK
  <1>2. stage' \in [Calls -> Stages]
    BY DEF Submit, TypeOK, Stages
  <1>3. entries' \in Seq(Entry) /\ lastHash' \in Hash
    BY PushType DEF Submit, TypeOK
  <1> QED BY <1>1, <1>2, <1>3

LEMMA NextTypeOK == TypeOK /\ [Next]_vars => TypeOK'
PROOF
  <1> SUFFICES ASSUME TypeOK, [Next]_vars PROVE TypeOK'
    OBVIOUS
  <1> USE BatchAssumption, CallType
  <1>1. CASE LoadLast
    <2>1. CASE found # None
      <3>1. found \in Entry /\ Push(found) /\ UNCHANGED <<stage, built>>
        BY <1>1, <2>1 DEF LoadLast, TypeOK
      <3> QED BY <1>1, <3>1, PushType DEF LoadLast, TypeOK
    <2>2. CASE found = None
      <3> DEFINE e == [id |-> Genesis, boot |-> boot, prev |-> Zero]
      <3>1. e \in Entry
        BY NewEntry, ZeroIsHash DEF TypeOK
      <3>2. Submit(Genesis, e)
        BY <1>1, <2>2 DEF LoadLast
      <3> HIDE DEF e
      <3> QED BY <1>1, <3>1, <3>2, SubmitType DEF LoadLast, TypeOK
    <2> QED BY <2>1, <2>2
  <1>2. CASE Restart
    <2>1. stage' \in [Calls -> Stages]
      BY <1>2 DEF Restart, TypeOK, Stages
    <2>2. boot' \in 0 .. MaxRestarts
      BY <1>2 DEF Restart, TypeOK
    <2> QED BY <1>2, <2>1, <2>2, ZeroIsHash DEF Restart, TypeOK
  <1>3. ASSUME NEW c \in Events, LogEvent(c) PROVE TypeOK'
    <2> DEFINE e == [id |-> c, boot |-> boot, prev |-> lastHash]
    <2>1. e \in Entry
      BY NewEntry DEF TypeOK
    <2>2. Submit(c, e)
      BY <1>3 DEF LogEvent
    <2> HIDE DEF e
    <2> QED BY <1>3, <2>1, <2>2, SubmitType DEF LogEvent, TypeOK
  <1>4. ASSUME NEW c \in Calls, AppendEntry(c) PROVE TypeOK'
    <2>1. built[c] \in Entry /\ Push(built[c])
      BY <1>4 DEF AppendEntry, TypeOK
    <2>2. stage' \in [Calls -> Stages]
      BY <1>4 DEF AppendEntry, TypeOK, Stages
    <2> QED BY <1>4, <2>1, <2>2, PushType DEF AppendEntry, TypeOK
  <1>5. ASSUME NEW c \in Calls, PutEntry(c) PROVE TypeOK'
    <2>1. stage' \in [Calls -> Stages]
      BY <1>5 DEF PutEntry, TypeOK, Stages
    <2>2. store' \in SUBSET Entry
      BY <1>5 DEF PutEntry, TypeOK
    <2> QED BY <1>5, <2>1, <2>2 DEF PutEntry, TypeOK
  <1>6. ASSUME NEW c \in Calls, PutLast(c) PROVE TypeOK'
    <2>1. stage' \in [Calls -> Stages]
      BY <1>6 DEF PutLast, TypeOK, Stages
    <2>2. entries' \in Seq(Entry)
      BY <1>6, TrimKeepsLinks DEF PutLast, TypeOK
    <2> QED BY <1>6, <2>1, <2>2 DEF PutLast, TypeOK
  <1>7. ASSUME NEW c \in Calls, PutFails(c) PROVE TypeOK'
    <2>1. stage' \in [Calls -> Stages]
      BY <1>7 DEF PutFails, TypeOK, Stages
    <2>2. faults' \in 0 .. MaxFaults
      BY <1>7 DEF PutFails, TypeOK
    <2> QED BY <1>7, <2>1, <2>2 DEF PutFails, TypeOK
  <1>8. CASE UNCHANGED vars
    BY <1>8 DEF vars, TypeOK
  <1> QED BY <1>1, <1>2, <1>3, <1>4, <1>5, <1>6, <1>7, <1>8 DEF Next

\* The database, the boots and the types, of a trail however it is used.
THEOREM TypeCorrect == Spec => []TypeOK
  BY InitTypeOK, NextTypeOK, PTL DEF Spec

-----------------------------------------------------------------------------
\* A step that touches neither the entries nor the last hash, sends no call
\* into the checked stage and starts no load keeps QuietInv.
LEMMA StandStill ==
  ASSUME QuietInv, UNCHANGED <<entries, lastHash>>, start' = start,
         \A c \in Calls : stage'[c] = "checked" => stage[c] = "checked" /\ built'[c] = built[c]
  PROVE  QuietInv'
  BY DEF QuietInv, Linked, LastHashIsLast, CheckedIsNext, OneChecked, LoadsFirst

\* Submit from a state in which no call is checked: either the entry is pushed
\* on the last one, or it is the only checked one and built on the last hash.
LEMMA SubmitKeeps ==
  ASSUME TypeOK, Linked(entries), LastHashIsLast,
         NEW c \in Calls, NEW e \in Entry, Submit(c, e), start' = "ready",
         \A d \in Calls : stage[d] # "checked",
         entries # <<>> => e.prev = lastHash
  PROVE  QuietInv'
PROOF
  <1> USE DEF TypeOK
  <1>1. CASE Immutable /\ entries # <<>>
    <2>1. UNCHANGED <<entries, lastHash>> /\ built'[c] = e
      BY <1>1 DEF Submit
    <2>2. \A d \in Calls : stage'[d] = "checked" => d = c
      BY <1>1 DEF Submit
    <2> QED BY <1>1, <2>1, <2>2
            DEF QuietInv, Linked, LastHashIsLast, CheckedIsNext, OneChecked, LoadsFirst
  <1>2. CASE ~(Immutable /\ entries # <<>>)
    <2>1. Push(e) /\ \A d \in Calls : stage'[d] # "checked"
      BY <1>2 DEF Submit
    <2>2. entries # <<>> => e.prev = HashOf(entries[Len(entries)])
      BY DEF LastHashIsLast
    <2>3. Linked(entries') /\ entries'[Len(entries')] = e
      BY <2>1, <2>2, PushKeepsLinks DEF Push
    <2>4. LastHashIsLast' /\ Linked(entries)'
      BY <2>1, <2>3 DEF Push, LastHashIsLast, Linked
    <2> QED BY <2>1, <2>4 DEF QuietInv, CheckedIsNext, OneChecked, LoadsFirst
  <1> QED BY <1>1, <1>2

LEMMA InitIInv == Init => IInv
  BY InitTypeOK, InitQuietInv DEF IInv

LEMMA NextIInv == IInv /\ [Next]_vars => IInv'
PROOF
  <1> SUFFICES ASSUME IInv, [Next]_vars, Quiet' PROVE QuietInv'
    BY NextTypeOK DEF IInv
  <1> USE CallType
  <1>0. TypeOK /\ Quiet /\ QuietInv
    <2>1. discipline' = discipline /\ eager' = eager
      BY DEF Next, vars, LoadLast, Restart, LogEvent, AppendEntry, PutEntry, PutLast, PutFails
    <2> QED BY <2>1 DEF IInv, Quiet
  <1>1. CASE LoadLast
    <2>1. entries = <<>> /\ start' = "ready" /\ \A c \in Calls : stage[c] # "checked"
      BY <1>0, <1>1 DEF LoadLast, QuietInv, LoadsFirst
    <2>2. CASE found # None
      <3>1. found \in Entry /\ Push(found) /\ stage' = stage
        BY <1>0, <1>1, <2>2 DEF LoadLast, TypeOK
      <3>2. Linked(entries') /\ entries'[Len(entries')] = found
        BY <1>0, <2>1, <3>1, PushKeepsLinks DEF Push, QuietInv, TypeOK
      <3>3. Linked(entries)' /\ LastHashIsLast'
        BY <3>1, <3>2 DEF Push, LastHashIsLast, Linked
      <3> QED BY <2>1, <3>1, <3>3 DEF QuietInv, CheckedIsNext, OneChecked, LoadsFirst
    <2>3. CASE found = None
      <3> DEFINE e == [id |-> Genesis, boot |-> boot, prev |-> Zero]
      <3>1. e \in Entry
        BY <1>0, NewEntry, ZeroIsHash DEF TypeOK
      <3>2. Submit(Genesis, e)
        BY <1>1, <2>3 DEF LoadLast
      <3> HIDE DEF e
      <3> QED BY <1>0, <2>1, <3>1, <3>2, SubmitKeeps DEF QuietInv
    <2> QED BY <2>2, <2>3
  <1>2. CASE Restart
    <2>1. entries' = <<>> /\ \A c \in Calls : stage'[c] # "checked"
      BY <1>2 DEF Restart, Settled, InFlight
    <2> QED BY <2>1 DEF QuietInv, Linked, LastHashIsLast, CheckedIsNext, OneChecked, LoadsFirst
  <1>3. ASSUME NEW c \in Events, LogEvent(c) PROVE QuietInv'
    <2> DEFINE e == [id |-> c, boot |-> boot, prev |-> lastHash]
    <2>1. e \in Entry /\ e.prev = lastHash
      BY <1>0, NewEntry DEF TypeOK
    <2>2. Submit(c, e) /\ MayStart /\ start' = start
      BY <1>3 DEF LogEvent
    <2>3. start' = "ready"
      BY <1>0, <2>2 DEF MayStart, Quiet
    <2>4. \A d \in Calls : stage[d] # "checked"
      BY <1>0, <2>2, DisciplineAssumption DEF MayStart, Quiet, Settled, InFlight, TypeOK
    <2> HIDE DEF e
    <2> QED BY <1>0, <2>1, <2>2, <2>3, <2>4, SubmitKeeps DEF QuietInv
  <1>4. ASSUME NEW c \in Calls, AppendEntry(c) PROVE QuietInv'
    <2>1. built[c] \in Entry /\ Push(built[c]) /\ stage[c] = "checked"
      BY <1>0, <1>4 DEF AppendEntry, TypeOK
    <2>2. entries # <<>> => built[c].prev = HashOf(entries[Len(entries)])
      BY <1>0, <2>1 DEF QuietInv, CheckedIsNext, LastHashIsLast
    <2>3. Linked(entries') /\ entries'[Len(entries')] = built[c]
      BY <1>0, <2>1, <2>2, PushKeepsLinks DEF Push, QuietInv, TypeOK
    <2>4. Linked(entries)' /\ LastHashIsLast'
      BY <2>1, <2>3 DEF Push, LastHashIsLast, Linked
    <2>5. \A d \in Calls : stage'[d] # "checked"
      BY <1>0, <1>4, <2>1 DEF AppendEntry, QuietInv, OneChecked, TypeOK
    <2>6. start' = start /\ start # "loading"
      BY <1>0, <1>4, <2>1 DEF AppendEntry, QuietInv, LoadsFirst
    <2> QED BY <2>4, <2>5, <2>6 DEF QuietInv, CheckedIsNext, OneChecked, LoadsFirst
  <1>5. ASSUME NEW c \in Calls, PutEntry(c) PROVE QuietInv'
    <2>1. \A d \in Calls : stage'[d] = "checked" => stage[d] = "checked" /\ built'[d] = built[d]
      BY <1>0, <1>5 DEF PutEntry, TypeOK
    <2> QED BY <1>0, <1>5, <2>1, StandStill DEF PutEntry
  <1>6. ASSUME NEW c \in Calls, PutLast(c) PROVE QuietInv'
    <2>1. \A d \in Calls : stage'[d] = "checked" => stage[d] = "checked" /\ built'[d] = built[d]
      BY <1>0, <1>6 DEF PutLast, TypeOK
    <2>2. /\ Linked(entries') /\ (entries = <<>> => entries' = <<>>)
          /\ entries # <<>> => entries' # <<>> /\ entries'[Len(entries')] = entries[Len(entries)]
      BY <1>0, <1>6, TrimKeepsLinks DEF PutLast, QuietInv, TypeOK
    <2>3. lastHash' = lastHash /\ start' = start
      BY <1>6 DEF PutLast
    <2> QED BY <1>0, <2>1, <2>2, <2>3
            DEF QuietInv, Linked, LastHashIsLast, CheckedIsNext, OneChecked, LoadsFirst
  <1>7. ASSUME NEW c \in Calls, PutFails(c) PROVE QuietInv'
    <2>1. \A d \in Calls : stage'[d] = "checked" => stage[d] = "checked" /\ built'[d] = built[d]
      BY <1>0, <1>7 DEF PutFails, TypeOK
    <2> QED BY <1>0, <1>7, <2>1, StandStill DEF PutFails
  <1>8. CASE UNCHANGED vars
    BY <1>0, <1>8, StandStill DEF vars
  <1> QED BY <1>1, <1>2, <1>3, <1>4, <1>5, <1>6, <1>7, <1>8 DEF Next

\* The trail verifies in every state, for any number of calls, restarts and
\* rejected writes, when calls start in turns of their own after the load.
THEOREM ChainAlwaysIntact == Spec => []ChainIntact
PROOF
  <1>1. IInv => ChainIntact
    BY DEF IInv, Quiet, QuietInv, ChainIntact
  <1> QED BY <1>1, InitIInv, NextIInv, PTL DEF Spec

-----------------------------------------------------------------------------
\* PointerHasRecord is not inductive either: a put replaces the record of the
\* same call.  PointerInv adds that the call the pointer names writes no more.
Finished(c) == /\ c \in Events => stage[c] = "done"
               /\ c = Genesis => /\ stage[c] \in {"idle", "done"}
                                 /\ start = "loading" => found # None

PointerInv ==
    /\ PointerHasRecord
    /\ lastStored # None => Finished(lastStored.id)
    /\ \A c \in Calls : built[c].id = c
    /\ \A c \in Calls : stage[c] = "putLast" => built[c] \in store
    /\ stage[Genesis] # "idle" => start = "ready"

\* Outside PutEntry and PutLast the database stands still, and no call can
\* come to the writing of the pointer.
LEMMA DatabaseStandsStill ==
  ASSUME TypeOK, PointerInv, UNCHANGED <<store, lastStored>>,
         \A c \in Calls : stage'[c] = "putLast" => stage[c] = "putLast" /\ built'[c] = built[c],
         \A c \in Calls : built'[c].id = c,
         lastStored # None => Finished(lastStored.id)',
         stage'[Genesis] # "idle" => start' = "ready"
  PROVE  PointerInv'
  BY DEF PointerInv, PointerHasRecord

LEMMA InitPointerInv == Init => PointerInv
  BY CallType DEF Init, PointerInv, PointerHasRecord, Calls

\* Submit does not write, and leaves the other calls where they are.
LEMMA SubmitWritesNothing ==
  ASSUME TypeOK, NEW c \in Calls, NEW e, Submit(c, e)
  PROVE  /\ stage' = [stage EXCEPT ![c] = stage'[c]] /\ stage'[c] \in {"checked", "refused", "put"}
         /\ built' = [built EXCEPT ![c] = e]
         /\ \A d \in Calls : d # c => stage'[d] = stage[d] /\ built'[d] = built[d]
         /\ built'[c] = e
  BY DEF Submit, TypeOK

LEMMA NextPointerInv == TypeOK /\ PointerInv /\ [Next]_vars => PointerInv'
PROOF
  <1> SUFFICES ASSUME TypeOK, PointerInv, [Next]_vars PROVE PointerInv'
    OBVIOUS
  <1> USE CallType, CallsAssumption
  <1>0. lastStored # None => lastStored \in Entry /\ lastStored.id \in Calls
    BY DEF TypeOK, Entry
  <1>1. CASE LoadLast
    <2>0. start = "loading" /\ start' = "ready" /\ UNCHANGED <<store, lastStored, found>>
          /\ stage[Genesis] = "idle"
      BY <1>1 DEF LoadLast, PointerInv
    <2>1. CASE found # None
      <3>1. UNCHANGED <<stage, built>>
        BY <1>1, <2>1 DEF LoadLast
      <3>2. lastStored # None => Finished(lastStored.id)'
        BY <2>0, <3>1 DEF PointerInv, Finished
      <3> QED BY <2>0, <3>1, <3>2, DatabaseStandsStill DEF PointerInv
    <2>2. CASE found = None
      <3> DEFINE e == [id |-> Genesis, boot |-> boot, prev |-> Zero]
      <3>1. Submit(Genesis, e) /\ e.id = Genesis
        BY <1>1, <2>2 DEF LoadLast
      <3> HIDE DEF e
      <3>2. /\ stage'[Genesis] \in {"checked", "refused", "put"} /\ built'[Genesis] = e
            /\ \A d \in Calls : d # Genesis => stage'[d] = stage[d] /\ built'[d] = built[d]
        BY <3>1, SubmitWritesNothing
      <3>3. lastStored # None => lastStored.id # Genesis
        BY <2>0, <2>2 DEF PointerInv, Finished
      <3>4. lastStored # None => Finished(lastStored.id)'
        BY <2>0, <3>2, <3>3, <1>0 DEF PointerInv, Finished, Calls
      <3>5. \A d \in Calls : built'[d].id = d
        BY <3>1, <3>2 DEF PointerInv
      <3>6. \A d \in Calls : stage'[d] = "putLast" => stage[d] = "putLast" /\ built'[d] = built[d]
        BY <3>2
      <3> QED BY <2>0, <3>4, <3>5, <3>6, DatabaseStandsStill
    <2> QED BY <2>1, <2>2
  <1>2. CASE Restart
    <2>1. /\ UNCHANGED <<store, lastStored, built>> /\ found' = lastStored
          /\ stage'[Genesis] = "idle"
      BY <1>2 DEF Restart
    <2>2. \A c \in Calls : stage'[c] # "putLast"
      BY <1>2 DEF Restart, Settled, InFlight
    <2>3. \A c \in Events : stage[c] = "done" => stage'[c] = "done"
      BY <1>2 DEF Restart, Settled, InFlight
    <2>4. lastStored # None => Finished(lastStored.id)'
      BY <2>1, <2>3, <1>0 DEF PointerInv, Finished
    <2> QED BY <2>1, <2>2, <2>4, DatabaseStandsStill DEF PointerInv
  <1>3. ASSUME NEW c \in Events, LogEvent(c) PROVE PointerInv'
    <2> DEFINE e == [id |-> c, boot |-> boot, prev |-> lastHash]
    <2>1. Submit(c, e) /\ e.id = c /\ stage[c] = "idle" /\ c \in Calls /\ c # Genesis
          /\ UNCHANGED <<store, lastStored, found, start>>
      BY <1>3 DEF LogEvent
    <2> HIDE DEF e
    <2>2. /\ stage'[c] \in {"checked", "refused", "put"} /\ built'[c] = e
          /\ \A d \in Calls : d # c => stage'[d] = stage[d] /\ built'[d] = built[d]
      BY <2>1, SubmitWritesNothing
    <2>3. lastStored # None => lastStored.id # c
      BY <2>1 DEF PointerInv, Finished
    <2>4. lastStored # None => Finished(lastStored.id)'
      BY <2>1, <2>2, <2>3, <1>0 DEF PointerInv, Finished
    <2>5. \A d \in Calls : built'[d].id = d
      BY <2>1, <2>2 DEF PointerInv
    <2>6. \A d \in Calls : stage'[d] = "putLast" => stage[d] = "putLast" /\ built'[d] = built[d]
      BY <2>2
    <2>7. stage'[Genesis] # "idle" => start' = "ready"
      BY <2>1, <2>2 DEF PointerInv
    <2> QED BY <2>1, <2>4, <2>5, <2>6, <2>7, DatabaseStandsStill
  <1>4. ASSUME NEW c \in Calls, AppendEntry(c) PROVE PointerInv'
    <2>1. /\ UNCHANGED <<store, lastStored, found, start, built>> /\ stage[c] = "checked"
          /\ stage'[c] = "put" /\ \A d \in Calls : d # c => stage'[d] = stage[d]
      BY <1>4 DEF AppendEntry, TypeOK
    <2>2. lastStored # None => lastStored.id # c
      BY <2>1 DEF PointerInv, Finished, Calls
    <2>3. lastStored # None => Finished(lastStored.id)'
      BY <2>1, <2>2, <1>0 DEF PointerInv, Finished
    <2> QED BY <2>1, <2>3, DatabaseStandsStill DEF PointerInv
  <1>5. ASSUME NEW c \in Calls, PutEntry(c) PROVE PointerInv'
    <2>1. /\ UNCHANGED <<lastStored, found, start, built>> /\ stage[c] = "put"
          /\ stage'[c] = "putLast" /\ \A d \in Calls : d # c => stage'[d] = stage[d]
          /\ store' = {s \in store : s.id # c} \cup {built[c]}
      BY <1>5 DEF PutEntry, TypeOK
    <2>2. lastStored # None => lastStored.id # c
      BY <2>1 DEF PointerInv, Finished, Calls
    <2>3. lastStored # None => Finished(lastStored.id)' /\ lastStored \in store'
      BY <2>1, <2>2, <1>0 DEF PointerInv, PointerHasRecord, Finished
    <2>4. \A d \in Calls : stage'[d] = "putLast" => built'[d] \in store'
      BY <2>1 DEF PointerInv
    <2> QED BY <2>1, <2>3, <2>4 DEF PointerInv, PointerHasRecord
  <1>6. ASSUME NEW c \in Calls, PutLast(c) PROVE PointerInv'
    <2>1. /\ UNCHANGED <<store, found, start, built>> /\ stage[c] = "putLast"
          /\ stage'[c] = "done" /\ \A d \in Calls : d # c => stage'[d] = stage[d]
          /\ lastStored' = built[c]
      BY <1>6 DEF PutLast, TypeOK
    <2>2. lastStored'.id = c /\ lastStored' \in store'
      BY <2>1 DEF PointerInv
    <2>3. c = Genesis => start = "ready"
      BY <2>1 DEF PointerInv
    <2>4. Finished(c)'
      BY <2>1, <2>3 DEF Finished
    <2>5. Finished(lastStored.id)'
      BY <2>2, <2>4 DEF Finished
    <2> QED BY <2>1, <2>2, <2>5 DEF PointerInv, PointerHasRecord
  <1>7. ASSUME NEW c \in Calls, PutFails(c) PROVE PointerInv'
    <2>1. /\ UNCHANGED <<store, lastStored, found, start, built>> /\ stage[c] \in {"put", "putLast"}
          /\ stage'[c] = "failed" /\ \A d \in Calls : d # c => stage'[d] = stage[d]
      BY <1>7 DEF PutFails, TypeOK
    <2>2. lastStored # None => lastStored.id # c
      BY <2>1 DEF PointerInv, Finished, Calls
    <2>3. lastStored # None => Finished(lastStored.id)'
      BY <2>1, <2>2, <1>0 DEF PointerInv, Finished
    <2> QED BY <2>1, <2>3, DatabaseStandsStill DEF PointerInv
  <1>8. CASE UNCHANGED vars
    BY <1>8 DEF vars, PointerInv, PointerHasRecord, Finished
  <1> QED BY <1>1, <1>2, <1>3, <1>4, <1>5, <1>6, <1>7, <1>8 DEF Next

\* Wherever the process dies, the pointer the next one loads names a record
\* that is in the database; under every discipline, eager callers included.
THEOREM PointerAlwaysHasRecord == Spec => []PointerHasRecord
PROOF
  <1>1. TypeOK /\ PointerInv /\ [Next]_vars => TypeOK' /\ PointerInv'
    BY NextTypeOK, NextPointerInv
  <1>2. Init => TypeOK /\ PointerInv
    BY InitTypeOK, InitPointerInv
  <1>3. PointerInv => PointerHasRecord
    BY DEF PointerInv
  <1> QED BY <1>1, <1>2, <1>3, PTL DEF Spec
-----------------------------------------------------------------------------
\* With serial callers an entry is linked to one whose call has ended before its
\* own began, and what a restart goes by was acknowledged after whatever is
\* linked below it.  NoAcknowledgedFork becomes inductive with what every next
\* entry can be linked to: the last hash, the pointer, and the call in flight.
Serial == discipline = "serial" /\ ~eager

Acks == {s \in store : Acknowledged(s)}
Flying(c) == stage[c] \in InFlight

\* The hash is the start of the trail, a genesis entry or that of a call that ended.
Gone(h, st) == h = Zero \/ h[1] = Genesis \/ st[h[1]] \notin InFlight \cup {"idle"}

OneFlying == \A c, d \in Calls : Flying(c) /\ Flying(d) => c = d

\* While the pointer is loaded nothing is under way, and no genesis entry is
\* written over a pointer.
LoadSeesPointer ==
    /\ start = "loading" => found = lastStored /\ \A c \in Calls : ~Flying(c)
    /\ Flying(Genesis) => lastStored = None

\* What is stored of a call of logEvent is the entry it has built.
StoredIsBuilt ==
    \A s \in store : s.id \in Events => s = built[s.id] /\ stage[s.id] # "idle"

LastHashFollows ==
    /\ \A c \in Calls : stage[c] \in {"put", "putLast"} => lastHash = HashOf(built[c])
    /\ (\A c \in Calls : ~Flying(c)) => Gone(lastHash, stage)
    /\ \A c \in Events : Flying(c) => Gone(built[c].prev, stage)

\* No acknowledged entry is linked to what the next one may be linked to.
FreshLinks ==
    \A s \in Acks :
        /\ lastStored # None /\ s.prev # HashOf(lastStored)
        /\ start = "ready" => s.prev # lastHash
        /\ \A c \in Events : Flying(c) => s.prev # built[c].prev
        /\ Gone(s.prev, stage)

NoFork == \A s, t \in Acks : s # t => s.prev # t.prev

SerialInv ==
    /\ OneFlying
    /\ LoadSeesPointer
    /\ StoredIsBuilt
    /\ LastHashFollows
    /\ FreshLinks
    /\ NoFork

\* What has ended stays so.
LEMMA GoneStays ==
  ASSUME NEW st, NEW st2, NEW h \in Hash, Gone(h, st),
         \A d \in Events : st[d] \notin InFlight \cup {"idle"} => st2[d] \notin InFlight \cup {"idle"}
  PROVE  Gone(h, st2)
  BY DEF Gone, Hash, Calls, Zero

\* An event that has not ended is named by no such hash.
LEMMA GoneIsNot ==
  ASSUME NEW st, NEW h \in Hash, Gone(h, st), NEW e \in Entry, e.id \in Events,
         st[e.id] \in InFlight \cup {"idle"}
  PROVE  h # HashOf(e)
  BY CallsAssumption DEF Gone, HashOf, Hash, Entry, Zero

LEMMA InitSerialInv == Init => SerialInv
PROOF
  <1> SUFFICES ASSUME Init PROVE SerialInv
    OBVIOUS
  <1>1. /\ \A c \in Calls : stage[c] = "idle"
        /\ Acks = {} /\ store = {} /\ lastStored = None /\ found = None /\ lastHash = Zero
    BY DEF Init, Acks
  <1>2. ~Flying(Genesis) /\ \A c \in Calls : ~Flying(c)
    BY <1>1, CallType DEF Flying, InFlight
  <1>3. OneFlying /\ LoadSeesPointer /\ StoredIsBuilt
    BY <1>1, <1>2 DEF OneFlying, LoadSeesPointer, StoredIsBuilt
  <1>4. LastHashFollows
    BY <1>1, <1>2, CallType DEF LastHashFollows, Gone
  <1>5. FreshLinks /\ NoFork
    BY <1>1 DEF FreshLinks, NoFork
  <1> QED BY <1>3, <1>4, <1>5 DEF SerialInv

\* The step of a call that is neither a first one nor an acknowledgement: it
\* may end the call in flight, move the last hash to its entry, and write a
\* record of its own that no one has been told of.
LEMMA FlyingStep ==
  ASSUME TypeOK, TypeOK', PointerInv, SerialInv, NEW c \in Calls, Flying(c),
         UNCHANGED <<lastStored, start, found, built>>,
         \A d \in Calls : d # c => stage'[d] = stage[d],
         stage'[c] \in {"put", "putLast", "failed"},
         lastHash' = HashOf(built[c]),
         store' = store \/ store' = {s \in store : s.id # c} \cup {built[c]}
  PROVE  SerialInv'
PROOF
  <1> USE CallsAssumption, CallType
  <1>1. built[c] \in Entry /\ built[c].id = c /\ lastHash' \in Hash
    BY HashOfEntry DEF TypeOK, PointerInv
  <1>2. \A d \in Calls : Flying(d) => d = c
    BY DEF SerialInv, OneFlying
  <1>3. \A d \in Calls : Flying(d)' => d = c
    BY <1>2 DEF Flying, InFlight
  <1>4. start # "loading"
    BY DEF SerialInv, LoadSeesPointer
  <1>5. \A d \in Events : stage[d] \notin InFlight \cup {"idle"} => stage'[d] \notin InFlight \cup {"idle"}
    BY DEF Flying
  <1>6. \A s \in store' : s \in store \/ s = built[c]
    OBVIOUS
  <1>7. Acks' \subseteq Acks
    <2>1. \A s \in Acks' : s \in store' /\ stage'[s.id] = "done" /\ s.id # Genesis
      BY DEF Acks, Acknowledged
    <2>2. stage'[c] # "done"
      OBVIOUS
    <2>3. \A s \in Acks' : s \in store /\ s.id # c /\ s.id \in Calls
      BY <2>1, <2>2, <1>1, <1>6 DEF TypeOK, Entry
    <2> QED BY <2>1, <2>3 DEF Acks, Acknowledged
  <1>8. \A s \in Acks : s.prev \in Hash /\ Gone(s.prev, stage)
    BY DEF SerialInv, FreshLinks, Acks, TypeOK, Entry
  <1>9. c = Genesis => Acks = {}
    BY DEF SerialInv, LoadSeesPointer, FreshLinks
  <1>10. OneFlying'
    BY <1>3 DEF OneFlying
  <1>11. LoadSeesPointer'
    BY <1>3, <1>4 DEF LoadSeesPointer, SerialInv
  <1>12. StoredIsBuilt'
    BY <1>1, <1>6 DEF SerialInv, StoredIsBuilt
  <1>13. LastHashFollows'
    <2>1. \A d \in Calls : stage'[d] \in {"put", "putLast"} => lastHash' = HashOf(built'[d])
      BY <1>3 DEF Flying, InFlight
    <2>2. (\A d \in Calls : ~Flying(d)') => Gone(lastHash', stage')
      BY <1>1 DEF Flying, InFlight, Gone, HashOf
    <2>3. \A d \in Events : Flying(d)' => Gone(built'[d].prev, stage')
      <3>1. SUFFICES ASSUME c \in Events PROVE Gone(built[c].prev, stage')
        BY <1>3
      <3>2. Gone(built[c].prev, stage) /\ built[c].prev \in Hash
        BY <3>1, <1>1 DEF SerialInv, LastHashFollows, Entry
      <3> QED BY <3>2, <1>5, GoneStays
    <2> QED BY <2>1, <2>2, <2>3 DEF LastHashFollows
  <1>14. FreshLinks'
    <2> SUFFICES ASSUME NEW s \in Acks'
                 PROVE  /\ lastStored' # None /\ s.prev # HashOf(lastStored')
                        /\ s.prev # lastHash'
                        /\ \A d \in Events : Flying(d)' => s.prev # built'[d].prev
                        /\ Gone(s.prev, stage')
      BY DEF FreshLinks
    <2>1. s \in Acks /\ c \in Events
      BY <1>7, <1>9 DEF Calls
    <2>2. s.prev \in Hash /\ Gone(s.prev, stage)
      BY <2>1, <1>8
    <2>3. s.prev # lastHash'
      BY <2>1, <2>2, <1>1, GoneIsNot DEF Flying
    <2>4. Gone(s.prev, stage')
      BY <2>2, <1>5, GoneStays
    <2>5. \A d \in Events : Flying(d)' => s.prev # built'[d].prev
      BY <2>1, <1>3 DEF SerialInv, FreshLinks
    <2> QED BY <2>1, <2>3, <2>4, <2>5 DEF SerialInv, FreshLinks
  <1>15. NoFork'
    BY <1>7 DEF SerialInv, NoFork
  <1> QED BY <1>10, <1>11, <1>12, <1>13, <1>14, <1>15 DEF SerialInv

LEMMA SerialIsQuiet == Serial => Quiet
  BY DEF Serial, Quiet

\* Who may call, and how, is the same in every step.
LEMMA CallersStay == [Next]_vars => (Serial' => Serial)
PROOF
  <1>1. [Next]_vars => discipline' = discipline /\ eager' = eager
    BY DEF Next, vars, LoadLast, Restart, LogEvent, AppendEntry, PutEntry, PutLast, PutFails
  <1> QED BY <1>1 DEF Serial

LEMMA SerialLoadLast ==
  ASSUME TypeOK, PointerInv, QuietInv, SerialInv, LoadLast PROVE SerialInv'
PROOF
  <1> USE CallType, CallsAssumption
  <1>1. /\ start = "loading" /\ start' = "ready" /\ UNCHANGED <<store, lastStored, found>>
        /\ entries = <<>> /\ found = lastStored /\ \A c \in Calls : ~Flying(c)
    BY DEF LoadLast, QuietInv, LoadsFirst, SerialInv, LoadSeesPointer
  <1>2. CASE found # None
    <2>1. /\ lastStored \in Entry /\ lastHash' = HashOf(lastStored) /\ UNCHANGED <<stage, built>>
          /\ lastStored.id \in Calls /\ Finished(lastStored.id)
      BY <1>1, <1>2 DEF LoadLast, Push, TypeOK, PointerInv, Entry
    <2>2. Acks' = Acks /\ \A c \in Calls : ~Flying(c)'
      BY <1>1, <2>1 DEF Acks, Acknowledged, Flying
    <2>3. Gone(lastHash', stage')
      BY <2>1 DEF Gone, HashOf, Finished, Calls, InFlight
    <2>4. OneFlying' /\ LoadSeesPointer' /\ StoredIsBuilt'
      BY <1>1, <2>1, <2>2 DEF OneFlying, LoadSeesPointer, StoredIsBuilt, SerialInv
    <2>5. LastHashFollows'
      BY <2>2, <2>3 DEF LastHashFollows, Flying, InFlight
    <2>6. FreshLinks'
      BY <1>1, <2>1, <2>2 DEF SerialInv, FreshLinks
    <2> QED BY <2>2, <2>4, <2>5, <2>6 DEF SerialInv, NoFork
  <1>3. CASE found = None
    <2> DEFINE e == [id |-> Genesis, boot |-> boot, prev |-> Zero]
    <2>1. Submit(Genesis, e)
      BY <1>3 DEF LoadLast
    <2> HIDE DEF e
    <2>2. /\ stage'[Genesis] \in {"checked", "refused", "put"} /\ built'[Genesis] = e
          /\ \A d \in Calls : d # Genesis => stage'[d] = stage[d] /\ built'[d] = built[d]
      BY <2>1, SubmitWritesNothing
    <2>3. stage'[Genesis] = "put" /\ lastHash' = HashOf(e)
      BY <1>1, <2>1 DEF Submit, Push, TypeOK
    <2>4. Acks = {}
      BY <1>1, <1>3 DEF SerialInv, FreshLinks
    <2>5. \A s \in store : s.id \in Calls
      BY DEF TypeOK, Entry
    <2>6. Acks' = {}
      BY <1>1, <2>2, <2>4, <2>5 DEF Acks, Acknowledged
    <2>7. Flying(Genesis)' /\ \A c \in Calls : Flying(c)' => c = Genesis
      BY <1>1, <2>2, <2>3 DEF Flying, InFlight
    <2>8. OneFlying' /\ LoadSeesPointer'
      BY <1>1, <1>3, <2>7 DEF OneFlying, LoadSeesPointer
    <2>9. StoredIsBuilt'
      BY <1>1, <2>2 DEF SerialInv, StoredIsBuilt
    <2>10. LastHashFollows'
      BY <2>2, <2>3, <2>7 DEF LastHashFollows, Flying, InFlight
    <2>11. FreshLinks' /\ NoFork'
      BY <2>6 DEF FreshLinks, NoFork
    <2> QED BY <2>8, <2>9, <2>10, <2>11 DEF SerialInv
  <1> QED BY <1>2, <1>3

LEMMA SerialRestart ==
  ASSUME TypeOK, SerialInv, Restart PROVE SerialInv'
PROOF
  <1> USE CallType, CallsAssumption
  <1>1. /\ UNCHANGED <<store, lastStored, built>> /\ lastHash' = Zero
        /\ start' = "loading" /\ found' = lastStored
    BY DEF Restart
  <1>2. \A c \in Calls : stage'[c] \notin InFlight
    BY DEF Restart, Settled, InFlight
  <1>3. \A c \in Events : stage'[c] = IF Flying(c) THEN "lost" ELSE stage[c]
    BY DEF Restart, Settled, Flying
  <1>4. \A c \in Events : stage[c] \notin InFlight \cup {"idle"} => stage'[c] \notin InFlight \cup {"idle"}
    BY <1>3 DEF Flying
  <1>5. \A s \in store : s \in Entry /\ s.id \in Calls /\ s.prev \in Hash
    BY DEF TypeOK, Entry
  <1>6. \A c \in Events : stage'[c] = "done" <=> stage[c] = "done"
    BY <1>3 DEF Flying, InFlight
  <1>7. Acks' = Acks
    BY <1>1, <1>5, <1>6 DEF Acks, Acknowledged, Calls
  <1>8. OneFlying' /\ LoadSeesPointer'
    BY <1>1, <1>2 DEF OneFlying, LoadSeesPointer, Flying
  <1>9. \A c \in Events : stage[c] # "idle" => stage'[c] # "idle"
    BY <1>3
  <1>10. StoredIsBuilt'
    BY <1>1, <1>9 DEF SerialInv, StoredIsBuilt
  <1>11. LastHashFollows'
    BY <1>1, <1>2 DEF LastHashFollows, Flying, InFlight, Gone
  <1>12. \A s \in Acks : Gone(s.prev, stage')
    BY <1>4, <1>5, GoneStays DEF SerialInv, FreshLinks, Acks
  <1>13. FreshLinks'
    BY <1>1, <1>2, <1>7, <1>12 DEF SerialInv, FreshLinks, Flying
  <1> QED BY <1>7, <1>8, <1>10, <1>11, <1>13 DEF SerialInv, NoFork

LEMMA SerialLogEvent ==
  ASSUME TypeOK, QuietInv, Serial, SerialInv, NEW c \in Events, LogEvent(c) PROVE SerialInv'
PROOF
  <1> USE CallType, CallsAssumption
  <1> DEFINE e == [id |-> c, boot |-> boot, prev |-> lastHash]
  <1>1. /\ Submit(c, e) /\ stage[c] = "idle" /\ c # Genesis /\ c \in Calls
        /\ UNCHANGED <<store, lastStored, start, found>> /\ start = "ready"
        /\ \A d \in Calls : ~Flying(d)
    BY DEF LogEvent, MayStart, Serial, Settled, Flying
  <1>2. e \in Entry /\ e.id = c /\ e.prev = lastHash
    BY NewEntry DEF TypeOK
  <1> HIDE DEF e
  <1>3. /\ built'[c] = e
        /\ \A d \in Calls : d # c => stage'[d] = stage[d] /\ built'[d] = built[d]
    BY <1>1, SubmitWritesNothing
  <1>4. \/ stage'[c] = "checked" /\ lastHash' = lastHash
        \/ stage'[c] = "put" /\ lastHash' = HashOf(e)
    BY <1>1 DEF Submit, Push, TypeOK, QuietInv
  <1>5. Flying(c)' /\ \A d \in Calls : Flying(d)' => d = c
    BY <1>1, <1>3, <1>4 DEF Flying, InFlight
  <1>6. \A s \in store : s \in Entry /\ s.id \in Calls /\ s.prev \in Hash
    BY DEF TypeOK, Entry
  <1>7. \A s \in store : s.id # c
    BY <1>1 DEF SerialInv, StoredIsBuilt
  <1>8. Acks' = Acks
    BY <1>1, <1>3, <1>6, <1>7 DEF Acks, Acknowledged
  <1>9. \A d \in Events : stage[d] \notin InFlight \cup {"idle"} => stage'[d] \notin InFlight \cup {"idle"}
    BY <1>1, <1>3
  <1>10. OneFlying' /\ LoadSeesPointer'
    BY <1>1, <1>5 DEF OneFlying, LoadSeesPointer
  <1>11. StoredIsBuilt'
    BY <1>1, <1>3, <1>6, <1>7 DEF SerialInv, StoredIsBuilt
  <1>12. LastHashFollows'
    <2>1. lastHash \in Hash /\ Gone(lastHash, stage)
      BY <1>1 DEF TypeOK, SerialInv, LastHashFollows
    <2>2. Gone(built'[c].prev, stage')
      BY <2>1, <1>2, <1>3, <1>9, GoneStays
    <2>3. \A d \in Calls : stage'[d] \in {"put", "putLast"} => d = c /\ lastHash' = HashOf(built'[d])
      BY <1>3, <1>4, <1>5 DEF Flying, InFlight
    <2> QED BY <2>2, <2>3, <1>5 DEF LastHashFollows
  <1>13. FreshLinks'
    <2> SUFFICES ASSUME NEW s \in Acks
                 PROVE  /\ lastStored # None /\ s.prev # HashOf(lastStored)
                        /\ s.prev # lastHash' /\ s.prev # built'[c].prev
                        /\ Gone(s.prev, stage')
      BY <1>1, <1>5, <1>8 DEF FreshLinks
    <2>1. s.prev \in Hash /\ Gone(s.prev, stage)
      BY <1>6 DEF SerialInv, FreshLinks, Acks
    <2>2. lastStored # None /\ s.prev # HashOf(lastStored) /\ s.prev # lastHash
      BY <1>1 DEF SerialInv, FreshLinks
    <2>3. s.prev # HashOf(e)
      BY <2>1, <1>1, <1>2, GoneIsNot
    <2>4. Gone(s.prev, stage')
      BY <2>1, <1>9, GoneStays
    <2> QED BY <2>2, <2>3, <2>4, <1>2, <1>3, <1>4
  <1> QED BY <1>8, <1>10, <1>11, <1>12, <1>13 DEF SerialInv, NoFork

\* The acknowledgement: the record of the call becomes what the pointer names.
LEMMA SerialPutLast ==
  ASSUME TypeOK, PointerInv, SerialInv, NEW c \in Calls, PutLast(c) PROVE SerialInv'
PROOF
  <1> USE CallType, CallsAssumption
  <1>1. /\ UNCHANGED <<lastHash, store, start, found, built>> /\ stage[c] = "putLast"
        /\ stage'[c] = "done" /\ \A d \in Calls : d # c => stage'[d] = stage[d]
        /\ lastStored' = built[c]
    BY DEF PutLast, TypeOK
  <1>2. built[c] \in Entry /\ built[c].id = c /\ built[c] \in store /\ built[c].prev \in Hash
        /\ lastHash = HashOf(built[c]) /\ built[c] # None
    <2>1. lastHash = HashOf(built[c])
      BY <1>1 DEF SerialInv, LastHashFollows
    <2> QED BY <1>1, <2>1, NoneAssumption DEF TypeOK, PointerInv, Entry
  <1>3. Flying(c) /\ (\A d \in Calls : Flying(d) => d = c) /\ \A d \in Calls : ~Flying(d)'
    BY <1>1 DEF SerialInv, OneFlying, Flying, InFlight
  <1>4. start # "loading"
    BY <1>3 DEF SerialInv, LoadSeesPointer
  <1>5. \A s \in store : s \in Entry /\ s.id \in Calls /\ s.prev \in Hash
    BY DEF TypeOK, Entry
  <1>6. \A s \in store : s.id = c /\ c \in Events => s = built[c]
    BY DEF SerialInv, StoredIsBuilt
  <1>7. \A d \in Events : stage[d] \notin InFlight \cup {"idle"} => stage'[d] \notin InFlight \cup {"idle"}
    BY <1>1 DEF InFlight
  <1>8. ASSUME NEW s \in Acks' PROVE s \in Acks \/ (c \in Events /\ s = built[c])
    <2>1. s \in store /\ stage'[s.id] = "done" /\ s.id # Genesis
      BY <1>1 DEF Acks, Acknowledged
    <2>2. CASE s.id = c
      BY <2>1, <2>2, <1>6 DEF Calls
    <2>3. CASE s.id # c
      BY <2>1, <2>3, <1>1, <1>5 DEF Acks, Acknowledged
    <2> QED BY <2>2, <2>3
  <1>9. ASSUME NEW s \in Acks
        PROVE  /\ c \in Events /\ Gone(s.prev, stage') /\ s.prev # HashOf(built[c])
               /\ s.prev # built[c].prev
    <2>1. c # Genesis
      BY <1>3 DEF SerialInv, LoadSeesPointer, FreshLinks
    <2>2. c \in Events /\ s.prev # lastHash /\ s.prev # built[c].prev
      BY <2>1, <1>3, <1>4 DEF SerialInv, FreshLinks, Calls, TypeOK
    <2>3. s.prev \in Hash /\ Gone(s.prev, stage)
      BY <1>5 DEF SerialInv, FreshLinks, Acks
    <2> QED BY <2>2, <2>3, <1>2, <1>7, GoneStays
  <1>10. ASSUME c \in Events
         PROVE  Gone(built[c].prev, stage') /\ built[c].prev # HashOf(built[c])
    <2>1. Gone(built[c].prev, stage)
      BY <1>3, <1>10 DEF SerialInv, LastHashFollows
    <2> QED BY <2>1, <1>2, <1>3, <1>7, <1>10, GoneStays, GoneIsNot DEF Flying
  <1>11. OneFlying' /\ LoadSeesPointer'
    BY <1>1, <1>3, <1>4 DEF OneFlying, LoadSeesPointer
  <1>12. StoredIsBuilt'
    BY <1>1 DEF SerialInv, StoredIsBuilt
  <1>13. LastHashFollows'
    BY <1>1, <1>2, <1>3 DEF LastHashFollows, Flying, InFlight, Gone, HashOf
  <1>14. ASSUME NEW s \in Acks'
         PROVE  s.prev # HashOf(built[c]) /\ Gone(s.prev, stage')
    BY <1>8, <1>9, <1>10
  <1>15. FreshLinks'
    BY <1>1, <1>2, <1>3, <1>14 DEF FreshLinks
  <1>16. NoFork'
    BY <1>8, <1>9 DEF SerialInv, NoFork
  <1> QED BY <1>11, <1>12, <1>13, <1>15, <1>16 DEF SerialInv

SerialIInv == Serial => QuietInv /\ SerialInv

LEMMA InitSerialIInv == Init => SerialIInv
  BY InitQuietInv, InitSerialInv DEF SerialIInv

LEMMA NextSerialIInv ==
  TypeOK /\ PointerInv /\ SerialIInv /\ [Next]_vars => SerialIInv'
PROOF
  <1> SUFFICES ASSUME TypeOK, PointerInv, SerialIInv, [Next]_vars, Serial'
               PROVE  QuietInv' /\ SerialInv'
    BY DEF SerialIInv
  <1>0. TypeOK' /\ Serial /\ QuietInv /\ SerialInv
    <2>1. TypeOK' /\ Serial
      BY NextTypeOK, CallersStay
    <2> QED BY <2>1 DEF SerialIInv
  <1>1. QuietInv'
    <2>1. IInv
      BY <1>0 DEF IInv
    <2>2. IInv' /\ (Serial' => Quiet')
      BY <2>1, NextIInv DEF Serial, Quiet
    <2> QED BY <2>2 DEF IInv
  <1> SUFFICES SerialInv'
    BY <1>1
  <1>2. CASE LoadLast
    BY <1>0, <1>2, SerialLoadLast
  <1>3. CASE Restart
    BY <1>0, <1>3, SerialRestart
  <1>4. ASSUME NEW c \in Events, LogEvent(c) PROVE SerialInv'
    BY <1>0, <1>4, SerialLogEvent
  <1>5. ASSUME NEW c \in Calls, AppendEntry(c) PROVE SerialInv'
    <2>1. /\ Flying(c) /\ UNCHANGED <<store, lastStored, start, found, built>>
          /\ (\A d \in Calls : d # c => stage'[d] = stage[d]) /\ stage'[c] = "put"
          /\ lastHash' = HashOf(built[c])
      BY <1>0, <1>5 DEF AppendEntry, Push, Flying, InFlight, TypeOK
    <2> QED BY <1>0, <2>1, FlyingStep
  <1>6. ASSUME NEW c \in Calls, PutEntry(c) PROVE SerialInv'
    <2>1. /\ Flying(c) /\ UNCHANGED <<lastStored, start, found, built>>
          /\ (\A d \in Calls : d # c => stage'[d] = stage[d]) /\ stage'[c] = "putLast"
          /\ store' = {s \in store : s.id # c} \cup {built[c]}
      BY <1>0, <1>6 DEF PutEntry, Flying, InFlight, TypeOK
    <2>2. lastHash' = HashOf(built[c])
      BY <1>0, <1>6 DEF PutEntry, SerialInv, LastHashFollows
    <2> QED BY <1>0, <2>1, <2>2, FlyingStep
  <1>7. ASSUME NEW c \in Calls, PutLast(c) PROVE SerialInv'
    BY <1>0, <1>7, SerialPutLast
  <1>8. ASSUME NEW c \in Calls, PutFails(c) PROVE SerialInv'
    <2>1. /\ Flying(c) /\ UNCHANGED <<store, lastStored, start, found, built>>
          /\ (\A d \in Calls : d # c => stage'[d] = stage[d]) /\ stage'[c] = "failed"
      BY <1>0, <1>8 DEF PutFails, Flying, InFlight, TypeOK
    <2>2. lastHash' = HashOf(built[c])
      BY <1>0, <1>8 DEF PutFails, SerialInv, LastHashFollows
    <2> QED BY <1>0, <2>1, <2>2, FlyingStep
  <1>9. CASE UNCHANGED vars
    <2>1. /\ UNCHANGED <<lastHash, store, lastStored, start, found, stage, built>>
          /\ Acks' = Acks /\ \A c \in Calls : Flying(c)' <=> Flying(c)
      BY <1>9 DEF vars, Acks, Acknowledged, Flying
    <2>2. OneFlying' /\ LoadSeesPointer' /\ StoredIsBuilt'
      BY <1>0, <2>1, CallType DEF SerialInv, OneFlying, LoadSeesPointer, StoredIsBuilt
    <2>3. LastHashFollows' /\ FreshLinks' /\ NoFork'
      BY <1>0, <2>1, CallType DEF SerialInv, LastHashFollows, FreshLinks, NoFork
    <2> QED BY <2>2, <2>3 DEF SerialInv
  <1> QED BY <1>2, <1>3, <1>4, <1>5, <1>6, <1>7, <1>8, <1>9 DEF Next

\* With serial callers no two entries whose logEvent has returned are linked to
\* the same entry, wherever the process dies and whatever write is rejected.
THEOREM AcknowledgedNeverFork == Spec => []NoAcknowledgedFork
PROOF
  <1>1. TypeOK /\ PointerInv /\ SerialIInv /\ [Next]_vars => TypeOK' /\ PointerInv' /\ SerialIInv'
    BY NextTypeOK, NextPointerInv, NextSerialIInv
  <1>2. Init => TypeOK /\ PointerInv /\ SerialIInv
    BY InitTypeOK, InitPointerInv, InitSerialIInv
  <1>3. SerialIInv => NoAcknowledgedFork
    BY DEF SerialIInv, Serial, SerialInv, NoFork, Acks, NoAcknowledgedFork
  <1> QED BY <1>1, <1>2, <1>3, PTL DEF Spec
-----------------------------------------------------------------------------
\* Without a rejected write, what an entry is linked to is in the database: the
\* entry before it was acknowledged, and events begin only once there is a pointer.
InStore(h, st) == h = Zero \/ \E t \in st : HashOf(t) = h

ChainedInv ==
    /\ \A c \in Calls : stage[c] \notin {"failed", "refused"}
    /\ \A s \in store : InStore(s.prev, store)
    /\ \A c \in Events : Flying(c) => InStore(built[c].prev, store)
    /\ start = "ready" /\ (\A c \in Calls : stage[c] \notin {"put", "putLast"}) => InStore(lastHash, store)
    /\ built[Genesis].prev = Zero /\ \A s \in store : s.id = Genesis => s.prev = Zero
    /\ start = "ready" /\ ~Flying(Genesis) => lastStored # None
    /\ lastStored = None => (\A s \in store : s.id = Genesis) /\ \A c \in Events : ~Flying(c)

LEMMA InitChainedInv == Init => ChainedInv
PROOF
  <1> SUFFICES ASSUME Init PROVE ChainedInv
    OBVIOUS
  <1>1. /\ \A c \in Calls : stage[c] = "idle" /\ ~Flying(c)
        /\ store = {} /\ built[Genesis].prev = Zero /\ start = "loading"
    BY CallType DEF Init, Flying, InFlight
  <1> QED BY <1>1, CallType DEF ChainedInv

\* Nothing leaves the database but a genesis entry, and then there is nothing else.
LEMMA PutKeepsRecords ==
  ASSUME TypeOK, PointerInv, SerialInv, ChainedInv, NEW c \in Calls, PutEntry(c)
  PROVE  /\ \A h : InStore(h, store) /\ c \in Events => InStore(h, store')
         /\ \A s \in store' : InStore(s.prev, store')
PROOF
  <1> USE CallType, CallsAssumption
  <1>1. /\ store' = {s \in store : s.id # c} \cup {built[c]} /\ Flying(c) /\ built[c].id = c
    BY DEF PutEntry, Flying, InFlight, PointerInv
  <1>2. CASE c \in Events
    <2>1. store \subseteq store'
      BY <1>1, <1>2 DEF SerialInv, StoredIsBuilt
    <2>2. \A h : InStore(h, store) => InStore(h, store')
      BY <2>1 DEF InStore
    <2>3. InStore(built[c].prev, store)
      BY <1>1, <1>2 DEF ChainedInv
    <2> QED BY <1>1, <2>2, <2>3 DEF ChainedInv
  <1>3. CASE c = Genesis
    <2>1. \A s \in store : s.id = c
      BY <1>1, <1>3 DEF SerialInv, LoadSeesPointer, ChainedInv
    <2>2. store' = {built[c]} /\ built[c].prev = Zero
      BY <1>1, <1>3, <2>1 DEF ChainedInv
    <2> QED BY <1>3, <2>2 DEF InStore
  <1> QED BY <1>2, <1>3 DEF Calls

ChainedIInv == Serial /\ faults = 0 => ChainedInv

LEMMA NextChainedIInv ==
  TypeOK /\ PointerInv /\ SerialIInv /\ ChainedIInv /\ [Next]_vars => ChainedIInv'
PROOF
  <1> SUFFICES ASSUME TypeOK, PointerInv, SerialIInv, ChainedIInv, [Next]_vars, Serial', faults' = 0
               PROVE  ChainedInv'
    BY DEF ChainedIInv
  <1> USE CallType, CallsAssumption
  <1>a. Serial /\ QuietInv /\ SerialInv
    BY CallersStay DEF SerialIInv
  <1>b. faults \in Nat /\ (faults' = faults \/ faults' = faults + 1)
    <2>1. faults \in Nat
      BY BatchAssumption DEF TypeOK
    <2>2. faults' = faults \/ faults' = faults + 1
      BY DEF Next, vars, LoadLast, Restart, LogEvent, AppendEntry, PutEntry, PutLast, PutFails
    <2> QED BY <2>1, <2>2
  <1>0. faults = 0 /\ ChainedInv
    BY <1>a, <1>b DEF ChainedIInv
  <1>1. CASE LoadLast
    <2>1. /\ start = "loading" /\ start' = "ready" /\ UNCHANGED <<store, lastStored>>
          /\ entries = <<>> /\ found = lastStored /\ \A c \in Calls : ~Flying(c)
      BY <1>a, <1>1 DEF LoadLast, QuietInv, LoadsFirst, SerialInv, LoadSeesPointer
    <2>2. CASE found # None
      <3>1. lastStored \in store /\ lastHash' = HashOf(lastStored) /\ UNCHANGED <<stage, built>>
        BY <1>1, <2>1, <2>2 DEF LoadLast, Push, PointerInv, PointerHasRecord
      <3>2. InStore(lastHash', store')
        BY <2>1, <3>1 DEF InStore
      <3> QED BY <1>0, <2>1, <2>2, <3>1, <3>2 DEF ChainedInv, Flying
    <2>3. CASE found = None
      <3> DEFINE e == [id |-> Genesis, boot |-> boot, prev |-> Zero]
      <3>1. Submit(Genesis, e) /\ e.prev = Zero
        BY <1>1, <2>3 DEF LoadLast
      <3> HIDE DEF e
      <3>2. /\ built'[Genesis] = e
            /\ \A d \in Calls : d # Genesis => stage'[d] = stage[d] /\ built'[d] = built[d]
        BY <3>1, SubmitWritesNothing
      <3>3. stage'[Genesis] = "put"
        BY <2>1, <3>1 DEF Submit, TypeOK
      <3>4. Flying(Genesis)' /\ \A c \in Events : ~Flying(c)'
        BY <2>1, <3>2, <3>3 DEF Flying, InFlight
      <3>5. \A c \in Calls : stage'[c] \notin {"failed", "refused"}
        BY <1>0, <3>2, <3>3 DEF ChainedInv
      <3> QED BY <1>0, <2>1, <2>3, <3>1, <3>2, <3>3, <3>4, <3>5 DEF ChainedInv
    <2> QED BY <2>2, <2>3
  <1>2. CASE Restart
    <2>1. UNCHANGED <<store, lastStored, built>> /\ start' = "loading"
      BY <1>2 DEF Restart
    <2>2. \A c \in Calls : ~Flying(c)' /\ stage'[c] \notin {"failed", "refused"}
      BY <1>0, <1>2 DEF Restart, Settled, Flying, InFlight, ChainedInv
    <2> QED BY <1>0, <2>1, <2>2 DEF ChainedInv
  <1>3. ASSUME NEW c \in Events, LogEvent(c) PROVE ChainedInv'
    <2> DEFINE e == [id |-> c, boot |-> boot, prev |-> lastHash]
    <2>1. /\ Submit(c, e) /\ c # Genesis /\ UNCHANGED <<store, lastStored, start>> /\ start = "ready"
          /\ (\A d \in Calls : ~Flying(d)) /\ e.prev = lastHash
      BY <1>a, <1>3 DEF LogEvent, MayStart, Serial, Settled, Flying
    <2> HIDE DEF e
    <2>2. /\ built'[c] = e
          /\ \A d \in Calls : d # c => stage'[d] = stage[d] /\ built'[d] = built[d]
      BY <2>1, SubmitWritesNothing
    <2>3. \/ stage'[c] = "checked" /\ lastHash' = lastHash
          \/ stage'[c] = "put"
      BY <1>a, <2>1 DEF Submit, TypeOK, QuietInv
    <2>4. InStore(lastHash, store) /\ lastStored # None
      BY <1>0, <2>1 DEF ChainedInv, Flying, InFlight
    <2>5. \A d \in Events : Flying(d)' => d = c
      BY <2>1, <2>2 DEF Flying
    <2>6. \A d \in Calls : stage'[d] \notin {"failed", "refused"}
      BY <1>0, <2>2, <2>3 DEF ChainedInv
    <2>7. ~Flying(Genesis)'
      BY <2>1, <2>2 DEF Flying
    <2> QED BY <1>0, <2>1, <2>2, <2>3, <2>4, <2>5, <2>6, <2>7 DEF ChainedInv
  <1>4. ASSUME NEW c \in Calls, AppendEntry(c) PROVE ChainedInv'
    <2>1. /\ UNCHANGED <<store, lastStored, start, built>> /\ stage'[c] = "put"
          /\ \A d \in Calls : d # c => stage'[d] = stage[d]
          /\ \A d \in Calls : Flying(d)' <=> Flying(d)
      BY <1>4 DEF AppendEntry, TypeOK, Flying, InFlight
    <2>2. \A d \in Calls : stage'[d] \notin {"failed", "refused"}
      BY <1>0, <2>1 DEF ChainedInv
    <2> QED BY <1>0, <2>1, <2>2 DEF ChainedInv
  <1>5. ASSUME NEW c \in Calls, PutEntry(c) PROVE ChainedInv'
    <2>1. /\ UNCHANGED <<lastStored, start, built>> /\ stage'[c] = "putLast" /\ Flying(c)
          /\ \A d \in Calls : d # c => stage'[d] = stage[d]
          /\ \A d \in Calls : Flying(d)' <=> Flying(d)
          /\ store' = {s \in store : s.id # c} \cup {built[c]} /\ built[c].id = c
      BY <1>5 DEF PutEntry, TypeOK, Flying, InFlight, PointerInv
    <2>2. \A d \in Calls : stage'[d] \notin {"failed", "refused"}
      BY <1>0, <2>1 DEF ChainedInv
    <2>3. \A s \in store' : InStore(s.prev, store')
      BY <1>a, <1>0, <1>5, PutKeepsRecords
    <2>4. \A d \in Events : Flying(d)' => InStore(built'[d].prev, store')
      <3> SUFFICES ASSUME NEW d \in Events, Flying(d) PROVE InStore(built[d].prev, store')
        BY <2>1
      <3>1. d = c
        BY <1>a, <2>1 DEF SerialInv, OneFlying
      <3> QED BY <3>1, <2>1, <2>3
    <2>5. built'[Genesis].prev = Zero /\ \A s \in store' : s.id = Genesis => s.prev = Zero
      BY <1>0, <2>1 DEF ChainedInv
    <2>6. lastStored' = None => (\A s \in store' : s.id = Genesis) /\ \A d \in Events : ~Flying(d)'
      BY <1>0, <2>1 DEF ChainedInv, Calls
    <2>7. start' = "ready" /\ ~Flying(Genesis)' => lastStored' # None
      BY <1>0, <2>1 DEF ChainedInv
    <2> QED BY <2>1, <2>2, <2>3, <2>4, <2>5, <2>6, <2>7 DEF ChainedInv
  <1>6. ASSUME NEW c \in Calls, PutLast(c) PROVE ChainedInv'
    <2>1. /\ UNCHANGED <<store, lastHash, start, built>> /\ stage'[c] = "done" /\ Flying(c)
          /\ \A d \in Calls : d # c => stage'[d] = stage[d]
          /\ lastStored' = built[c]
      BY <1>6 DEF PutLast, TypeOK, Flying, InFlight
    <2>2. lastHash = HashOf(built[c]) /\ built[c] \in store /\ lastStored' # None
      BY <1>a, <1>6, <2>1, NoneAssumption
      DEF PutLast, SerialInv, LastHashFollows, PointerInv, TypeOK
    <2>3. InStore(lastHash', store')
      BY <2>1, <2>2 DEF InStore
    <2>4. \A d \in Calls : stage'[d] \notin {"failed", "refused"}
      BY <1>0, <2>1 DEF ChainedInv
    <2>5. \A d \in Calls : ~Flying(d)'
      BY <1>a, <2>1 DEF SerialInv, OneFlying, Flying, InFlight
    <2> QED BY <1>0, <2>1, <2>2, <2>3, <2>4, <2>5 DEF ChainedInv
  <1>7. ASSUME NEW c \in Calls, PutFails(c) PROVE FALSE
    <2>1. faults' = faults + 1
      BY <1>7 DEF PutFails
    <2> QED BY <2>1, <1>0
  <1>8. CASE UNCHANGED vars
    <2>1. /\ UNCHANGED <<lastHash, store, lastStored, start, stage, built>>
          /\ \A c \in Calls : Flying(c)' <=> Flying(c)
      BY <1>8 DEF vars, Flying
    <2> QED BY <1>0, <2>1 DEF ChainedInv
  <1> QED BY <1>1, <1>2, <1>3, <1>4, <1>5, <1>6, <1>7, <1>8 DEF Next

\* With serial callers and no rejected write, the database alone holds a whole
\* trail, through any number of restarts and deaths between the two puts.
THEOREM StoreAlwaysChained == Spec => []StoreIsChained
PROOF
  <1>1. TypeOK /\ PointerInv /\ SerialIInv /\ ChainedIInv /\ [Next]_vars
        => TypeOK' /\ PointerInv' /\ SerialIInv' /\ ChainedIInv'
    BY NextTypeOK, NextPointerInv, NextSerialIInv, NextChainedIInv
  <1>2. Init => TypeOK /\ PointerInv /\ SerialIInv /\ ChainedIInv
    BY InitTypeOK, InitPointerInv, InitSerialIInv, InitChainedInv DEF ChainedIInv
  <1>3. ChainedIInv => StoreIsChained
    BY DEF ChainedIInv, Serial, ChainedInv, InStore, StoreIsChained
  <1> QED BY <1>1, <1>2, <1>3, PTL DEF Spec
=============================================================================
