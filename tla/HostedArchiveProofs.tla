-------------------------- MODULE HostedArchiveProofs --------------------------
(***************************************************************************)
(* Theorems about HostedArchive for every set of requests, every page and  *)
(* fetch size, and any number of faults and crashes: type correctness;     *)
(* what is acknowledged is in the hosted file, so that no archiver ever    *)
(* meets a gap; nothing is archived twice; and the progress shown is       *)
(* confirmed.                                                              *)
(***************************************************************************)
EXTENDS HostedArchive, TLAPS

-----------------------------------------------------------------------------
(* Type correctness.                                                       *)

Runtimes == [joined : BOOLEAN, cursor : 0 .. MaxRecords, log : Seq(Events), committed : Nat]

Entries == [on : BOOLEAN, start : Nat, cursor : Nat, visible : BOOLEAN]

\* The worker and its progress live only while the session is open.
WorkerLives == session # "open" => At(Worker, "idle") /\ ~catchup.on

\* What a step of an actor must preserve beside the rooms and the runtime.
ActorTypes == actors \in [Actors -> Works] /\ catchup \in Entries /\ WorkerLives

LEMMA RestingType == Resting \in Works /\ Resting.pc = "idle"
  BY DEF Resting, Works

LEMMA NoRoomType == NoRoom \in Rooms /\ NoRoom.cursor = 0
  <1>1. [id \in Ids |-> 0] \in [Ids -> Nat]
    OBVIOUS
  <1>. QED
    BY <1>1 DEF NoRoom, Rooms

LEMMA NoEntryType == NoEntry \in Entries /\ ~NoEntry.on
  BY DEF NoEntry, Entries

LEMMA ActorSets == Worker \in Actors /\ Callers \subseteq Actors /\ Worker \notin Callers
  BY HostedAssumption DEF Actors

\* The pieces of a candidate have their types, whatever the slice.
LEMMA CandidateType ==
    ASSUME mem \in Rooms, actors \in [Actors -> Works], NEW a \in Actors
    PROVE  /\ Candidate(a) \in Rooms
           /\ Candidate(a).cursor >= mem.cursor
           /\ Candidate(a).cursor >= actors[a].last
  <1>1. /\ mem.messages \in [Ids -> Nat] /\ mem.activity \in [Ids -> Nat]
        /\ mem.delivered \subseteq Ids /\ mem.linked \subseteq Ids /\ mem.cursor \in Nat
        /\ mem.operations \subseteq Callers /\ mem.error \in BOOLEAN
    BY DEF Rooms
  <1>2. Messages(New(a)) \in [Ids -> Nat] /\ Activity(New(a)) \in [Ids -> Nat]
    BY <1>1 DEF Messages, Activity
  <1>3. Delivered(New(a)) \subseteq Ids
    BY <1>1 DEF Delivered
  <1>4. Linked(Messages(New(a))) \subseteq Ids
    BY <1>1 DEF Linked, Ids
  <1>5. actors[a].channel \in Nat /\ actors[a].last \in Nat
        /\ actors[a].recovered \in BOOLEAN
    BY DEF Works
  <1>. QED
    BY <1>1, <1>2, <1>3, <1>4, <1>5 DEF Candidate, Rooms

LEMMA RememberedType ==
    ASSUME mem \in Rooms, NEW c \in Callers
    PROVE  /\ Remembered(c) \in Rooms
           /\ Remembered(c).cursor = mem.cursor
  <1>1. c \in Ids
    BY DEF Ids
  <1>. QED
    BY <1>1 DEF Remembered, Rooms

LEMMA RecordedType ==
    ASSUME NEW n \in 1 .. MaxRecords
    PROVE  Recorded(n) \in Events
  BY HostedAssumption DEF Recorded, Events, Ids

LEMMA SyncedType ==
    ASSUME runtime \in Runtimes, NEW next, Synced(next)
    PROVE  /\ next \in Runtimes
           /\ next.committed = runtime.committed
           /\ next.joined = runtime.joined
  <1>1. PICK last \in runtime.cursor .. MaxRecords :
            next = [runtime EXCEPT
                !.cursor = last,
                !.log = @ \o [i \in 1 .. last - runtime.cursor |-> Recorded(runtime.cursor + i)]]
    BY ZenonT(60) DEF Synced
  <1>2. /\ runtime.cursor \in Nat /\ MaxRecords \in Nat
        /\ last \in 0 .. MaxRecords /\ last - runtime.cursor \in Nat
    BY HostedAssumption DEF Runtimes
  <1>3. ASSUME NEW i \in 1 .. last - runtime.cursor
        PROVE  Recorded(runtime.cursor + i) \in Events
    BY <1>2, RecordedType
  <1>4. [i \in 1 .. last - runtime.cursor |-> Recorded(runtime.cursor + i)] \in Seq(Events)
    BY <1>2, <1>3
  <1>5. runtime.log \o [i \in 1 .. last - runtime.cursor |-> Recorded(runtime.cursor + i)]
            \in Seq(Events)
    BY <1>4 DEF Runtimes
  <1>. QED
    BY <1>1, <1>2, <1>5 DEF Runtimes

LEMMA LoggedType ==
    ASSUME runtime \in Runtimes, NEW event \in Events
    PROVE  [runtime EXCEPT !.log = Append(@, event)] \in Runtimes
  <1>1. Append(runtime.log, event) \in Seq(Events)
    BY DEF Runtimes
  <1>. QED
    BY <1>1 DEF Runtimes

LEMMA AcknowledgedType ==
    ASSUME runtime \in Runtimes, actors \in [Actors -> Works], NEW a \in Actors
    PROVE  Acknowledged(a) \in Runtimes
  BY DEF Runtimes, Works, Acknowledged

\* One actor becomes w; only a worker at work changes its progress.
LEMMA SetTypes ==
    ASSUME ActorTypes, NEW a \in Actors, NEW w \in Works,
           actors' = [actors EXCEPT ![a] = w], UNCHANGED session,
           a = Worker => w.pc = "idle" \/ session = "open",
           catchup' \in Entries,
           catchup'.on => catchup.on \/ session = "open"
    PROVE  ActorTypes'
  <1>1. actors' \in [Actors -> Works]
    BY DEF ActorTypes
  <1>2. WorkerLives'
    BY ActorSets DEF ActorTypes, WorkerLives, At
  <1>. QED
    BY <1>1, <1>2 DEF ActorTypes

LEMMA ReturnsTypes ==
    ASSUME ActorTypes, NEW a \in Actors, ~At(a, "idle"), ArchiveReturns(a), UNCHANGED session
    PROVE  ActorTypes'
  <1>1. a = Worker => session = "open"
    BY DEF ActorTypes, WorkerLives
  <1>2. actors[a].channel \in Nat
    BY DEF ActorTypes, Works
  <1>3. CASE a = Worker /\ ~actors[a].recovered
    <2>1. [Resting EXCEPT !.pc = "sync", !.recovered = TRUE] \in Works
      BY DEF Resting, Works
    <2>2. Begun(actors[a].channel) \in Entries
      BY <1>2 DEF Begun, ActorTypes, Entries
    <2>3. catchup' \in Entries
      BY <1>3, <2>2 DEF ArchiveReturns
    <2>. QED
      BY <1>1, <1>3, <2>1, <2>3, SetTypes DEF ArchiveReturns
  <1>4. CASE ~(a = Worker /\ ~actors[a].recovered)
    <2>1. catchup' \in Entries /\ (catchup'.on => catchup.on)
      BY <1>2, <1>4, NoEntryType DEF ArchiveReturns, Finished, ActorTypes, Entries
    <2>. QED
      BY <1>1, <1>4, <2>1, RestingType, SetTypes DEF ArchiveReturns
  <1>. QED
    BY <1>3, <1>4

LEMMA FailsTypes ==
    ASSUME ActorTypes, NEW a \in Actors, ~At(a, "idle"), StepFails(a), UNCHANGED session
    PROVE  ActorTypes'
  <1>1. a = Worker => session = "open"
    BY DEF ActorTypes, WorkerLives
  <1>2. [Resting EXCEPT !.pc = "record"] \in Works
    BY DEF Resting, Works
  <1>3. catchup' \in Entries /\ (catchup'.on => catchup.on)
    BY NoEntryType DEF StepFails, ActorTypes
  <1>. QED
    BY <1>1, <1>2, <1>3, RestingType, SetTypes DEF StepFails

LEMMA TypeParts ==
    TypeOK <=> /\ runtime \in Runtimes /\ ActorTypes /\ mem \in Rooms /\ disk \in Rooms
               /\ session \in {"none", "open", "stopping", "ended"}
               /\ faults \in 0 .. MaxFaults /\ crashes \in 0 .. MaxCrashes
  BY DEF TypeOK, Runtimes, ActorTypes, Entries, WorkerLives

\* The same after a step that keeps or spends the bounds.
LEMMA TypeRest ==
    ASSUME TypeOK, runtime' \in Runtimes, ActorTypes', mem' \in Rooms, disk' \in Rooms,
           session' \in {"none", "open", "stopping", "ended"}, Fault \/ UNCHANGED bounds
    PROVE  TypeOK'
  <1>1. faults' \in 0 .. MaxFaults /\ crashes' \in 0 .. MaxCrashes
    BY HostedAssumption DEF TypeOK, Fault, bounds
  <1>. QED
    BY <1>1 DEF TypeOK, Runtimes, ActorTypes, Entries, WorkerLives

LEMMA TypeInit == Init => TypeOK
  <1> SUFFICES ASSUME Init PROVE TypeOK
    OBVIOUS
  <1>1. runtime \in Runtimes
    BY HostedAssumption DEF Init, Runtimes
  <1>2. ActorTypes
    BY RestingType, NoEntryType, ActorSets DEF Init, ActorTypes, WorkerLives, At
  <1>. QED
    BY <1>1, <1>2, NoRoomType, TypeParts, HostedAssumption DEF Init

-----------------------------------------------------------------------------
(* The steps of archive_hosted.                                            *)

LEMMA FetchTypes ==
    ASSUME TypeOK, NEW a \in Actors, Fetch(a)
    PROVE  TypeOK'
  <1> DEFINE end == Len(runtime.log)
             upTo == IF end - runtime.committed > Limit THEN runtime.committed + Limit ELSE end
             w == [actors[a] EXCEPT !.pc = "apply", !.first = runtime.committed + 1, !.last = upTo]
  <1>1. /\ end \in Nat /\ runtime.committed \in Nat /\ actors[a] \in Works /\ Limit \in Nat
        /\ actors \in [Actors -> Works]
    BY HostedAssumption DEF TypeOK
  <1>2. w \in Works
    <2>1. upTo \in Nat /\ runtime.committed + 1 \in Nat
      BY <1>1
    <2> HIDE DEF upTo
    <2>. QED
      BY <1>1, <2>1 DEF Works
  <1>3. actors' = [actors EXCEPT ![a] = w]
    BY <1>1 DEF Fetch
  <1>4. a = Worker => session = "open"
    BY DEF Fetch, TypeOK, At
  <1> HIDE DEF w
  <1>5. ActorTypes'
    BY <1>2, <1>3, <1>4, SetTypes, TypeParts DEF Fetch, ActorTypes
  <1>. QED
    BY <1>5, TypeParts, TypeRest DEF Fetch

LEMMA ApplyTypes ==
    ASSUME TypeOK, NEW a \in Actors, Apply(a)
    PROVE  TypeOK'
  <1> DEFINE room == Candidate(a)
             w == [actors[a] EXCEPT !.pc = "commit", !.first = 1, !.last = 0,
                                    !.through = room.cursor]
  <1>1. room \in Rooms /\ room.cursor \in Nat /\ actors[a] \in Works
        /\ actors \in [Actors -> Works] /\ ActorTypes /\ ~At(a, "idle")
    <2>1. mem \in Rooms /\ ActorTypes /\ actors \in [Actors -> Works]
      BY TypeParts DEF ActorTypes
    <2>2. room \in Rooms
      BY <2>1, CandidateType
    <2>. QED
      BY <2>1, <2>2 DEF Rooms, Apply, At
  <1>2. mem' \in Rooms /\ disk' \in Rooms
    BY <1>1 DEF Apply, TypeOK
  <1> HIDE DEF room
  <1>3. CASE ArchiveReturns(a)
    <2>1. ActorTypes'
      BY <1>1, <1>3, ReturnsTypes DEF Apply
    <2>. QED
      BY <1>2, <2>1, TypeParts, TypeRest DEF Apply
  <1>4. CASE /\ actors' = [actors EXCEPT ![a] =
                  [@ EXCEPT !.pc = "commit", !.first = 1, !.last = 0, !.through = room.cursor]]
             /\ UNCHANGED catchup
    <2>1. w \in Works
      BY <1>1 DEF Works
    <2>2. actors' = [actors EXCEPT ![a] = w]
      BY <1>1, <1>4
    <2>3. a = Worker => session = "open"
      BY <1>1 DEF TypeOK
    <2>4. ActorTypes'
      BY <1>1, <1>4, <2>1, <2>2, <2>3, SetTypes DEF Apply, ActorTypes
    <2>. QED
      BY <1>2, <2>4, TypeParts, TypeRest DEF Apply
  <1>. QED
    BY <1>3, <1>4 DEF Apply, room

LEMMA ApplyFailsTypes ==
    ASSUME TypeOK, NEW a \in Actors, ApplyFails(a) \/ ApplyRefused(a)
    PROVE  TypeOK'
  <1>1. mem \in Rooms /\ ActorTypes /\ actors \in [Actors -> Works]
    BY TypeParts DEF ActorTypes
  <1>2. Candidate(a) \in Rooms
    BY <1>1, CandidateType
  <1>3. disk' \in Rooms
    BY <1>2 DEF ApplyFails, ApplyRefused, TypeOK
  <1>4. ~At(a, "idle") /\ StepFails(a) /\ UNCHANGED <<runtime, session, mem>>
    BY DEF ApplyFails, ApplyRefused, At
  <1>5. ActorTypes'
    BY <1>1, <1>4, FailsTypes
  <1>. QED
    BY <1>3, <1>4, <1>5, TypeParts, TypeRest DEF ApplyFails, ApplyRefused

LEMMA CommitTypes ==
    ASSUME TypeOK, NEW a \in Actors, Commit(a)
    PROVE  TypeOK'
  <1>1. ActorTypes /\ actors \in [Actors -> Works] /\ runtime \in Runtimes
    BY TypeParts DEF ActorTypes
  <1>2. runtime' \in Runtimes
    BY <1>1, AcknowledgedType DEF Commit
  <1>3. ActorTypes'
    BY <1>1, ReturnsTypes DEF Commit, At
  <1>. QED
    BY <1>2, <1>3, TypeParts, TypeRest DEF Commit

LEMMA CallFailsTypes ==
    ASSUME TypeOK, NEW a \in Actors, CallFails(a)
    PROVE  TypeOK'
  <1>1. ActorTypes /\ actors \in [Actors -> Works] /\ runtime \in Runtimes
    BY TypeParts DEF ActorTypes
  <1>2. runtime' \in Runtimes
    BY <1>1, AcknowledgedType, SyncedType DEF CallFails
  <1>3. ActorTypes'
    BY <1>1, FailsTypes DEF CallFails, At
  <1>. QED
    BY <1>2, <1>3, TypeParts, TypeRest DEF CallFails

LEMMA SyncTypes ==
    ASSUME TypeOK, NEW a \in Actors, Sync(a)
    PROVE  TypeOK'
  <1> DEFINE w == [actors[a] EXCEPT !.pc = "fetch", !.recovered = TRUE,
                                    !.channel = runtime'.cursor]
  <1>1. ActorTypes /\ actors \in [Actors -> Works] /\ runtime \in Runtimes /\ actors[a] \in Works
    BY TypeParts DEF ActorTypes
  <1>2. runtime' \in Runtimes
    BY <1>1, SyncedType DEF Sync
  <1>3. runtime'.cursor \in Nat
    BY <1>2, HostedAssumption DEF Runtimes
  <1>4. w \in Works
    BY <1>1, <1>3 DEF Works
  <1>5. actors' = [actors EXCEPT ![a] = w]
    BY <1>1 DEF Sync
  <1>6. a = Worker => session = "open"
    BY DEF Sync, TypeOK, At
  <1> HIDE DEF w
  <1>7. ActorTypes'
    BY <1>1, <1>4, <1>5, <1>6, SetTypes DEF Sync, ActorTypes
  <1>. QED
    BY <1>2, <1>7, TypeParts, TypeRest DEF Sync

-----------------------------------------------------------------------------
(* The worker's other steps, the requests and the session.                 *)

LEMMA ListTypes ==
    ASSUME TypeOK, List
    PROVE  TypeOK'
  <1> DEFINE w == [Resting EXCEPT !.pc = "fetch", !.channel = runtime.cursor]
  <1>1. runtime.cursor \in Nat /\ ActorTypes
    BY HostedAssumption, TypeParts DEF Runtimes
  <1>2. w \in Works
    BY <1>1 DEF Resting, Works
  <1>3. ActorTypes'
    BY <1>1, <1>2, ActorSets, SetTypes DEF List, ActorTypes
  <1>. QED
    BY <1>3, TypeParts, TypeRest DEF List

LEMMA ProgressTypes ==
    ASSUME TypeOK, ListFails \/ Show
    PROVE  TypeOK'
  <1>1. ActorTypes
    BY TypeParts
  <1>2. catchup' \in Entries /\ (catchup'.on => catchup.on)
    BY <1>1, NoEntryType DEF ListFails, Show, ActorTypes, Entries
  <1>3. ActorTypes'
    BY <1>1, <1>2 DEF ListFails, Show, ActorTypes, WorkerLives, At
  <1>. QED
    BY <1>3, TypeParts, TypeRest DEF ListFails, Show

LEMMA RecordErrorTypes ==
    ASSUME TypeOK, RecordError \/ RecordErrorFails
    PROVE  TypeOK'
  <1>1. ActorTypes /\ mem \in Rooms /\ disk \in Rooms
    BY TypeParts
  <1>2. [mem EXCEPT !.error = TRUE] \in Rooms
    BY <1>1 DEF Rooms
  <1>3. mem' \in Rooms /\ disk' \in Rooms
    BY <1>1, <1>2 DEF RecordError, RecordErrorFails
  <1>4. ActorTypes'
    BY <1>1, RestingType, ActorSets, SetTypes DEF RecordError, RecordErrorFails, ActorTypes
  <1>. QED
    BY <1>3, <1>4, TypeParts, TypeRest DEF RecordError, RecordErrorFails

LEMMA JoinTypes ==
    ASSUME TypeOK, NEW c \in Callers, Join(c)
    PROVE  TypeOK'
  <1> DEFINE w == [Resting EXCEPT !.pc = "fetch", !.channel = runtime.cursor]
  <1>1. runtime.cursor \in Nat /\ ActorTypes /\ runtime \in Runtimes
    BY HostedAssumption, TypeParts DEF Runtimes
  <1>2. w \in Works
    BY <1>1 DEF Resting, Works
  <1>3. ActorTypes'
    BY <1>1, <1>2, ActorSets, SetTypes DEF Join, ActorTypes
  <1>4. runtime' \in Runtimes
    BY <1>1 DEF Join, Runtimes
  <1>. QED
    BY <1>3, <1>4, TypeParts, TypeRest DEF Join

LEMMA RefreshTypes ==
    ASSUME TypeOK, NEW c \in Callers, Refresh(c)
    PROVE  TypeOK'
  <1>1. [Resting EXCEPT !.pc = "sync"] \in Works /\ ActorTypes
    BY TypeParts DEF Resting, Works
  <1>2. ActorTypes'
    BY <1>1, ActorSets, SetTypes DEF Refresh, ActorTypes
  <1>. QED
    BY <1>2, TypeParts, TypeRest DEF Refresh

LEMMA SendTypes ==
    ASSUME TypeOK, NEW c \in Callers, Send(c)
    PROVE  TypeOK'
  <1> DEFINE w == [actors[c] EXCEPT !.pc = "remember"]
  <1>1. ActorTypes /\ runtime \in Runtimes /\ actors \in [Actors -> Works]
        /\ c \in Actors /\ c # Worker
    BY TypeParts, ActorSets DEF ActorTypes
  <1>2. [kind |-> "message", id |-> c, record |-> 0] \in Events
    BY DEF Events, Ids
  <1>3. runtime' \in Runtimes
    BY <1>1, <1>2, LoggedType DEF Send
  <1>4. w \in Works
    BY <1>1 DEF Works
  <1>5. actors' = actors \/ actors' = [actors EXCEPT ![c] = w]
    BY <1>1 DEF Send, Become
  <1> HIDE DEF w
  <1>6. ActorTypes'
    <2>1. CASE actors' = [actors EXCEPT ![c] = w]
      BY <1>1, <1>4, <2>1, SetTypes DEF Send, ActorTypes
    <2>2. CASE actors' = actors
      BY <1>1, <2>2 DEF Send, ActorTypes, WorkerLives, At
    <2>. QED
      BY <1>5, <2>1, <2>2
  <1>. QED
    BY <1>3, <1>6, TypeParts, TypeRest DEF Send

LEMMA RememberTypes ==
    ASSUME TypeOK, NEW c \in Callers, Remember(c)
    PROVE  TypeOK'
  <1>1. ActorTypes /\ mem \in Rooms /\ disk \in Rooms
    BY TypeParts
  <1>2. Remembered(c) \in Rooms
    BY <1>1, RememberedType
  <1>3. mem' \in Rooms /\ disk' \in Rooms
    BY <1>1, <1>2 DEF Remember
  <1>4. ActorTypes'
    BY <1>1, RestingType, ActorSets, SetTypes DEF Remember, ActorTypes
  <1>. QED
    BY <1>3, <1>4, TypeParts, TypeRest DEF Remember

LEMMA CancelTypes ==
    ASSUME TypeOK, NEW c \in Callers, Cancel(c)
    PROVE  TypeOK'
  <1>1. ActorTypes'
    BY RestingType, ActorSets, SetTypes, TypeParts DEF Cancel, ActorTypes
  <1>. QED
    BY <1>1, TypeParts, TypeRest DEF Cancel

LEMMA DeliverTypes ==
    ASSUME TypeOK, NEW c \in Callers, Deliver(c)
    PROVE  TypeOK'
  <1>1. [kind |-> "delivery", id |-> c, record |-> 0] \in Events
    BY DEF Events, Ids
  <1>2. runtime' \in Runtimes
    BY <1>1, LoggedType, TypeParts DEF Deliver
  <1>3. ActorTypes'
    BY TypeParts DEF Deliver, ActorTypes, WorkerLives, At
  <1>. QED
    BY <1>2, <1>3, TypeParts, TypeRest DEF Deliver

LEMMA SessionTypes ==
    ASSUME TypeOK, Unlock \/ OtherSave \/ CloseSession
    PROVE  TypeOK'
  <1>1. ActorTypes
    BY TypeParts
  <1>2. mem' \in Rooms /\ disk' \in Rooms
    BY NoRoomType, TypeParts DEF Unlock, OtherSave, CloseSession
  <1>3. ActorTypes'
    BY <1>1 DEF Unlock, OtherSave, CloseSession, ActorTypes, WorkerLives, At
  <1>. QED
    BY <1>2, <1>3, TypeParts, TypeRest DEF Unlock, OtherSave, CloseSession

LEMMA DisconnectTypes ==
    ASSUME TypeOK, Disconnect
    PROVE  TypeOK'
  <1>1. ActorTypes
    BY TypeParts
  <1>2. ActorTypes'
    BY <1>1, RestingType, NoEntryType, ActorSets DEF Disconnect, ActorTypes, WorkerLives, At
  <1>. QED
    BY <1>2, TypeParts, TypeRest DEF Disconnect

LEMMA CrashTypes ==
    ASSUME TypeOK, Crash
    PROVE  TypeOK'
  <1>1. ActorTypes'
    BY RestingType, NoEntryType, ActorSets DEF Crash, ActorTypes, WorkerLives, At
  <1>2. faults' \in 0 .. MaxFaults /\ crashes' \in 0 .. MaxCrashes
    BY HostedAssumption DEF Crash, TypeOK
  <1>3. runtime' \in Runtimes /\ mem' \in Rooms /\ disk' \in Rooms /\ session' = "none"
    BY NoRoomType, TypeParts DEF Crash
  <1>. QED
    BY <1>1, <1>2, <1>3 DEF TypeOK, Runtimes, ActorTypes, Entries, WorkerLives

LEMMA TypeStep == TypeOK /\ [Next]_vars => TypeOK'
  <1> SUFFICES ASSUME TypeOK, [Next]_vars PROVE TypeOK'
    OBVIOUS
  <1>1. ASSUME NEW a \in Actors, Archiving(a) \/ ApplyFails(a) \/ CallFails(a)
        PROVE  TypeOK'
    BY <1>1, FetchTypes, ApplyTypes, ApplyFailsTypes, CommitTypes, SyncTypes, CallFailsTypes
       DEF Archiving
  <1>2. ASSUME NEW c \in Callers,
               Deliver(c) \/ Join(c) \/ Refresh(c) \/ Send(c) \/ Remember(c) \/ Cancel(c)
        PROVE  TypeOK'
    BY <1>2, DeliverTypes, JoinTypes, RefreshTypes, SendTypes, RememberTypes, CancelTypes
  <1>3. ASSUME List \/ ListFails \/ Show \/ RecordError \/ RecordErrorFails
        PROVE  TypeOK'
    BY <1>3, ListTypes, ProgressTypes, RecordErrorTypes
  <1>4. ASSUME Unlock \/ OtherSave \/ Disconnect \/ CloseSession \/ Crash
        PROVE  TypeOK'
    BY <1>4, SessionTypes, DisconnectTypes, CrashTypes
  <1>5. CASE UNCHANGED vars
    BY <1>5 DEF vars, bounds, TypeOK, At
  <1>. QED
    BY <1>1, <1>2, <1>3, <1>4, <1>5 DEF Next

\* The shape of the archive, of the runtime's log and of what every actor is
\* doing; the worker and its progress live only while the session is open
\* (disconnect aborts it and clears the catch-up).
THEOREM TypeCorrect == Spec => []TypeOK
  <1>. QED
    BY TypeInit, TypeStep, PTL DEF Spec

-----------------------------------------------------------------------------
(* The runtime's log, and what a room must have of it.                     *)

\* The event n of a log is of the kind and about the message or activity.
Says(log, n, kind, id) == log[n].kind = kind /\ log[n].id = id

Logged(log, kind, id) == \E n \in DOMAIN log : Says(log, n, kind, id)

\* An event of a record that was synchronised, or of a message sent from here;
\* none twice; a delivery after its message.
Origin(event, cursor) ==
    \/ event.record = 0 /\ event.id \in Callers /\ event.kind # "activity"
    \/ event.record = event.id /\ event.id \in 1 .. cursor /\ event.kind # "delivery"

SoundLog(log, cursor) ==
    /\ \A n \in DOMAIN log : Origin(log[n], cursor)
    /\ \A i, j \in DOMAIN log : log[i].kind = log[j].kind /\ log[i].id = log[j].id => i = j
    /\ \A d \in DOMAIN log : log[d].kind = "delivery" =>
          \E n \in DOMAIN log : n < d /\ Says(log, n, "message", log[d].id)

Extends(next, log) ==
    Len(log) <= Len(next) /\ \A n \in DOMAIN log : next[n] = log[n]

\* Archived, of any log.
Holds(log, room, n) ==
    /\ n <= room.cursor
    /\ log[n].kind = "message" => Has(room, log[n].id)
    /\ log[n].kind = "delivery" => Has(room, log[n].id) /\ log[n].id \in room.delivered
    /\ log[n].kind = "activity" => room.activity[log[n].id] > 0

\* The room has every event up to its cursor, and nothing else.
Whole(log, room) ==
    \A n \in 1 .. room.cursor : n \in DOMAIN log /\ Holds(log, room, n)

Noted(log, room, id) ==
    \E n \in DOMAIN log : n <= room.cursor /\ Says(log, n, "activity", id)

Once(log, room) ==
    \A id \in Ids :
        /\ room.messages[id] <= 1
        /\ Has(room, id) => Logged(log, "message", id)
        /\ room.activity[id] = IF Noted(log, room, id) THEN 1 ELSE 0

Sound(log, room) == Whole(log, room) /\ Once(log, room)

LEMMA LogFacts ==
    ASSUME NEW log \in Seq(Events)
    PROVE  /\ Len(log) \in Nat /\ DOMAIN log = 1 .. Len(log)
           /\ \A n \in DOMAIN log : log[n] \in Events
  OBVIOUS

\* A room is as sound when the log has grown.
LEMMA SoundGrows ==
    ASSUME NEW log \in Seq(Events), NEW next \in Seq(Events), NEW room \in Rooms,
           Extends(next, log), Sound(log, room)
    PROVE  Sound(next, room)
  <1>1. DOMAIN log \subseteq DOMAIN next /\ \A n \in DOMAIN log : next[n] = log[n]
    BY LogFacts DEF Extends
  <1>2. Whole(next, room)
    BY <1>1 DEF Sound, Whole, Holds
  <1>3. room.cursor \in Nat /\ \A n \in DOMAIN next : n <= room.cursor => n \in DOMAIN log
    <2>1. room.cursor \in Nat
      BY DEF Rooms
    <2>2. ASSUME NEW n \in DOMAIN next, n <= room.cursor PROVE n \in DOMAIN log
      <3>1. n \in 1 .. room.cursor
        BY <2>1, <2>2, LogFacts
      <3>. QED
        BY <3>1 DEF Sound, Whole
    <2>. QED
      BY <2>1, <2>2
  <1>4. ASSUME NEW id \in Ids
        PROVE  /\ Logged(log, "message", id) => Logged(next, "message", id)
               /\ Noted(log, room, id) <=> Noted(next, room, id)
    BY <1>1, <1>3 DEF Logged, Noted, Says
  <1>5. Once(next, room)
    BY <1>4 DEF Sound, Once
  <1>. QED
    BY <1>2, <1>5 DEF Sound

LEMMA NoRoomSound ==
    ASSUME NEW log \in Seq(Events)
    PROVE  Sound(log, NoRoom)
  <1>1. \A id \in Ids : NoRoom.messages[id] = 0 /\ NoRoom.activity[id] = 0
    BY DEF NoRoom
  <1>2. \A id \in Ids : ~Noted(log, NoRoom, id)
    BY NoRoomType, LogFacts DEF Noted
  <1>3. Whole(log, NoRoom)
    BY NoRoomType DEF Whole
  <1>. QED
    BY <1>1, <1>2, <1>3 DEF Sound, Once, Has

\* Soundness does not depend on the description, the links or the error.
LEMMA SameSound ==
    ASSUME NEW log, NEW room, NEW other, Sound(log, room),
           other.cursor = room.cursor, other.messages = room.messages,
           other.delivered = room.delivered, other.activity = room.activity
    PROVE  Sound(log, other)
  <1>1. Whole(log, other)
    BY DEF Sound, Whole, Holds, Has
  <1>2. \A id \in Ids : Noted(log, other, id) <=> Noted(log, room, id)
    BY DEF Noted
  <1>3. Once(log, other)
    BY <1>2 DEF Sound, Once, Has
  <1>. QED
    BY <1>1, <1>3 DEF Sound

\* The sender's own copy, once its event is logged.
LEMMA RememberedSound ==
    ASSUME mem \in Rooms, NEW c \in Callers, Sound(runtime.log, mem),
           Logged(runtime.log, "message", c)
    PROVE  Sound(runtime.log, Remembered(c))
  <1> DEFINE room == Remembered(c)
  <1>1. c \in Ids
    BY DEF Ids
  <1>2. CASE Has(mem, c)
    <2>1. /\ room.cursor = mem.cursor /\ room.messages = mem.messages
          /\ room.delivered = mem.delivered /\ room.activity = mem.activity
      BY <1>2 DEF Remembered, Rooms
    <2>. QED
      BY <2>1, SameSound
  <1>3. CASE ~Has(mem, c)
    <2>1. /\ room.cursor = mem.cursor /\ room.delivered = mem.delivered
          /\ room.activity = mem.activity
          /\ room.messages = [mem.messages EXCEPT ![c] = 1]
      BY <1>3 DEF Remembered, Rooms
    <2>2. mem.messages \in [Ids -> Nat]
      BY DEF Rooms
    <2>3. room.messages[c] = 1 /\ \A id \in Ids \ {c} : room.messages[id] = mem.messages[id]
      BY <1>1, <2>1, <2>2
    <2> HIDE DEF room
    <2>5. Whole(runtime.log, room)
      <3> SUFFICES ASSUME NEW n \in 1 .. room.cursor
                   PROVE  n \in DOMAIN runtime.log /\ Holds(runtime.log, room, n)
        BY DEF Whole
      <3>1. n \in DOMAIN runtime.log /\ Holds(runtime.log, mem, n)
        BY <2>1 DEF Sound, Whole
      <3>2. \A id : Has(mem, id) => Has(room, id)
        BY <1>3, <2>1, <2>2, <2>3 DEF Has
      <3>. QED
        BY <2>1, <3>1, <3>2 DEF Holds
    <2>6. \A id \in Ids : Noted(runtime.log, room, id) <=> Noted(runtime.log, mem, id)
      BY <2>1 DEF Noted
    <2>7. Once(runtime.log, room)
      BY <2>1, <2>3, <2>6 DEF Sound, Once, Has
    <2>. QED
      BY <2>5, <2>7 DEF Sound, room
  <1>. QED
    BY <1>2, <1>3

\* The candidate of a slice that begins within the archive.
LEMMA CandidateSound ==
    ASSUME mem \in Rooms, actors \in [Actors -> Works], runtime \in Runtimes, NEW a \in Actors,
           SoundLog(runtime.log, runtime.cursor), Sound(runtime.log, mem),
           actors[a].first <= mem.cursor + 1, actors[a].last <= Len(runtime.log)
    PROVE  Sound(runtime.log, Candidate(a))
  <1> DEFINE log == runtime.log
             room == Candidate(a)
             new == New(a)
  <1>1. /\ log \in Seq(Events) /\ DOMAIN log = 1 .. Len(log) /\ Len(log) \in Nat
        /\ \A n \in DOMAIN log : log[n].id \in Ids
    <2>1. log \in Seq(Events)
      BY DEF Runtimes
    <2>2. \A event \in Events : event.id \in Ids
      BY DEF Events
    <2>. QED
      BY <2>1, <2>2, LogFacts
  <1>2. /\ mem.cursor \in Nat /\ actors[a].first \in Nat /\ actors[a].last \in Nat
        /\ mem.messages \in [Ids -> Nat] /\ mem.activity \in [Ids -> Nat]
    BY DEF Rooms, Works
  <1>3. /\ room.cursor = IF actors[a].last > mem.cursor THEN actors[a].last ELSE mem.cursor
        /\ room.messages = Messages(new) /\ room.delivered = Delivered(new)
        /\ room.activity = Activity(new)
    BY DEF Candidate
  <1>4. \A n \in 1 .. mem.cursor : n \in DOMAIN log /\ Holds(log, mem, n)
    BY DEF Sound, Whole
  <1>5. \A n : n \in new <=> n \in 1 .. room.cursor /\ n > mem.cursor
    BY <1>2, <1>3 DEF New, Numbered
  <1>6. \A n \in 1 .. room.cursor : n \in DOMAIN log
    BY <1>1, <1>2, <1>3, <1>4
  <1>7. \A n, kind, id : Reports(n, kind, id) <=> Says(log, n, kind, id)
    BY DEF Reports, Says
  <1>8. ASSUME NEW id \in Ids
        PROVE  /\ room.messages[id] = IF ~Has(mem, id) /\ \E n \in new : Says(log, n, "message", id)
                                      THEN 1 ELSE mem.messages[id]
               /\ room.activity[id] = IF \E n \in new : Says(log, n, "activity", id)
                                      THEN mem.activity[id] + 1 ELSE mem.activity[id]
    BY <1>3, <1>7 DEF Messages, Activity
  <1>9. \A id \in Ids : id \in room.delivered <=>
            \/ id \in mem.delivered
            \/ \E d \in new : /\ Says(log, d, "delivery", id)
                             /\ \/ Has(mem, id)
                                \/ \E n \in new : n < d /\ Says(log, n, "message", id)
    BY <1>3, <1>7 DEF Delivered
  <1> HIDE DEF new, room
  <1>10. Whole(log, room)
    <2> SUFFICES ASSUME NEW n \in 1 .. room.cursor PROVE Holds(log, room, n)
      BY <1>6 DEF Whole
    <2>1. n \in DOMAIN log /\ log[n].id \in Ids /\ n \in Nat /\ room.cursor \in Nat
      BY <1>1, <1>2, <1>3, <1>6
    <2>2. \A id \in Ids :
              /\ Has(mem, id) => Has(room, id)
              /\ mem.activity[id] > 0 => room.activity[id] > 0
              /\ (\E m \in new : Says(log, m, "message", id)) => Has(room, id)
              /\ (\E m \in new : Says(log, m, "activity", id)) => room.activity[id] > 0
      <3> TAKE id \in Ids
      <3>1. mem.messages[id] \in Nat /\ mem.activity[id] \in Nat
        BY <1>2
      <3>. QED
        BY <1>8, <3>1 DEF Has
    <2>3. CASE n <= mem.cursor
      <3>1. Holds(log, mem, n)
        BY <1>2, <1>4, <2>1, <2>3
      <3>2. log[n].kind = "activity" => room.activity[log[n].id] > 0
        BY <2>1, <2>2, <3>1 DEF Holds
      <3>. QED
        BY <1>9, <2>1, <2>2, <3>1, <3>2 DEF Holds
    <2>4. CASE n > mem.cursor
      <3>1. n \in new
        BY <1>5, <2>4
      <3>2. log[n].kind = "message" => Has(room, log[n].id)
        BY <2>1, <2>2, <3>1 DEF Says
      <3>3. log[n].kind = "activity" => room.activity[log[n].id] > 0
        BY <2>1, <2>2, <3>1 DEF Says
      <3>4. ASSUME log[n].kind = "delivery"
            PROVE  Has(room, log[n].id) /\ log[n].id \in room.delivered
        <4>1. PICK m \in DOMAIN log : m < n /\ Says(log, m, "message", log[n].id)
          BY <2>1, <3>4 DEF SoundLog
        <4>2. m \in Nat /\ m >= 1
          BY <1>1, <4>1
        <4>3. CASE m <= mem.cursor
          <5>1. Has(mem, log[n].id)
            BY <1>2, <1>4, <4>1, <4>2, <4>3 DEF Holds, Says
          <5>. QED
            BY <1>9, <2>1, <2>2, <3>1, <3>4, <5>1 DEF Says
        <4>4. CASE m > mem.cursor
          <5>1. m \in new
            BY <1>5, <2>1, <4>1, <4>2, <4>4
          <5>2. Has(room, log[n].id)
            BY <2>1, <2>2, <4>1, <5>1
          <5>. QED
            BY <1>9, <2>1, <3>1, <3>4, <4>1, <5>1, <5>2 DEF Says
        <4>. QED
          BY <1>2, <4>2, <4>3, <4>4
      <3>. QED
        BY <2>1, <3>2, <3>3, <3>4 DEF Holds
    <2>. QED
      BY <1>2, <2>1, <2>3, <2>4
  <1>11. Once(log, room)
    <2> SUFFICES ASSUME NEW id \in Ids
                 PROVE  /\ room.messages[id] <= 1
                        /\ Has(room, id) => Logged(log, "message", id)
                        /\ room.activity[id] = IF Noted(log, room, id) THEN 1 ELSE 0
      BY DEF Once
    <2>1. /\ mem.messages[id] <= 1
          /\ Has(mem, id) => Logged(log, "message", id)
          /\ mem.activity[id] = IF Noted(log, mem, id) THEN 1 ELSE 0
      BY DEF Sound, Once
    <2>2. \A n \in new : n \in DOMAIN log
      BY <1>5, <1>6
    <2>3. room.messages[id] <= 1
      BY <1>8, <2>1
    <2>4. Has(room, id) => Logged(log, "message", id)
      BY <1>8, <2>1, <2>2 DEF Has, Logged
    <2>5. Noted(log, room, id) <=>
              Noted(log, mem, id) \/ \E n \in new : Says(log, n, "activity", id)
      <3>1. \A n \in DOMAIN log : n <= room.cursor <=> n <= mem.cursor \/ n \in new
        BY <1>1, <1>2, <1>3, <1>5
      <3>. QED
        BY <2>2, <3>1 DEF Noted
    <2>6. ~(Noted(log, mem, id) /\ \E n \in new : Says(log, n, "activity", id))
      <3> SUFFICES ASSUME NEW i \in DOMAIN log, i <= mem.cursor, Says(log, i, "activity", id),
                          NEW n \in new, Says(log, n, "activity", id)
                   PROVE  FALSE
        BY DEF Noted
      <3>1. i = n
        BY <2>2 DEF SoundLog, Says
      <3>. QED
        BY <1>1, <1>2, <1>5, <3>1
    <2>7. room.activity[id] = IF Noted(log, room, id) THEN 1 ELSE 0
      BY <1>8, <2>1, <2>5, <2>6
    <2>. QED
      BY <2>3, <2>4, <2>7
  <1>. QED
    BY <1>10, <1>11 DEF Sound, room

-----------------------------------------------------------------------------
(* The runtime only goes on: its log is extended by events it never had.   *)

Advances(next) ==
    /\ SoundLog(next.log, next.cursor)
    /\ Extends(next.log, runtime.log)
    /\ next.cursor >= runtime.cursor
    /\ \A n \in DOMAIN next.log \ DOMAIN runtime.log : next.log[n].record \notin 1 .. runtime.cursor

LEMMA StaysAdvances ==
    ASSUME runtime \in Runtimes, SoundLog(runtime.log, runtime.cursor), NEW next,
           next.log = runtime.log, next.cursor = runtime.cursor
    PROVE  Advances(next)
  BY HostedAssumption DEF Advances, Extends, Runtimes

LEMMA Appended ==
    ASSUME NEW S, NEW s \in Seq(S), NEW t \in Seq(S), NEW k \in 1 .. Len(t)
    PROVE  (s \o t)[Len(s) + k] = t[k]
  <1>1. Len(s) \in Nat /\ Len(t) \in Nat
    OBVIOUS
  <1>. QED
    BY <1>1

LEMMA SyncedAdvances ==
    ASSUME runtime \in Runtimes, SoundLog(runtime.log, runtime.cursor), NEW next, Synced(next)
    PROVE  Advances(next)
  <1>1. PICK last \in runtime.cursor .. MaxRecords :
            next = [runtime EXCEPT
                !.cursor = last,
                !.log = @ \o [i \in 1 .. last - runtime.cursor |-> Recorded(runtime.cursor + i)]]
    BY ZenonT(60) DEF Synced
  <1> DEFINE log == runtime.log
             cursor == runtime.cursor
             page == [i \in 1 .. last - cursor |-> Recorded(cursor + i)]
  <1>2. /\ cursor \in Nat /\ MaxRecords \in Nat /\ last \in Nat
        /\ cursor <= last /\ last <= MaxRecords /\ last - cursor \in Nat
        /\ log \in Seq(Events) /\ Len(log) \in Nat /\ DOMAIN log = 1 .. Len(log)
    BY HostedAssumption DEF Runtimes
  <1>3. next.log = log \o page /\ next.cursor = last
    BY <1>1 DEF Runtimes
  <1>4. page \in Seq(Events) /\ Len(page) = last - cursor
    <2>1. ASSUME NEW i \in 1 .. last - cursor
          PROVE  Recorded(cursor + i) \in Events
      BY <1>2, RecordedType
    <2>2. page \in [1 .. last - cursor -> Events]
      BY <2>1
    <2> HIDE DEF page
    <2>. QED
      BY <1>2, <2>2, SMTT(60)
  <1>5. /\ Len(next.log) = Len(log) + (last - cursor)
        /\ DOMAIN next.log = 1 .. Len(log) + (last - cursor)
        /\ \A n \in 1 .. Len(log) : next.log[n] = log[n]
    BY <1>2, <1>3, <1>4
  <1>6. ASSUME NEW n \in Len(log) + 1 .. Len(log) + (last - cursor)
        PROVE  /\ next.log[n].id = cursor + (n - Len(log))
               /\ next.log[n].record = cursor + (n - Len(log))
               /\ next.log[n].kind # "delivery"
               /\ cursor + (n - Len(log)) \in 1 .. MaxRecords
    <2> DEFINE i == n - Len(log)
    <2>0. /\ Len(log) \in Nat /\ last - cursor \in Nat /\ n \in Nat
          /\ Len(log) + 1 <= n /\ n <= Len(log) + (last - cursor)
      BY <1>2
    <2>1. i \in 1 .. last - cursor /\ n = Len(log) + i
      BY <2>0
    <2>2. page[i] = Recorded(cursor + i)
      BY <2>1
    <2> HIDE DEF page
    <2>3. next.log[n] = page[i]
      <3>1. i \in 1 .. Len(page)
        BY <1>4, <2>1
      <3>2. (log \o page)[Len(log) + i] = page[i]
        <4> HIDE DEF log, i
        <4>. QED
          BY <1>2, <1>4, <3>1, Appended
      <3>. QED
        BY <1>3, <2>1, <3>2
    <2>4. cursor + i \in 1 .. MaxRecords
      BY <1>2, <2>1
    <2>. QED
      BY <2>2, <2>3, <2>4 DEF Recorded
  <1> HIDE DEF log, cursor, page
  <1>7. \A n \in DOMAIN next.log : n \notin DOMAIN log =>
            n \in Len(log) + 1 .. Len(log) + (last - cursor)
    BY <1>2, <1>5
  <1>8. DOMAIN log \subseteq DOMAIN next.log
    BY <1>2, <1>5
  <1>9. SoundLog(log, cursor)
    BY DEF log, cursor
  <1>10. \A n \in DOMAIN next.log : Origin(next.log[n], last)
    <2> TAKE n \in DOMAIN next.log
    <2>1. CASE n \in DOMAIN log
      <3>1. Origin(log[n], cursor) /\ next.log[n] = log[n]
        BY <1>2, <1>5, <1>9, <2>1 DEF SoundLog
      <3>. QED
        BY <1>2, <3>1 DEF Origin
    <2>2. CASE n \notin DOMAIN log
      BY <1>2, <1>6, <1>7, <2>2 DEF Origin
    <2>. QED
      BY <2>1, <2>2
  <1>11. \A i, j \in DOMAIN next.log :
            next.log[i].kind = next.log[j].kind /\ next.log[i].id = next.log[j].id => i = j
    <2>1. ASSUME NEW i \in DOMAIN log, NEW j \in DOMAIN next.log, j \notin DOMAIN log
          PROVE  next.log[i].id # next.log[j].id
      <3>1. Origin(log[i], cursor) /\ next.log[i] = log[i]
        BY <1>2, <1>5, <1>9 DEF SoundLog
      <3>2. next.log[j].id \in 1 .. MaxRecords /\ next.log[j].id > cursor
        BY <1>2, <1>6, <1>7, <2>1
      <3>3. log[i].id \in Callers \/ log[i].id \in 1 .. cursor
        BY <3>1 DEF Origin
      <3>. QED
        BY <1>2, <3>1, <3>2, <3>3, HostedAssumption
    <2>2. ASSUME NEW i \in DOMAIN next.log, NEW j \in DOMAIN next.log,
                 i \notin DOMAIN log, j \notin DOMAIN log, next.log[i].id = next.log[j].id
          PROVE  i = j
      BY <1>2, <1>6, <1>7, <2>2
    <2>3. ASSUME NEW i \in DOMAIN log, NEW j \in DOMAIN log,
                 next.log[i].kind = next.log[j].kind, next.log[i].id = next.log[j].id
          PROVE  i = j
      BY <1>2, <1>5, <1>9, <2>3 DEF SoundLog
    <2>. QED
      BY <1>8, <2>1, <2>2, <2>3
  <1>12. \A d \in DOMAIN next.log : next.log[d].kind = "delivery" =>
            \E n \in DOMAIN next.log : n < d /\ Says(next.log, n, "message", next.log[d].id)
    <2> SUFFICES ASSUME NEW d \in DOMAIN next.log, next.log[d].kind = "delivery"
                 PROVE  \E n \in DOMAIN next.log :
                            n < d /\ Says(next.log, n, "message", next.log[d].id)
      OBVIOUS
    <2>1. d \in DOMAIN log
      BY <1>6, <1>7
    <2>2. PICK n \in DOMAIN log : n < d /\ Says(log, n, "message", log[d].id)
      BY <1>2, <1>5, <1>9, <2>1 DEF SoundLog
    <2>. QED
      BY <1>2, <1>5, <1>8, <2>1, <2>2 DEF Says
  <1>13. Extends(next.log, log)
    BY <1>2, <1>5 DEF Extends
  <1>14. \A n \in DOMAIN next.log \ DOMAIN log : next.log[n].record \notin 1 .. cursor
    BY <1>2, <1>6, <1>7
  <1>. QED
    BY <1>2, <1>3, <1>10, <1>11, <1>12, <1>13, <1>14 DEF Advances, SoundLog, log, cursor

\* One more event of a message sent from here.
LEMMA LoggedAdvances ==
    ASSUME runtime \in Runtimes, SoundLog(runtime.log, runtime.cursor),
           NEW c \in Callers, NEW kind \in {"message", "delivery"},
           ~Logged(runtime.log, kind, c),
           kind = "delivery" => Logged(runtime.log, "message", c)
    PROVE  LET next == [runtime EXCEPT !.log = Append(@, [kind |-> kind, id |-> c, record |-> 0])]
           IN  Advances(next) /\ Logged(next.log, kind, c)
  <1> DEFINE event == [kind |-> kind, id |-> c, record |-> 0]
             next == [runtime EXCEPT !.log = Append(@, event)]
             log == runtime.log
             cursor == runtime.cursor
  <1>1. log \in Seq(Events) /\ Len(log) \in Nat /\ DOMAIN log = 1 .. Len(log) /\ cursor \in Nat
    BY HostedAssumption DEF Runtimes
  <1>2. event \in Events /\ event.kind = kind /\ event.id = c /\ event.record = 0
    BY DEF Events, Ids
  <1>3. next.log = Append(log, event) /\ next.cursor = cursor
    BY DEF Runtimes
  <1> HIDE DEF event, next
  <1>4. /\ Len(next.log) = Len(log) + 1 /\ DOMAIN next.log = 1 .. Len(log) + 1
        /\ \A n \in 1 .. Len(log) : next.log[n] = log[n]
        /\ next.log[Len(log) + 1] = event
    BY <1>1, <1>2, <1>3
  <1>5. \A n \in DOMAIN next.log : n \in DOMAIN log \/ n = Len(log) + 1
    BY <1>1, <1>4
  <1>6. DOMAIN log \subseteq DOMAIN next.log /\ Len(log) + 1 \in DOMAIN next.log
        /\ Len(log) + 1 \notin DOMAIN log
    BY <1>1, <1>4
  <1>7. \A n \in DOMAIN next.log : Origin(next.log[n], cursor)
    BY <1>1, <1>2, <1>4, <1>5 DEF SoundLog, Origin
  <1>8. \A i, j \in DOMAIN next.log :
            next.log[i].kind = next.log[j].kind /\ next.log[i].id = next.log[j].id => i = j
    <2>1. \A i \in DOMAIN log : ~(log[i].kind = kind /\ log[i].id = c)
      BY DEF Logged, Says
    <2>. QED
      BY <1>1, <1>2, <1>4, <1>5, <2>1 DEF SoundLog
  <1>9. \A d \in DOMAIN next.log : next.log[d].kind = "delivery" =>
            \E n \in DOMAIN next.log : n < d /\ Says(next.log, n, "message", next.log[d].id)
    <2> SUFFICES ASSUME NEW d \in DOMAIN next.log, next.log[d].kind = "delivery"
                 PROVE  \E n \in DOMAIN next.log :
                            n < d /\ Says(next.log, n, "message", next.log[d].id)
      OBVIOUS
    <2>1. CASE d \in DOMAIN log
      <3>1. PICK n \in DOMAIN log : n < d /\ Says(log, n, "message", log[d].id)
        BY <1>1, <1>4, <2>1 DEF SoundLog
      <3>. QED
        BY <1>1, <1>4, <1>6, <2>1, <3>1 DEF Says
    <2>2. CASE d = Len(log) + 1
      <3>1. PICK n \in DOMAIN log : Says(log, n, "message", c)
        BY <1>2, <1>4, <2>2 DEF Logged
      <3>. QED
        BY <1>1, <1>2, <1>4, <1>6, <2>2, <3>1 DEF Says
    <2>. QED
      BY <1>5, <2>1, <2>2
  <1>10. Extends(next.log, log)
    BY <1>1, <1>4 DEF Extends
  <1>11. \A n \in DOMAIN next.log \ DOMAIN log : next.log[n].record \notin 1 .. cursor
    BY <1>1, <1>2, <1>4, <1>5
  <1>12. Advances(next)
    BY <1>1, <1>3, <1>7, <1>8, <1>9, <1>10, <1>11 DEF Advances, SoundLog
  <1>13. Logged(next.log, kind, c)
    BY <1>2, <1>4, <1>6 DEF Logged, Says
  <1>. QED
    BY <1>12, <1>13 DEF next, event

-----------------------------------------------------------------------------
(* The inductive invariant.                                                *)

\* The acknowledged events lie within the hosted file, and within memory while
\* there is a session: a save of memory cannot take the file behind them.
\* Memory is never ahead of the file: an unchanged room needs no save.
Behind ==
    /\ runtime.committed <= disk.cursor
    /\ HasSession => runtime.committed <= mem.cursor /\ mem.cursor <= disk.cursor

\* An acknowledgement on its way promises no more than that.
Promised ==
    \A a \in Actors : At(a, "commit") =>
        /\ actors[a].through <= disk.cursor
        /\ HasSession => actors[a].through <= mem.cursor

\* A slice was asked for from the first event not acknowledged then, and has
\* nothing the log has not.
Asked ==
    \A a \in Actors : At(a, "apply") =>
        actors[a].first <= runtime.committed + 1 /\ actors[a].last <= Len(runtime.log)

\* Only a request whose message is in the log has yet to remember it.
Remembering ==
    \A a \in Actors : At(a, "remember") => a \in Callers /\ Logged(runtime.log, "message", a)

Waiting == Promised /\ Asked /\ Remembering

\* What memory and the hosted file have of the log is what it says, up to
\* their cursors.
Archives ==
    /\ SoundLog(runtime.log, runtime.cursor)
    /\ Sound(runtime.log, mem)
    /\ Sound(runtime.log, disk)

Inv == Behind /\ Waiting /\ Archives

-----------------------------------------------------------------------------
(* Progress.                                                               *)

\* A fetch takes all that is outstanding.
Reached == Len(runtime.log) - runtime.committed <= Limit

\* The events of the first records are among the first n.
Counted(log, records, n) == \A i \in DOMAIN log : log[i].record \in 1 .. records => i <= n

\* What is shown is archived; what the worker will show next is archived by
\* what it has asked for, or has saved.
Confirmed ==
    catchup.on =>
        /\ catchup.start <= catchup.cursor
        /\ catchup.cursor <= runtime.cursor
        /\ Counted(runtime.log, catchup.cursor, mem.cursor)

Counting ==
    LET work == actors[Worker] IN
    /\ work.pc \in {"fetch", "apply", "commit"} =>
          /\ work.channel <= runtime.cursor
          /\ catchup.on => catchup.cursor <= work.channel
    /\ work.pc = "apply" => Counted(runtime.log, work.channel, work.last)
    /\ work.pc = "commit" => Counted(runtime.log, work.channel, work.through)

Progress == Confirmed /\ Counting

-----------------------------------------------------------------------------
(* What the steps have in common.                                          *)

LEMMA RuntimeParts ==
    ASSUME NEW r \in Runtimes
    PROVE  /\ r.committed \in Nat /\ r.cursor \in Nat
           /\ r.log \in Seq(Events) /\ Len(r.log) \in Nat
  BY HostedAssumption DEF Runtimes

LEMMA WorkParts ==
    ASSUME NEW w \in Works
    PROVE  w.through \in Nat /\ w.first \in Nat /\ w.last \in Nat /\ w.channel \in Nat
  BY DEF Works

LEMMA Numbers ==
    ASSUME TypeOK
    PROVE  /\ runtime \in Runtimes /\ runtime.committed \in Nat /\ runtime.cursor \in Nat
           /\ runtime.log \in Seq(Events) /\ Len(runtime.log) \in Nat
           /\ mem \in Rooms /\ disk \in Rooms /\ mem.cursor \in Nat /\ disk.cursor \in Nat
           /\ actors \in [Actors -> Works]
           /\ \A a \in Actors : /\ actors[a] \in Works /\ actors[a].through \in Nat
                               /\ actors[a].first \in Nat /\ actors[a].last \in Nat
                               /\ actors[a].channel \in Nat
  <1>1. /\ runtime \in Runtimes /\ mem \in Rooms /\ disk \in Rooms
        /\ actors \in [Actors -> Works] /\ \A a \in Actors : actors[a] \in Works
    BY DEF TypeOK, Runtimes
  <1>2. \A room \in Rooms : room.cursor \in Nat
    BY DEF Rooms
  <1>. QED
    BY <1>1, <1>2, RuntimeParts, WorkParts

LEMMA NumbersNext ==
    ASSUME TypeOK'
    PROVE  /\ runtime' \in Runtimes /\ runtime'.committed \in Nat /\ runtime'.cursor \in Nat
           /\ runtime'.log \in Seq(Events) /\ Len(runtime'.log) \in Nat
           /\ mem' \in Rooms /\ disk' \in Rooms /\ mem'.cursor \in Nat /\ disk'.cursor \in Nat
           /\ actors' \in [Actors -> Works]
  <1>1. /\ runtime' \in Runtimes /\ mem' \in Rooms /\ disk' \in Rooms
        /\ actors' \in [Actors -> Works]
    BY DEF TypeOK, Runtimes
  <1>2. \A room \in Rooms : room.cursor \in Nat
    BY DEF Rooms
  <1>. QED
    BY <1>1, <1>2, RuntimeParts

\* One actor moves on, without a slice, a promise or a message to remember.
Rests(a) ==
    /\ \A b \in Actors \ {a} : actors'[b] = actors[b]
    /\ actors'[a].pc \notin {"apply", "commit", "remember"}

LEMMA SetRests ==
    ASSUME actors \in [Actors -> Works], NEW a \in Actors, NEW w,
           w.pc \notin {"apply", "commit", "remember"}, actors' = [actors EXCEPT ![a] = w]
    PROVE  Rests(a)
  BY DEF Rests

LEMMA ReturnsRests ==
    ASSUME actors \in [Actors -> Works], NEW a \in Actors, ArchiveReturns(a)
    PROVE  Rests(a)
  <1>1. [Resting EXCEPT !.pc = "sync", !.recovered = TRUE].pc = "sync"
    BY DEF Resting
  <1>2. CASE a = Worker /\ ~actors[a].recovered
    BY <1>1, <1>2, SetRests DEF ArchiveReturns
  <1>3. CASE ~(a = Worker /\ ~actors[a].recovered)
    BY <1>3, RestingType, SetRests DEF ArchiveReturns
  <1>. QED
    BY <1>2, <1>3

LEMMA FailsRests ==
    ASSUME actors \in [Actors -> Works], NEW a \in Actors, StepFails(a)
    PROVE  Rests(a)
  <1>1. [Resting EXCEPT !.pc = "record"].pc = "record"
    BY DEF Resting
  <1>2. CASE a = Worker /\ actors[a].recovered
    BY <1>1, <1>2, SetRests DEF StepFails
  <1>3. CASE ~(a = Worker /\ actors[a].recovered)
    BY <1>3, RestingType, SetRests DEF StepFails
  <1>. QED
    BY <1>2, <1>3

\* The file moves on, or to what memory has; memory only moves on.
Forward ==
    /\ disk'.cursor >= disk.cursor \/ (HasSession /\ disk'.cursor >= mem.cursor)
    /\ HasSession' => HasSession /\ mem'.cursor >= mem.cursor

LEMMA LoggedStays ==
    ASSUME TypeOK, TypeOK', Advances(runtime'), NEW kind, NEW id, Logged(runtime.log, kind, id)
    PROVE  Logged(runtime'.log, kind, id)
  <1>1. DOMAIN runtime.log \subseteq DOMAIN runtime'.log
    BY Numbers, NumbersNext, LogFacts DEF Advances, Extends
  <1>. QED
    BY <1>1 DEF Logged, Says, Advances, Extends

\* What waits for one of the others goes on waiting for what there still is.
LEMMA OthersWait ==
    ASSUME TypeOK, TypeOK', Waiting, NEW b \in Actors, actors'[b] = actors[b],
           Advances(runtime'), runtime'.committed >= runtime.committed, Forward
    PROVE  /\ At(b, "commit")' => /\ actors'[b].through <= disk'.cursor
                                  /\ HasSession' => actors'[b].through <= mem'.cursor
           /\ At(b, "apply")' => /\ actors'[b].first <= runtime'.committed + 1
                                 /\ actors'[b].last <= Len(runtime'.log)
           /\ At(b, "remember")' => b \in Callers /\ Logged(runtime'.log, "message", b)
  <1>1. ASSUME At(b, "commit")
        PROVE  /\ actors[b].through <= disk'.cursor
               /\ HasSession' => actors[b].through <= mem'.cursor
    <2>1. /\ actors[b].through <= disk.cursor
          /\ HasSession => actors[b].through <= mem.cursor
      BY <1>1 DEF Waiting, Promised
    <2>. QED
      BY <2>1, Numbers, NumbersNext DEF Forward
  <1>2. ASSUME At(b, "apply")
        PROVE  actors[b].first <= runtime'.committed + 1 /\ actors[b].last <= Len(runtime'.log)
    <2>1. actors[b].first <= runtime.committed + 1 /\ actors[b].last <= Len(runtime.log)
      BY <1>2 DEF Waiting, Asked
    <2>2. Len(runtime.log) <= Len(runtime'.log)
      BY DEF Advances, Extends
    <2>. QED
      BY <2>1, <2>2, Numbers, NumbersNext
  <1>3. ASSUME At(b, "remember")
        PROVE  b \in Callers /\ Logged(runtime'.log, "message", b)
    BY <1>3, LoggedStays DEF Waiting, Remembering
  <1>. QED
    BY <1>1, <1>2, <1>3 DEF At

LEMMA WaitingKept ==
    ASSUME TypeOK, TypeOK', Waiting, NEW a \in Actors, Rests(a) \/ UNCHANGED actors,
           Advances(runtime'), runtime'.committed >= runtime.committed, Forward
    PROVE  Waiting'
  <1>1. \A b \in Actors : actors'[b] = actors[b] \/ (b = a /\ Rests(a))
    BY DEF Rests
  <1>2. \A b \in Actors :
            At(b, "commit")' \/ At(b, "apply")' \/ At(b, "remember")' => actors'[b] = actors[b]
    BY <1>1 DEF Rests, At
  <1>3. Promised'
    BY <1>2, OthersWait DEF Promised
  <1>4. Asked'
    BY <1>2, OthersWait DEF Asked
  <1>5. Remembering'
    BY <1>2, OthersWait DEF Remembering
  <1>. QED
    BY <1>3, <1>4, <1>5 DEF Waiting

LEMMA ArchivesKept ==
    ASSUME TypeOK, TypeOK', Advances(runtime'),
           Sound(runtime.log, mem'), Sound(runtime.log, disk')
    PROVE  Archives'
  <1>1. Sound(runtime'.log, mem') /\ Sound(runtime'.log, disk')
    BY Numbers, NumbersNext, SoundGrows DEF Advances
  <1>. QED
    BY <1>1 DEF Archives, Advances

\* The runtime goes on, what there is of the channel stays as it is.
LEMMA RuntimeInv ==
    ASSUME TypeOK, TypeOK', Inv, NEW a \in Actors, Rests(a) \/ UNCHANGED actors,
           Advances(runtime'), UNCHANGED <<session, mem, disk>>,
           runtime'.committed >= runtime.committed, runtime'.committed <= disk.cursor,
           HasSession => runtime'.committed <= mem.cursor
    PROVE  Inv'
  <1>1. Forward
    BY Numbers DEF Forward, HasSession
  <1>2. Behind'
    BY DEF Inv, Behind, HasSession
  <1>3. Waiting'
    BY <1>1, WaitingKept DEF Inv
  <1>4. Archives'
    BY ArchivesKept DEF Inv, Archives
  <1>. QED
    BY <1>2, <1>3, <1>4 DEF Inv

LEMMA QuietInv ==
    ASSUME TypeOK, TypeOK', Inv, NEW a \in Actors, Rests(a) \/ UNCHANGED actors,
           Advances(runtime'), UNCHANGED <<session, mem, disk>>,
           runtime'.committed = runtime.committed
    PROVE  Inv'
  <1>1. runtime'.committed >= runtime.committed /\ runtime'.committed <= disk.cursor
        /\ (HasSession => runtime'.committed <= mem.cursor)
    BY Numbers DEF Inv, Behind
  <1>. QED
    BY <1>1, RuntimeInv

LEMMA SameRuntime ==
    ASSUME TypeOK, Inv, runtime'.log = runtime.log, runtime'.cursor = runtime.cursor
    PROVE  Advances(runtime')
  BY Numbers, StaysAdvances DEF Inv, Archives

\* The archive is written, without a word of the runtime.
LEMMA WriteInv ==
    ASSUME TypeOK, TypeOK', Inv, NEW a \in Actors, Rests(a) \/ UNCHANGED actors,
           UNCHANGED runtime, Forward, Behind',
           Sound(runtime.log, mem'), Sound(runtime.log, disk')
    PROVE  Inv'
  <1>1. Advances(runtime') /\ runtime'.committed >= runtime.committed
    BY Numbers, SameRuntime
  <1>2. Waiting'
    BY <1>1, WaitingKept DEF Inv
  <1>3. Archives'
    BY <1>1, ArchivesKept
  <1>. QED
    BY <1>2, <1>3 DEF Inv

-----------------------------------------------------------------------------
(* The steps of archive_hosted.                                            *)

LEMMA FetchInv ==
    ASSUME TypeOK, TypeOK', Inv, NEW a \in Actors, Fetch(a)
    PROVE  Inv'
  <1> DEFINE end == Len(runtime.log)
             upTo == IF end - runtime.committed > Limit THEN runtime.committed + Limit ELSE end
  <1>1. /\ actors'[a].first = runtime.committed + 1 /\ actors'[a].last = upTo
        /\ actors'[a].pc = "apply"
        /\ \A b \in Actors \ {a} : actors'[b] = actors[b]
    <2>1. actors \in [Actors -> Works] /\ actors[a] \in Works
      BY Numbers
    <2> HIDE DEF upTo
    <2>2. actors' = [actors EXCEPT ![a] =
              [actors[a] EXCEPT !.pc = "apply", !.first = runtime.committed + 1, !.last = upTo]]
      BY <2>1 DEF Fetch, upTo
    <2>. QED
      BY <2>1, <2>2 DEF Works
  <1>2. upTo <= end
    BY Numbers, HostedAssumption
  <1> HIDE DEF upTo
  <1>3. UNCHANGED <<runtime, session, mem, disk>> /\ HasSession' = HasSession
    BY DEF Fetch, HasSession
  <1>4. Advances(runtime') /\ runtime'.committed >= runtime.committed /\ Forward
    BY <1>3, Numbers, SameRuntime DEF Forward
  <1>5. Promised'
    BY <1>1, <1>4, OthersWait DEF Promised, At, Inv
  <1>6. Remembering'
    BY <1>1, <1>4, OthersWait DEF Remembering, At, Inv
  <1>7. Asked'
    <2> SUFFICES ASSUME NEW b \in Actors, At(b, "apply")'
                 PROVE  /\ actors'[b].first <= runtime'.committed + 1
                        /\ actors'[b].last <= Len(runtime'.log)
      BY DEF Asked
    <2>1. CASE b = a
      BY <1>1, <1>2, <1>3, <2>1, Numbers
    <2>2. CASE b # a
      BY <1>1, <1>4, <2>2, OthersWait DEF Inv
    <2>. QED
      BY <2>1, <2>2
  <1>8. Behind'
    BY <1>3 DEF Inv, Behind
  <1>9. Archives'
    BY <1>3, <1>4, ArchivesKept DEF Inv, Archives
  <1>. QED
    BY <1>5, <1>6, <1>7, <1>8, <1>9 DEF Inv, Waiting

\* What a slice leaves is sound and no further back than memory.
LEMMA AppliedSound ==
    ASSUME TypeOK, Inv, HasSession, NEW a \in Actors, At(a, "apply")
    PROVE  /\ Candidate(a) \in Rooms /\ Candidate(a).cursor \in Nat
           /\ Candidate(a).cursor >= mem.cursor /\ Candidate(a).cursor >= actors[a].last
           /\ Sound(runtime.log, Candidate(a))
  <1>1. actors[a].first <= mem.cursor + 1 /\ actors[a].last <= Len(runtime.log)
    BY Numbers DEF Inv, Behind, Waiting, Asked
  <1>2. Sound(runtime.log, Candidate(a))
    BY <1>1, Numbers, CandidateSound DEF Inv, Archives
  <1>3. /\ Candidate(a) \in Rooms
        /\ Candidate(a).cursor >= mem.cursor /\ Candidate(a).cursor >= actors[a].last
    BY Numbers, CandidateType
  <1>4. Candidate(a).cursor \in Nat
    BY <1>3 DEF Rooms
  <1>. QED
    BY <1>2, <1>3, <1>4

LEMMA ApplyInv ==
    ASSUME TypeOK, TypeOK', Inv, NEW a \in Actors, Apply(a)
    PROVE  Inv'
  <1> DEFINE room == Candidate(a)
  <1>1. /\ room.cursor \in Nat /\ room.cursor >= mem.cursor /\ Sound(runtime.log, room)
    BY AppliedSound DEF Apply
  <1>2. mem' = room /\ (disk' = room \/ (disk' = disk /\ room = mem))
    BY DEF Apply
  <1>3. UNCHANGED <<runtime, session>> /\ HasSession /\ HasSession'
    BY DEF Apply, HasSession
  <1> HIDE DEF room
  <1>4. Behind' /\ Forward
    BY <1>1, <1>2, <1>3, Numbers DEF Inv, Behind, Forward
  <1>5. Sound(runtime.log, mem') /\ Sound(runtime.log, disk')
    BY <1>1, <1>2 DEF Inv, Archives
  <1>6. CASE ArchiveReturns(a)
    <2>1. Rests(a)
      BY <1>6, Numbers, ReturnsRests
    <2>. QED
      BY <1>3, <1>4, <1>5, <2>1, WriteInv
  <1>7. CASE actors' = [actors EXCEPT ![a] =
                 [@ EXCEPT !.pc = "commit", !.first = 1, !.last = 0, !.through = room.cursor]]
    <2>1. /\ actors'[a].pc = "commit" /\ actors'[a].through = room.cursor
          /\ \A b \in Actors \ {a} : actors'[b] = actors[b]
      <3>1. actors \in [Actors -> Works] /\ actors[a] \in Works
        BY Numbers
      <3>. QED
        BY <1>7, <3>1 DEF Works
    <2>2. Advances(runtime') /\ runtime'.committed >= runtime.committed
      BY <1>3, Numbers, SameRuntime
    <2>3. Asked'
      BY <1>4, <2>1, <2>2, OthersWait DEF Asked, At, Inv
    <2>4. Remembering'
      BY <1>4, <2>1, <2>2, OthersWait DEF Remembering, At, Inv
    <2>5. Promised'
      <3> SUFFICES ASSUME NEW b \in Actors, At(b, "commit")'
                   PROVE  /\ actors'[b].through <= disk'.cursor
                          /\ HasSession' => actors'[b].through <= mem'.cursor
        BY DEF Promised
      <3>1. CASE b = a
        <4>1. mem'.cursor = room.cursor /\ mem'.cursor <= disk'.cursor
          BY <1>2, <1>3, <1>4 DEF Behind
        <4>. QED
          BY <1>1, <2>1, <3>1, <4>1
      <3>2. CASE b # a
        BY <1>4, <2>1, <2>2, <3>2, OthersWait DEF Inv
      <3>. QED
        BY <3>1, <3>2
    <2>6. Archives'
      BY <1>5, <2>2, ArchivesKept
    <2>. QED
      BY <1>4, <2>3, <2>4, <2>5, <2>6 DEF Inv, Waiting
  <1>. QED
    BY <1>6, <1>7 DEF Apply, room

LEMMA ApplyFailsInv ==
    ASSUME TypeOK, TypeOK', Inv, NEW a \in Actors, ApplyFails(a)
    PROVE  Inv'
  <1>1. HasSession /\ At(a, "apply") /\ UNCHANGED <<runtime, session, mem>>
        /\ disk' \in {disk, Candidate(a)} /\ HasSession' = HasSession
    BY DEF ApplyFails, HasSession
  <1>2. /\ Candidate(a).cursor \in Nat /\ Candidate(a).cursor >= mem.cursor
        /\ Sound(runtime.log, Candidate(a))
    BY <1>1, AppliedSound
  <1>3. Rests(a)
    BY Numbers, FailsRests DEF ApplyFails
  <1>4. Behind' /\ Forward
    BY <1>1, <1>2, Numbers DEF Inv, Behind, Forward
  <1>5. Sound(runtime.log, mem') /\ Sound(runtime.log, disk')
    BY <1>1, <1>2 DEF Inv, Archives
  <1>. QED
    BY <1>1, <1>3, <1>4, <1>5, WriteInv

LEMMA ApplyRefusedInv ==
    ASSUME TypeOK, TypeOK', Inv, NEW a \in Actors, ApplyRefused(a)
    PROVE  Inv'
  <1>1. Rests(a)
    BY Numbers, FailsRests DEF ApplyRefused
  <1>. QED
    BY <1>1, SameRuntime, QuietInv DEF ApplyRefused

\* An acknowledgement advances to what was promised, or not at all.
LEMMA AcknowledgedWithin ==
    ASSUME TypeOK, Inv, NEW a \in Actors, At(a, "commit"), runtime' = Acknowledged(a)
    PROVE  /\ Advances(runtime')
           /\ runtime'.committed >= runtime.committed /\ runtime'.committed <= disk.cursor
           /\ HasSession => runtime'.committed <= mem.cursor
  <1>1. /\ runtime'.log = runtime.log /\ runtime'.cursor = runtime.cursor
        /\ runtime'.committed = IF actors[a].through > runtime.committed
                               THEN actors[a].through ELSE runtime.committed
    BY Numbers DEF Acknowledged, Runtimes
  <1>2. /\ actors[a].through <= disk.cursor
        /\ HasSession => actors[a].through <= mem.cursor
    BY DEF Inv, Waiting, Promised
  <1>. QED
    BY <1>1, <1>2, Numbers, SameRuntime DEF Inv, Behind

LEMMA CommitInv ==
    ASSUME TypeOK, TypeOK', Inv, NEW a \in Actors, Commit(a)
    PROVE  Inv'
  <1>1. Rests(a)
    BY Numbers, ReturnsRests DEF Commit
  <1>. QED
    BY <1>1, AcknowledgedWithin, RuntimeInv DEF Commit

LEMMA SyncedOn ==
    ASSUME TypeOK, Inv, Synced(runtime')
    PROVE  Advances(runtime') /\ runtime'.committed = runtime.committed
  BY Numbers, SyncedAdvances, SyncedType DEF Inv, Archives

LEMMA CallFailsInv ==
    ASSUME TypeOK, TypeOK', Inv, NEW a \in Actors, CallFails(a)
    PROVE  Inv'
  <1>1. Rests(a) /\ UNCHANGED <<session, mem, disk>>
    BY Numbers, FailsRests DEF CallFails
  <1>2. CASE UNCHANGED runtime
    BY <1>1, <1>2, SameRuntime, QuietInv
  <1>3. CASE At(a, "commit") /\ runtime' = Acknowledged(a)
    BY <1>1, <1>3, AcknowledgedWithin, RuntimeInv
  <1>4. CASE Synced(runtime')
    BY <1>1, <1>4, SyncedOn, QuietInv
  <1>. QED
    BY <1>2, <1>3, <1>4 DEF CallFails

LEMMA SyncInv ==
    ASSUME TypeOK, TypeOK', Inv, NEW a \in Actors, Sync(a)
    PROVE  Inv'
  <1>1. Rests(a)
    <2>1. actors \in [Actors -> Works] /\ actors[a] \in Works
      BY Numbers
    <2>2. [actors[a] EXCEPT !.pc = "fetch", !.recovered = TRUE,
                            !.channel = runtime'.cursor].pc = "fetch"
      BY <2>1 DEF Works
    <2>. QED
      BY <2>1, <2>2, SetRests DEF Sync
  <1>. QED
    BY <1>1, SyncedOn, QuietInv DEF Sync

-----------------------------------------------------------------------------
(* The worker's other steps, the requests and the session.                 *)

LEMMA WorkerInv ==
    ASSUME TypeOK, TypeOK', Inv, List \/ ListFails \/ Show
    PROVE  Inv'
  <1>1. [Resting EXCEPT !.pc = "fetch", !.channel = runtime.cursor].pc = "fetch"
    BY DEF Resting
  <1>2. Rests(Worker) \/ UNCHANGED actors
    BY <1>1, Numbers, ActorSets, SetRests DEF List, ListFails, Show
  <1>. QED
    BY <1>2, ActorSets, SameRuntime, QuietInv DEF List, ListFails, Show

LEMMA RecordErrorInv ==
    ASSUME TypeOK, TypeOK', Inv, RecordError \/ RecordErrorFails
    PROVE  Inv'
  <1> DEFINE room == [mem EXCEPT !.error = TRUE]
  <1>1. Rests(Worker)
    BY Numbers, ActorSets, RestingType, SetRests DEF RecordError, RecordErrorFails
  <1>2. room.cursor = mem.cursor /\ Sound(runtime.log, room)
    <2>1. /\ room.cursor = mem.cursor /\ room.messages = mem.messages
          /\ room.delivered = mem.delivered /\ room.activity = mem.activity
      BY Numbers DEF Rooms
    <2> HIDE DEF room
    <2>. QED
      BY <2>1, SameSound DEF Inv, Archives
  <1> HIDE DEF room
  <1>3. UNCHANGED <<runtime, session>> /\ HasSession' = HasSession
    BY DEF RecordError, RecordErrorFails, HasSession
  <1>4. /\ mem' \in {mem, room} /\ disk' \in {disk, room}
        /\ mem' = mem \/ disk' = room
        /\ disk' = disk \/ HasSession
    BY DEF RecordError, RecordErrorFails, room
  <1>5. Behind' /\ Forward
    BY <1>2, <1>3, <1>4, Numbers DEF Inv, Behind, Forward
  <1>6. Sound(runtime.log, mem') /\ Sound(runtime.log, disk')
    BY <1>2, <1>4 DEF Inv, Archives
  <1>. QED
    BY <1>1, <1>3, <1>5, <1>6, ActorSets, WriteInv

LEMMA QuietRequestInv ==
    ASSUME TypeOK, TypeOK', Inv, NEW c \in Callers, Join(c) \/ Refresh(c) \/ Cancel(c)
    PROVE  Inv'
  <1>1. c \in Actors
    BY ActorSets
  <1>2. /\ [Resting EXCEPT !.pc = "fetch", !.channel = runtime.cursor].pc = "fetch"
        /\ [Resting EXCEPT !.pc = "sync"].pc = "sync"
    BY DEF Resting
  <1>3. Rests(c)
    BY <1>1, <1>2, Numbers, RestingType, SetRests DEF Join, Refresh, Cancel
  <1>4. /\ runtime'.log = runtime.log /\ runtime'.cursor = runtime.cursor
        /\ runtime'.committed = runtime.committed
    BY Numbers DEF Join, Refresh, Cancel, Runtimes
  <1>. QED
    BY <1>1, <1>3, <1>4, SameRuntime, QuietInv DEF Join, Refresh, Cancel

LEMMA SendInv ==
    ASSUME TypeOK, TypeOK', Inv, NEW c \in Callers, Send(c)
    PROVE  Inv'
  <1>1. ~Logged(runtime.log, "message", c)
    BY DEF Send, Logged, Says
  <1>2. Advances(runtime') /\ Logged(runtime'.log, "message", c)
    BY <1>1, Numbers, LoggedAdvances DEF Send, Inv, Archives
  <1>3. runtime'.committed = runtime.committed /\ UNCHANGED <<session, mem, disk>>
    BY Numbers DEF Send, Runtimes
  <1>4. CASE Become(c, "remember")
    <2>1. actors'[c].pc = "remember" /\ \A b \in Actors \ {c} : actors'[b] = actors[b]
      <3>1. actors \in [Actors -> Works] /\ c \in Actors /\ actors[c] \in Works
        BY Numbers, ActorSets
      <3>. QED
        BY <1>4, <3>1 DEF Become, Works
    <2>2. Forward /\ runtime'.committed >= runtime.committed
      BY <1>3, Numbers DEF Forward, HasSession
    <2>3. Promised'
      BY <1>2, <2>1, <2>2, OthersWait DEF Promised, At, Inv
    <2>4. Asked'
      BY <1>2, <2>1, <2>2, OthersWait DEF Asked, At, Inv
    <2>5. Remembering'
      BY <1>2, <2>1, <2>2, OthersWait DEF Remembering, At, Inv
    <2>6. Behind'
      BY <1>3 DEF Inv, Behind, HasSession
    <2>7. Archives'
      BY <1>2, <1>3, ArchivesKept DEF Inv, Archives
    <2>. QED
      BY <2>3, <2>4, <2>5, <2>6, <2>7 DEF Inv, Waiting
  <1>5. CASE UNCHANGED actors
    BY <1>2, <1>3, <1>5, ActorSets, QuietInv
  <1>. QED
    BY <1>4, <1>5 DEF Send

LEMMA DeliverInv ==
    ASSUME TypeOK, TypeOK', Inv, NEW c \in Callers, Deliver(c)
    PROVE  Inv'
  <1>1. ~Logged(runtime.log, "delivery", c) /\ Logged(runtime.log, "message", c)
    BY DEF Deliver, Logged, Says
  <1>2. Advances(runtime')
    BY <1>1, Numbers, LoggedAdvances DEF Deliver, Inv, Archives
  <1>3. runtime'.committed = runtime.committed
    BY Numbers DEF Deliver, Runtimes
  <1>. QED
    BY <1>2, <1>3, ActorSets, QuietInv DEF Deliver

LEMMA RememberInv ==
    ASSUME TypeOK, TypeOK', Inv, NEW c \in Callers, Remember(c)
    PROVE  Inv'
  <1>1. c \in Actors /\ Rests(c)
    BY Numbers, ActorSets, RestingType, SetRests DEF Remember
  <1>2. Remembered(c).cursor = mem.cursor /\ Sound(runtime.log, Remembered(c))
    <2>1. Logged(runtime.log, "message", c)
      BY <1>1 DEF Remember, Inv, Waiting, Remembering
    <2>. QED
      BY <2>1, Numbers, RememberedType, RememberedSound DEF Inv, Archives
  <1>3. UNCHANGED <<runtime, session>> /\ HasSession' = HasSession
    BY DEF Remember, HasSession
  <1>4. /\ mem' \in {mem, Remembered(c)} /\ disk' \in {disk, Remembered(c)}
        /\ mem' = mem \/ disk' = Remembered(c)
        /\ disk' = disk \/ HasSession
    BY DEF Remember
  <1>5. Behind' /\ Forward
    BY <1>2, <1>3, <1>4, Numbers DEF Inv, Behind, Forward
  <1>6. Sound(runtime.log, mem') /\ Sound(runtime.log, disk')
    BY <1>2, <1>4 DEF Inv, Archives
  <1>. QED
    BY <1>1, <1>3, <1>5, <1>6, WriteInv

LEMMA SessionInv ==
    ASSUME TypeOK, TypeOK', Inv, Unlock \/ OtherSave \/ Disconnect \/ CloseSession
    PROVE  Inv'
  <1>1. Rests(Worker) \/ UNCHANGED actors
    BY Numbers, ActorSets, RestingType, SetRests
       DEF Unlock, OtherSave, Disconnect, CloseSession
  <1>2. UNCHANGED runtime /\ Sound(runtime.log, mem') /\ Sound(runtime.log, disk')
    BY Numbers, NoRoomSound DEF Unlock, OtherSave, Disconnect, CloseSession, Inv, Archives
  <1>3. CASE Unlock
    <2>1. ~HasSession /\ HasSession' /\ mem' = disk /\ UNCHANGED <<runtime, disk, actors>>
      BY <1>3 DEF Unlock, HasSession
    <2>2. Behind'
      BY <2>1, Numbers DEF Inv, Behind
    <2>3. Waiting'
      BY <2>1, Numbers DEF Inv, Waiting, Promised, Asked, Remembering, At
    <2>4. Archives'
      BY <2>1 DEF Inv, Archives
    <2>. QED
      BY <2>2, <2>3, <2>4 DEF Inv
  <1>4. CASE OtherSave \/ Disconnect \/ CloseSession
    <2>1. Forward /\ Behind'
      BY <1>4, Numbers
         DEF OtherSave, Disconnect, CloseSession, Forward, HasSession, Inv, Behind
    <2>. QED
      BY <1>1, <1>2, <2>1, ActorSets, WriteInv
  <1>. QED
    BY <1>3, <1>4

LEMMA CrashInv ==
    ASSUME TypeOK, TypeOK', Inv, Crash
    PROVE  Inv'
  <1>1. UNCHANGED <<runtime, disk>> /\ mem' = NoRoom /\ ~HasSession'
    BY DEF Crash, HasSession
  <1>2. \A a \in Actors : actors'[a].pc = "idle"
    BY RestingType DEF Crash
  <1>3. Behind' /\ Waiting'
    BY <1>1, <1>2 DEF Inv, Behind, Waiting, Promised, Asked, Remembering, At
  <1>4. Archives'
    BY <1>1, Numbers, NoRoomSound DEF Inv, Archives
  <1>. QED
    BY <1>3, <1>4 DEF Inv

LEMMA InvInit == Init => Inv
  <1> SUFFICES ASSUME Init PROVE Inv
    OBVIOUS
  <1>1. Behind
    BY NoRoomType DEF Init, Behind, HasSession
  <1>2. Waiting
    BY RestingType DEF Init, Waiting, Promised, Asked, Remembering, At
  <1>3. Archives
    <2>1. runtime.log = <<>> /\ runtime.log \in Seq(Events) /\ DOMAIN runtime.log = {}
      BY DEF Init
    <2>2. SoundLog(runtime.log, runtime.cursor)
      BY <2>1 DEF SoundLog
    <2>. QED
      BY <2>1, <2>2, NoRoomSound DEF Init, Archives
  <1>. QED
    BY <1>1, <1>2, <1>3 DEF Inv

LEMMA InvStep == TypeOK /\ TypeOK' /\ Inv /\ [Next]_vars => Inv'
  <1> SUFFICES ASSUME TypeOK, TypeOK', Inv, [Next]_vars PROVE Inv'
    OBVIOUS
  <1>1. ASSUME NEW a \in Actors, Archiving(a) \/ ApplyFails(a) \/ CallFails(a)
        PROVE  Inv'
    BY <1>1, FetchInv, ApplyInv, ApplyFailsInv, ApplyRefusedInv, CommitInv, SyncInv, CallFailsInv
       DEF Archiving
  <1>2. ASSUME NEW c \in Callers,
               Deliver(c) \/ Join(c) \/ Refresh(c) \/ Send(c) \/ Remember(c) \/ Cancel(c)
        PROVE  Inv'
    BY <1>2, DeliverInv, QuietRequestInv, SendInv, RememberInv
  <1>3. ASSUME List \/ ListFails \/ Show \/ RecordError \/ RecordErrorFails
        PROVE  Inv'
    BY <1>3, WorkerInv, RecordErrorInv
  <1>4. ASSUME Unlock \/ OtherSave \/ Disconnect \/ CloseSession \/ Crash
        PROVE  Inv'
    BY <1>4, SessionInv, CrashInv
  <1>5. CASE UNCHANGED vars
    BY <1>5, ActorSets, SameRuntime, QuietInv DEF vars
  <1>. QED
    BY <1>1, <1>2, <1>3, <1>4, <1>5 DEF Next

LEMMA InvHolds == Spec => [](TypeOK /\ Inv)
  BY TypeInit, TypeStep, InvInit, InvStep, PTL DEF Spec

-----------------------------------------------------------------------------
(* What follows for the archive.                                           *)

\* No event beyond the hosted file's cursor is ever acknowledged
\* (archive_hosted saves before CommitEvents, and a later save of memory
\* cannot take the file back behind it).
AcknowledgedInFile == runtime.committed <= disk.cursor

THEOREM AcknowledgedStaysInFile == Spec => []AcknowledgedInFile
  <1>1. Inv => AcknowledgedInFile
    BY DEF Inv, Behind, AcknowledgedInFile
  <1>. QED
    BY <1>1, InvHolds, PTL

\* What an acknowledged event left - the message, its delivery, the activity -
\* is in the hosted file, through failed saves, crashes and whatever other save
\* writes the service state.
THEOREM AcknowledgedStaysOnDisk == Spec => []AcknowledgedIsOnDisk
  <1>1. TypeOK /\ Inv => AcknowledgedIsOnDisk
    <2> SUFFICES ASSUME TypeOK, Inv, NEW n \in 1 .. runtime.committed
                 PROVE  n \in DOMAIN runtime.log /\ Archived(disk, n)
      BY DEF AcknowledgedIsOnDisk
    <2>1. n \in 1 .. disk.cursor
      BY Numbers DEF Inv, Behind
    <2>2. n \in DOMAIN runtime.log /\ Holds(runtime.log, disk, n)
      BY <2>1 DEF Inv, Archives, Sound, Whole
    <2>. QED
      BY <2>2 DEF Holds, Archived
  <1>. QED
    BY <1>1, InvHolds, PTL

\* However events are fetched again, replayed after a crash, or met by the
\* sender's own copy of a message: no room has a message or an activity twice,
\* or one the runtime never reported.
THEOREM NothingArchivedTwice == Spec => []ArchivedOnce
  <1>1. TypeOK /\ Inv => ArchivedOnce
    <2> SUFFICES ASSUME TypeOK, Inv, NEW room \in {mem, disk}, NEW id \in Ids
                 PROVE  /\ room.messages[id] <= 1
                        /\ Has(room, id) => \E n \in DOMAIN runtime.log : Reports(n, "message", id)
                        /\ room.activity[id] =
                              IF \E n \in DOMAIN runtime.log :
                                     n <= room.cursor /\ Reports(n, "activity", id)
                              THEN 1 ELSE 0
      BY DEF ArchivedOnce
    <2>1. Once(runtime.log, room)
      BY DEF Inv, Archives, Sound
    <2>. QED
      BY <2>1 DEF Once, Noted, Logged, Says, Reports
  <1>. QED
    BY <1>1, InvHolds, PTL

\* No archiver ever meets the gap at which apply() refuses for good: every
\* slice begins no later than right behind the archive's cursor, through any
\* interleaving of archivers, failed saves, crashes and restarts.
THEOREM NoArchiverMeetsGap == Spec => []NeverGap
  <1>1. TypeOK /\ Inv => NeverGap
    <2> SUFFICES ASSUME TypeOK, Inv, NEW a \in Actors, At(a, "apply"), session = "open"
                 PROVE  ~Gap(a)
      BY DEF NeverGap
    <2>1. actors[a].first <= runtime.committed + 1 /\ runtime.committed <= mem.cursor
      BY DEF Inv, Waiting, Asked, Behind, HasSession
    <2>. QED
      BY <2>1, Numbers DEF Gap
  <1>. QED
    BY <1>1, InvHolds, PTL

-----------------------------------------------------------------------------
(* The progress of a catch-up.                                             *)

LEMMA CountedGrows ==
    ASSUME TypeOK, TypeOK', Advances(runtime'),
           NEW records \in Nat, records <= runtime.cursor, NEW n, NEW next,
           n \in Nat, next \in Nat, n <= next, Counted(runtime.log, records, n)
    PROVE  Counted(runtime'.log, records, next)
  <1> SUFFICES ASSUME NEW i \in DOMAIN runtime'.log, runtime'.log[i].record \in 1 .. records
               PROVE  i <= next
    BY DEF Counted
  <1>1. runtime'.log[i].record \in 1 .. runtime.cursor
    BY Numbers
  <1>2. i \in DOMAIN runtime.log /\ runtime'.log[i] = runtime.log[i]
    BY <1>1 DEF Advances, Extends
  <1>3. i <= n /\ i \in Nat
    BY <1>2, Numbers, LogFacts DEF Counted
  <1>. QED
    BY <1>3

\* The entry goes, or stays while memory only moves on.
Shown ==
    catchup'.on => /\ catchup.on
                   /\ catchup'.start = catchup.start /\ catchup'.cursor = catchup.cursor
                   /\ mem'.cursor >= mem.cursor

LEMMA ConfirmedKept ==
    ASSUME TypeOK, TypeOK', Confirmed, Advances(runtime'), Shown
    PROVE  Confirmed'
  <1> SUFFICES ASSUME catchup'.on
               PROVE  /\ catchup'.start <= catchup'.cursor
                      /\ catchup'.cursor <= runtime'.cursor
                      /\ Counted(runtime'.log, catchup'.cursor, mem'.cursor)
    BY DEF Confirmed
  <1>1. /\ catchup.start <= catchup.cursor /\ catchup.cursor <= runtime.cursor
        /\ Counted(runtime.log, catchup.cursor, mem.cursor)
    BY DEF Confirmed, Shown
  <1>2. catchup.cursor \in Nat
    BY DEF TypeOK
  <1>3. /\ catchup'.start = catchup.start /\ catchup'.cursor = catchup.cursor
        /\ mem'.cursor >= mem.cursor
    BY DEF Shown
  <1>4. Counted(runtime'.log, catchup.cursor, mem'.cursor)
    BY <1>1, <1>2, <1>3, Numbers, NumbersNext, CountedGrows
  <1>. QED
    BY <1>1, <1>2, <1>3, <1>4, Numbers, NumbersNext DEF Advances

\* A step of somebody else, or one that takes the worker off the room.
LEMMA OtherProgress ==
    ASSUME TypeOK, TypeOK', Progress, Advances(runtime'), Shown,
           \/ actors'[Worker] = actors[Worker]
           \/ actors'[Worker].pc \notin {"fetch", "apply", "commit"}
    PROVE  Progress'
  <1>1. Confirmed'
    BY ConfirmedKept DEF Progress
  <1>2. CASE actors'[Worker].pc \notin {"fetch", "apply", "commit"}
    BY <1>1, <1>2 DEF Progress, Counting
  <1>3. CASE actors'[Worker] = actors[Worker]
    <2> DEFINE work == actors[Worker]
    <2>1. work.channel \in Nat /\ work.last \in Nat /\ work.through \in Nat
      BY ActorSets, Numbers
    <2>2. ASSUME work.pc \in {"fetch", "apply", "commit"}
          PROVE  /\ work.channel <= runtime'.cursor
                 /\ catchup'.on => catchup'.cursor <= work.channel
      BY <2>1, <2>2, Numbers, NumbersNext DEF Progress, Counting, Shown, Advances
    <2>3. ASSUME work.pc = "apply"
          PROVE  Counted(runtime'.log, work.channel, work.last)
      <3>1. work.channel <= runtime.cursor /\ Counted(runtime.log, work.channel, work.last)
        BY <2>3 DEF Progress, Counting
      <3>. QED
        BY <2>1, <3>1, CountedGrows
    <2>4. ASSUME work.pc = "commit"
          PROVE  Counted(runtime'.log, work.channel, work.through)
      <3>1. work.channel <= runtime.cursor /\ Counted(runtime.log, work.channel, work.through)
        BY <2>4 DEF Progress, Counting
      <3>. QED
        BY <2>1, <3>1, CountedGrows
    <2>5. Counting'
      BY <1>3, <2>2, <2>3, <2>4 DEF Counting
    <2>. QED
      BY <1>1, <2>5 DEF Progress
  <1>. QED
    BY <1>2, <1>3

\* The worker's reply counts once the events before it are archived.
LEMMA ReturnsProgress ==
    ASSUME TypeOK, TypeOK', Progress, Advances(runtime'), ArchiveReturns(Worker),
           mem'.cursor >= mem.cursor,
           actors[Worker].channel <= runtime.cursor,
           catchup.on => catchup.cursor <= actors[Worker].channel,
           Counted(runtime.log, actors[Worker].channel, mem'.cursor)
    PROVE  Progress'
  <1> DEFINE channel == actors[Worker].channel
  <1>1. channel \in Nat /\ actors \in [Actors -> Works]
    BY ActorSets, Numbers
  <1>2. Rests(Worker) /\ actors'[Worker].pc # "fetch"
    <2>1. [Resting EXCEPT !.pc = "sync", !.recovered = TRUE].pc = "sync"
      BY DEF Resting
    <2>. QED
      BY <1>1, <2>1, ActorSets, RestingType, ReturnsRests DEF ArchiveReturns
  <1>3. Counting'
    BY <1>2 DEF Counting, Rests
  <1>4. CASE Shown
    BY <1>3, <1>4, ConfirmedKept DEF Progress
  <1>5. CASE catchup'.on /\ ~Shown
    <2>1. /\ catchup'.cursor = channel
          /\ catchup'.start = channel \/ (catchup.on /\ catchup'.start = catchup.start)
      BY <1>5, NoEntryType
         DEF ArchiveReturns, Begun, Finished, Shown, TypeOK
    <2>2. catchup.on => catchup.start <= catchup.cursor
      BY DEF Progress, Confirmed
    <2>3. catchup.start \in Nat /\ catchup.cursor \in Nat
      BY DEF TypeOK
    <2>4. Counted(runtime'.log, channel, mem'.cursor)
      <3>1. mem'.cursor \in Nat /\ mem'.cursor <= mem'.cursor
        BY NumbersNext
      <3>. QED
        BY <1>1, <3>1, CountedGrows
    <2>5. catchup'.start <= catchup'.cursor /\ catchup'.cursor <= runtime'.cursor
      BY <1>1, <2>1, <2>2, <2>3, Numbers, NumbersNext DEF Advances
    <2>. QED
      BY <1>3, <2>1, <2>4, <2>5 DEF Progress, Confirmed
  <1>6. CASE ~catchup'.on
    BY <1>3, <1>6 DEF Progress, Confirmed
  <1>. QED
    BY <1>4, <1>5, <1>6

LEMMA ListProgress ==
    ASSUME TypeOK, TypeOK', Progress, List
    PROVE  Progress'
  <1>1. actors'[Worker].pc = "fetch" /\ actors'[Worker].channel = runtime.cursor
    BY ActorSets, Numbers DEF List, Resting
  <1>2. Confirmed'
    BY DEF List, Progress, Confirmed
  <1>3. Counting'
    BY <1>1, Numbers DEF List, Progress, Confirmed, Counting
  <1>. QED
    BY <1>2, <1>3 DEF Progress

LEMMA FetchProgress ==
    ASSUME TypeOK, TypeOK', Progress, Reached, Fetch(Worker)
    PROVE  Progress'
  <1> DEFINE work == actors[Worker]
  <1>1. /\ actors'[Worker].pc = "apply" /\ actors'[Worker].channel = work.channel
        /\ actors'[Worker].last = Len(runtime.log)
    <2>1. actors \in [Actors -> Works] /\ work \in Works /\ Worker \in Actors
      BY Numbers, ActorSets
    <2>2. ~(Len(runtime.log) - runtime.committed > Limit)
      BY Numbers, HostedAssumption DEF Reached
    <2>. QED
      BY <2>1, <2>2 DEF Fetch, Works
  <1>2. Counted(runtime.log, work.channel, Len(runtime.log))
    BY Numbers, LogFacts DEF Counted
  <1>3. Confirmed'
    BY DEF Fetch, Progress, Confirmed
  <1>4. Counting'
    BY <1>1, <1>2 DEF Fetch, Progress, Counting, At
  <1>. QED
    BY <1>3, <1>4 DEF Progress

LEMMA ApplyProgress ==
    ASSUME TypeOK, TypeOK', Inv, Progress, Apply(Worker)
    PROVE  Progress'
  <1> DEFINE work == actors[Worker]
             room == Candidate(Worker)
  <1>1. /\ room.cursor \in Nat /\ room.cursor >= mem.cursor /\ room.cursor >= work.last
    BY ActorSets, AppliedSound DEF Apply
  <1>2. mem' = room /\ UNCHANGED runtime
    BY DEF Apply
  <1>3. Advances(runtime')
    BY <1>2, SameRuntime
  <1>4. /\ work.channel <= runtime.cursor
        /\ catchup.on => catchup.cursor <= work.channel
        /\ Counted(runtime.log, work.channel, work.last)
    BY DEF Apply, At, Progress, Counting
  <1>5. work.channel \in Nat /\ work.last \in Nat /\ work \in Works
        /\ actors \in [Actors -> Works] /\ Worker \in Actors
    BY ActorSets, Numbers
  <1> HIDE DEF room
  <1>6. Counted(runtime.log, work.channel, room.cursor)
    BY <1>1, <1>2, <1>3, <1>4, <1>5, CountedGrows
  <1>7. CASE ArchiveReturns(Worker)
    BY <1>1, <1>2, <1>3, <1>4, <1>6, <1>7, ReturnsProgress
  <1>8. CASE /\ actors' = [actors EXCEPT ![Worker] =
                  [@ EXCEPT !.pc = "commit", !.first = 1, !.last = 0, !.through = room.cursor]]
             /\ UNCHANGED catchup
    <2>1. /\ actors'[Worker].pc = "commit" /\ actors'[Worker].through = room.cursor
          /\ actors'[Worker].channel = work.channel
      BY <1>5, <1>8 DEF Works
    <2>2. Shown
      BY <1>1, <1>2, <1>8, Numbers DEF Shown
    <2>3. Confirmed'
      BY <1>3, <2>2, ConfirmedKept DEF Progress
    <2>4. Counting'
      BY <1>2, <1>4, <1>6, <1>8, <2>1 DEF Counting
    <2>. QED
      BY <2>3, <2>4 DEF Progress
  <1>. QED
    BY <1>7, <1>8 DEF Apply, room

LEMMA CommitProgress ==
    ASSUME TypeOK, TypeOK', Inv, Progress, Commit(Worker)
    PROVE  Progress'
  <1> DEFINE work == actors[Worker]
  <1>1. HasSession /\ mem' = mem /\ work.pc = "commit" /\ Worker \in Actors
    BY ActorSets DEF Commit, TypeOK, At, HasSession
  <1>2. Advances(runtime')
    BY ActorSets, AcknowledgedWithin DEF Commit
  <1>3. /\ work.channel <= runtime.cursor
        /\ catchup.on => catchup.cursor <= work.channel
        /\ Counted(runtime.log, work.channel, work.through)
    BY <1>1 DEF Progress, Counting
  <1>4. work.through <= mem.cursor
    BY <1>1 DEF Inv, Waiting, Promised, At
  <1>5. Counted(runtime.log, work.channel, mem.cursor)
    BY <1>3, <1>4, ActorSets, Numbers, LogFacts DEF Counted
  <1>. QED
    BY <1>1, <1>2, <1>3, <1>5, Numbers, ReturnsProgress DEF Commit

LEMMA SyncProgress ==
    ASSUME TypeOK, TypeOK', Inv, Progress, Sync(Worker)
    PROVE  Progress'
  <1>1. Advances(runtime')
    BY SyncedOn DEF Sync
  <1>2. actors'[Worker].pc = "fetch" /\ actors'[Worker].channel = runtime'.cursor
    <2>1. actors \in [Actors -> Works] /\ actors[Worker] \in Works /\ Worker \in Actors
      BY Numbers, ActorSets
    <2>. QED
      BY <2>1 DEF Sync, Works
  <1>3. Shown
    BY Numbers DEF Sync, Shown
  <1>4. Confirmed'
    BY <1>1, <1>3, ConfirmedKept DEF Progress
  <1>5. Counting'
    BY <1>2, <1>4, NumbersNext DEF Counting, Confirmed
  <1>. QED
    BY <1>4, <1>5 DEF Progress

\* Whatever happens, the runtime only goes on.
LEMMA StepAdvances ==
    ASSUME TypeOK, Inv, [Next]_vars
    PROVE  Advances(runtime')
  <1>1. CASE runtime'.log = runtime.log /\ runtime'.cursor = runtime.cursor
    BY <1>1, SameRuntime
  <1>2. CASE Synced(runtime')
    BY <1>2, SyncedOn
  <1>3. ASSUME NEW c \in Callers, Send(c)
        PROVE  Advances(runtime')
    <2>1. ~Logged(runtime.log, "message", c)
      BY <1>3 DEF Send, Logged, Says
    <2>. QED
      BY <1>3, <2>1, Numbers, LoggedAdvances DEF Send, Inv, Archives
  <1>4. ASSUME NEW c \in Callers, Deliver(c)
        PROVE  Advances(runtime')
    <2>1. ~Logged(runtime.log, "delivery", c) /\ Logged(runtime.log, "message", c)
      BY <1>4 DEF Deliver, Logged, Says
    <2>. QED
      BY <1>4, <2>1, Numbers, LoggedAdvances DEF Deliver, Inv, Archives
  <1>5. ASSUME NEW a \in Actors, Archiving(a) \/ ApplyFails(a) \/ CallFails(a)
        PROVE  Advances(runtime')
    <2>1. ASSUME runtime' = Acknowledged(a)
          PROVE  runtime'.log = runtime.log /\ runtime'.cursor = runtime.cursor
      BY <2>1, Numbers DEF Acknowledged, Runtimes
    <2>2. runtime' = runtime \/ runtime' = Acknowledged(a) \/ Synced(runtime')
      BY <1>5 DEF Archiving, Fetch, Apply, ApplyRefused, Commit, Sync, ApplyFails, CallFails
    <2>. QED
      BY <1>1, <1>2, <2>1, <2>2
  <1>6. ASSUME NEW c \in Callers, Join(c) \/ Refresh(c) \/ Remember(c) \/ Cancel(c)
        PROVE  Advances(runtime')
    <2>1. runtime'.log = runtime.log /\ runtime'.cursor = runtime.cursor
      BY <1>6, Numbers DEF Join, Refresh, Remember, Cancel, Runtimes
    <2>. QED
      BY <1>1, <2>1
  <1>7. ASSUME \/ List \/ ListFails \/ Show \/ RecordError \/ RecordErrorFails
               \/ Unlock \/ OtherSave \/ Disconnect \/ CloseSession \/ Crash
               \/ UNCHANGED vars
        PROVE  Advances(runtime')
    BY <1>1, <1>7 DEF List, ListFails, Show, RecordError, RecordErrorFails, Unlock, OtherSave,
                      Disconnect, CloseSession, Crash, vars
  <1>. QED
    BY <1>3, <1>4, <1>5, <1>6, <1>7 DEF Next

\* A step of archive_hosted by a request leaves the worker and its progress.
LEMMA CallerProgress ==
    ASSUME TypeOK, TypeOK', Inv, Progress, [Next]_vars, NEW a \in Actors, a # Worker,
           Archiving(a) \/ ApplyFails(a) \/ CallFails(a)
    PROVE  Progress'
  <1>1. actors'[Worker] = actors[Worker] /\ UNCHANGED catchup
    BY ActorSets, Numbers
       DEF Archiving, Fetch, Apply, ApplyRefused, Commit, Sync, ApplyFails, CallFails,
           ArchiveReturns, StepFails
  <1>2. mem' = mem \/ (Apply(a) /\ mem' = Candidate(a))
    BY DEF Archiving, Fetch, Apply, ApplyRefused, Commit, Sync, ApplyFails, CallFails
  <1>3. mem'.cursor >= mem.cursor
    BY <1>2, Numbers, AppliedSound DEF Apply
  <1>4. Shown
    BY <1>1, <1>3 DEF Shown
  <1>. QED
    BY <1>1, <1>4, StepAdvances, OtherProgress

\* A failure of the worker's takes the entry away.
LEMMA FailsProgress ==
    ASSUME TypeOK, TypeOK', Inv, Progress, [Next]_vars,
           ApplyRefused(Worker) \/ ApplyFails(Worker) \/ CallFails(Worker)
    PROVE  Progress'
  <1>1. Rests(Worker) /\ catchup' = NoEntry /\ actors'[Worker].pc # "fetch"
    <2>1. StepFails(Worker)
      BY DEF ApplyRefused, ApplyFails, CallFails
    <2>2. [Resting EXCEPT !.pc = "record"].pc = "record"
      BY DEF Resting
    <2>. QED
      BY <2>1, <2>2, ActorSets, Numbers, RestingType, FailsRests DEF StepFails
  <1>2. Shown
    BY <1>1, NoEntryType DEF Shown
  <1>. QED
    BY <1>1, <1>2, StepAdvances, OtherProgress DEF Rests

LEMMA ProgressStep == TypeOK /\ TypeOK' /\ Inv /\ Reached /\ Progress /\ [Next]_vars => Progress'
  <1> SUFFICES ASSUME TypeOK, TypeOK', Inv, Reached, Progress, [Next]_vars PROVE Progress'
    OBVIOUS
  <1>1. ASSUME NEW a \in Actors, Archiving(a) \/ ApplyFails(a) \/ CallFails(a)
        PROVE  Progress'
    <2>1. CASE a # Worker
      BY <1>1, <2>1, CallerProgress
    <2>2. CASE a = Worker
      BY <1>1, <2>2, FetchProgress, ApplyProgress, CommitProgress, SyncProgress, FailsProgress
         DEF Archiving
    <2>. QED
      BY <2>1, <2>2
  <1>2. CASE List
    BY <1>2, ListProgress
  <1>3. ASSUME NEW c \in Callers,
               Deliver(c) \/ Join(c) \/ Refresh(c) \/ Send(c) \/ Remember(c) \/ Cancel(c)
        PROVE  Progress'
    <2>1. actors'[Worker] = actors[Worker] /\ UNCHANGED catchup
      BY <1>3, ActorSets, Numbers DEF Deliver, Join, Refresh, Send, Become, Remember, Cancel
    <2>2. mem' = mem \/ mem' = Remembered(c)
      BY <1>3 DEF Deliver, Join, Refresh, Send, Remember, Cancel
    <2>3. mem'.cursor >= mem.cursor
      BY <2>2, Numbers, RememberedType
    <2>4. Shown
      BY <2>1, <2>3 DEF Shown
    <2>. QED
      BY <2>1, <2>4, StepAdvances, OtherProgress
  <1>4. CASE ListFails \/ Show \/ RecordError \/ RecordErrorFails
    <2>1. actors'[Worker] = actors[Worker] \/ actors'[Worker].pc = "idle"
      BY <1>4, ActorSets, Numbers, RestingType
         DEF ListFails, Show, RecordError, RecordErrorFails
    <2>2. mem'.cursor = mem.cursor
      BY <1>4, Numbers DEF ListFails, Show, RecordError, RecordErrorFails, Rooms
    <2>3. catchup'.on => /\ catchup.on
                         /\ catchup'.start = catchup.start /\ catchup'.cursor = catchup.cursor
      BY <1>4, NoEntryType DEF ListFails, Show, RecordError, RecordErrorFails, TypeOK
    <2>4. Shown
      BY <2>2, <2>3, Numbers DEF Shown
    <2>. QED
      BY <2>1, <2>4, StepAdvances, OtherProgress
  <1>5. CASE Unlock \/ OtherSave \/ Disconnect \/ CloseSession \/ Crash \/ UNCHANGED vars
    <2>1. actors'[Worker] = actors[Worker] \/ actors'[Worker].pc = "idle"
      BY <1>5, ActorSets, Numbers, RestingType
         DEF Unlock, OtherSave, Disconnect, CloseSession, Crash, vars
    <2>2. ~catchup'.on \/ (UNCHANGED catchup /\ mem' = mem)
      BY <1>5, NoEntryType
         DEF Unlock, OtherSave, Disconnect, CloseSession, Crash, vars, TypeOK, HasSession
    <2>3. Shown
      BY <2>2, Numbers DEF Shown
    <2>. QED
      BY <2>1, <2>3, StepAdvances, OtherProgress
  <1>. QED
    BY <1>1, <1>2, <1>3, <1>4, <1>5 DEF Next

\* The progress shown counts no record whose events are not archived yet,
\* whatever else archives, fails, ends or comes back meanwhile - as long as a
\* fetch takes all that is outstanding (archive_hosted asks for 256 events).
THEOREM CatchUpStaysConfirmed == Spec /\ []Reached => []CatchUpIsConfirmed
  <1>1. Init => Progress
    BY NoEntryType, ActorSets, RestingType DEF Init, Progress, Confirmed, Counting
  <1>2. TypeOK /\ Inv /\ Progress => CatchUpIsConfirmed
    <2> SUFFICES ASSUME TypeOK, Inv, Progress, catchup.on
                 PROVE  /\ catchup.start <= catchup.cursor
                        /\ \A n \in DOMAIN runtime.log :
                              runtime.log[n].record \in 1 .. catchup.cursor => Archived(mem, n)
      BY DEF CatchUpIsConfirmed
    <2>1. ASSUME NEW n \in DOMAIN runtime.log, runtime.log[n].record \in 1 .. catchup.cursor
          PROVE  Archived(mem, n)
      <3>1. n <= mem.cursor
        BY <2>1 DEF Progress, Confirmed, Counted
      <3>2. n \in 1 .. mem.cursor
        BY <3>1, Numbers, LogFacts
      <3>3. Holds(runtime.log, mem, n)
        BY <3>2 DEF Inv, Archives, Sound, Whole
      <3>. QED
        BY <3>3 DEF Holds, Archived
    <2>. QED
      BY <2>1 DEF Progress, Confirmed
  <1>. QED
    BY <1>1, <1>2, InvHolds, ProgressStep, PTL DEF Spec
=============================================================================
