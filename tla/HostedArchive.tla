----------------------------- MODULE HostedArchive -----------------------------
(***************************************************************************)
(* How the events of a hosted channel reach the service's own archive      *)
(* (chat_service/hosted.rs, hosted_catchup.rs) and only then are           *)
(* acknowledged to the protocol runtime, which forgets them.               *)
(*                                                                         *)
(* The runtime is external: it takes records from the hosted service page  *)
(* by page (Sync), turns them into a log of numbered events, adds the      *)
(* events of what is sent from here, returns events not acknowledged yet   *)
(* and survives a crash.  The service's hosted worker and the requests of  *)
(* the windows archive concurrently; the session lock is held from the     *)
(* candidate to the save, never across a call of the runtime.  A save      *)
(* writes the hosted file first and the others after it, so a failed save  *)
(* may have left the hosted file ahead of memory.                          *)
(*                                                                         *)
(* Of the archived messages and activities the model keeps how many there  *)
(* are of each identifier, not their order, which is that of the events.   *)
(***************************************************************************)
EXTENDS Naturals, Sequences

CONSTANTS
    Callers,      \* requests of windows; each sends at most one message
    Worker,       \* the hosted worker
    Limit,        \* events archive_hosted asks for (256)
    Page,         \* records one Sync may bring
    MaxRecords,   \* bound on records at the hosted service
    Activities,   \* the records that are shown as an activity, not a message
    MaxFaults,    \* bound on failing calls, failing saves and cancellations
    MaxCrashes    \* bound on crashes

ASSUME HostedAssumption ==
    /\ Worker \notin Callers
    /\ Callers \cap 1 .. MaxRecords = {}      \* identifiers of messages
    /\ Limit \in Nat \ {0} /\ Page \in Nat \ {0}
    /\ Activities \subseteq 1 .. MaxRecords
    /\ MaxRecords \in Nat /\ MaxFaults \in Nat /\ MaxCrashes \in Nat

VARIABLES
    runtime,      \* [joined, cursor, log, committed]
    session,      \* "none", "open", "stopping" (disconnect began), "ended"
    mem,          \* the room in session.state.hosted, with its activity
    disk,         \* the same in the hosted file
    actors,       \* what the worker and each caller are doing
    catchup,      \* hosted_catchup's entry of the room
    faults, crashes

bounds == <<faults, crashes>>
vars == <<runtime, session, mem, disk, actors, catchup, bounds>>

Actors == Callers \cup {Worker}

\* A message is named by the request that sent it or by the record it came in.
Ids == Callers \cup 1 .. MaxRecords

\* No entry: the room is not in hosted, and the runtime was never asked.
NoRoom ==
    [known |-> FALSE, channel |-> 0, cursor |-> 0, messages |-> [id \in Ids |-> 0],
     delivered |-> {}, linked |-> {}, operations |-> {},
     activity |-> [id \in Ids |-> 0], error |-> FALSE]

NoEntry == [on |-> FALSE, start |-> 0, cursor |-> 0, visible |-> FALSE]

Resting ==
    [pc |-> "idle", recovered |-> FALSE, channel |-> 0, first |-> 1, last |-> 0, through |-> 0]

Init ==
    /\ runtime = [joined |-> FALSE, cursor |-> 0, log |-> <<>>, committed |-> 0]
    /\ session = "none"
    /\ mem = NoRoom /\ disk = NoRoom
    /\ actors = [a \in Actors |-> Resting]
    /\ catchup = NoEntry
    /\ faults = 0 /\ crashes = 0

At(a, pc) == actors[a].pc = pc
Fault == faults < MaxFaults /\ faults' = faults + 1 /\ UNCHANGED crashes

-----------------------------------------------------------------------------
(* apply(): the events of a slice, on a copy of the archive.               *)

Has(room, id) == room.messages[id] > 0

Numbered(a) == actors[a].first .. actors[a].last

\* The event n of the log is of the kind and about the message or activity.
Reports(n, kind, id) == runtime.log[n].kind = kind /\ runtime.log[n].id = id

\* The events of the slice the room has not had.
New(a) == {n \in Numbered(a) : n > mem.cursor}

\* A message the room lacks is appended once.
Messages(new) ==
    [id \in Ids |-> IF ~Has(mem, id) /\ \E n \in new : Reports(n, "message", id)
                    THEN 1 ELSE mem.messages[id]]

\* A delivery is noted on its message, if the room has that by then.
Delivered(new) ==
    mem.delivered \cup
        {id \in Ids : \E d \in new :
            /\ Reports(d, "delivery", id)
            /\ Has(mem, id) \/ \E n \in new : n < d /\ Reports(n, "message", id)}

\* Anything shown as activity is recorded, whether it was before or not (the
\* code keeps the latest 2000).
Activity(new) ==
    [id \in Ids |-> IF \E n \in new : Reports(n, "activity", id)
                    THEN mem.activity[id] + 1 ELSE mem.activity[id]]

\* Only messages appended from here on are linked to their operation.
FaultLinked(messages) ==
    mem.linked \cup {id \in mem.operations : messages[id] > mem.messages[id]}

\* Whatever message has no operation yet gets that of its identifier.
Linked(messages) == mem.linked \cup {id \in mem.operations : messages[id] > 0}

\* "Hosted archive event gap; refusing acknowledgement"
Gap(a) ==
    \E n \in Numbered(a) : n > mem.cursor /\ actors[a].first > mem.cursor + 1

\* The candidate: the channel as it was when the caller asked for it, the new
\* events in order, the cursor behind the last of them.
Candidate(a) ==
    [known |-> TRUE, channel |-> actors[a].channel,
     cursor |-> IF actors[a].last > mem.cursor THEN actors[a].last ELSE mem.cursor,
     messages |-> Messages(New(a)), delivered |-> Delivered(New(a)),
     linked |-> Linked(Messages(New(a))), operations |-> mem.operations,
     activity |-> Activity(New(a)), error |-> mem.error /\ ~actors[a].recovered]

-----------------------------------------------------------------------------
(* The runtime and the hosted service (external).                          *)

\* The records there are after the cursor, at most a page of them, each a
\* message or an activity.
Recorded(n) ==
    [kind |-> IF n \in Activities THEN "activity" ELSE "message", id |-> n, record |-> n]

Synced(next) ==
    \E last \in runtime.cursor .. MaxRecords :
        /\ last <= runtime.cursor + Page
        /\ next = [runtime EXCEPT
              !.cursor = last,
              !.log = @ \o [i \in 1 .. last - runtime.cursor |-> Recorded(runtime.cursor + i)]]

\* A message sent from here reached the members.
Deliver(c) ==
    /\ \E n \in DOMAIN runtime.log : runtime.log[n].kind = "message" /\ runtime.log[n].id = c
    /\ ~\E n \in DOMAIN runtime.log : runtime.log[n].kind = "delivery" /\ runtime.log[n].id = c
    /\ runtime' = [runtime EXCEPT !.log =
                      Append(@, [kind |-> "delivery", id |-> c, record |-> 0])]
    /\ UNCHANGED <<session, mem, disk, actors, catchup, bounds>>

-----------------------------------------------------------------------------
(* archive_hosted, for whichever actor called it.                          *)

Become(a, pc) == actors' = [actors EXCEPT ![a].pc = pc]

\* An empty page leaves the entry where it is.
FaultFinished(through) ==
    IF catchup.on /\ through > catchup.cursor
    THEN [catchup EXCEPT !.cursor = through] ELSE catchup

\* Progress::finish: more than was listed counts as progress, an empty page
\* ends the catch-up.
Finished(through) ==
    IF catchup.on /\ through > catchup.cursor
    THEN [catchup EXCEPT !.cursor = through] ELSE NoEntry

\* Progress::begin keeps the start of a catch-up in progress.
Begun(cursor) ==
    IF catchup.on THEN [catchup EXCEPT !.cursor = cursor]
    ELSE [on |-> TRUE, start |-> cursor, cursor |-> cursor, visible |-> FALSE]

\* archive_hosted returned: the worker goes on to a tracked Sync, or has
\* finished its pass over the room; a caller answers.
ArchiveReturns(a) ==
    IF a = Worker /\ ~actors[a].recovered
    THEN /\ actors' = [actors EXCEPT ![a] = [Resting EXCEPT !.pc = "sync", !.recovered = TRUE]]
         /\ catchup' = Begun(actors[a].channel)
    ELSE /\ actors' = [actors EXCEPT ![a] = Resting]
         /\ IF a = Worker
            THEN catchup' = Finished(actors[a].channel)
            ELSE UNCHANGED catchup

\* A step of sync or archive failed: of the worker's tracked sync the Attempt
\* is dropped and the error recorded in the room; any other error ends the
\* worker's pass and all progress; a caller answers the error.
StepFails(a) ==
    IF a = Worker /\ actors[a].recovered
    THEN actors' = [actors EXCEPT ![a] = [Resting EXCEPT !.pc = "record"]] /\ catchup' = NoEntry
    ELSE /\ actors' = [actors EXCEPT ![a] = Resting]
         /\ IF a = Worker
            THEN catchup' = NoEntry
            ELSE UNCHANGED <<catchup>>

Fetch(a) ==
    /\ At(a, "fetch")
    /\ LET end == Len(runtime.log) IN
       actors' = [actors EXCEPT
            ![a].pc = "apply",
            ![a].first = runtime.committed + 1,
            ![a].last = IF end - runtime.committed > Limit THEN runtime.committed + Limit ELSE end]
    /\ UNCHANGED <<runtime, session, mem, disk, catchup, bounds>>

HasSession == session \in {"open", "stopping"}

\* Clone, apply, save if anything changed, swap; then acknowledge what the
\* archive holds, if the slice had an event.
Apply(a) ==
    /\ At(a, "apply") /\ HasSession /\ ~Gap(a)
    /\ LET room == Candidate(a) IN
       /\ IF room # mem THEN mem' = room /\ disk' = room ELSE UNCHANGED <<mem, disk>>
       /\ IF room.cursor > 0 /\ Numbered(a) # {}
          THEN /\ actors' = [actors EXCEPT
                   ![a] = [@ EXCEPT !.pc = "commit", !.first = 1, !.last = 0, !.through = room.cursor]]
               /\ UNCHANGED catchup
          ELSE ArchiveReturns(a)
    /\ UNCHANGED <<runtime, session, bounds>>

\* Memory keeps what the failed save did not write.
FaultApplyFails(a) ==
    /\ At(a, "apply") /\ HasSession /\ ~Gap(a) /\ Candidate(a) # mem
    /\ mem' = Candidate(a)
    /\ Fault /\ StepFails(a)
    /\ UNCHANGED <<runtime, session, disk>>

\* The save fails, with the hosted file written or not; memory stays.
ApplyFails(a) ==
    /\ At(a, "apply") /\ HasSession /\ ~Gap(a) /\ Candidate(a) # mem
    /\ disk' \in {disk, Candidate(a)}
    /\ Fault /\ StepFails(a)
    /\ UNCHANGED <<runtime, session, mem>>

\* "Archive is closed", or a gap.
ApplyRefused(a) ==
    /\ At(a, "apply") /\ (~HasSession \/ Gap(a))
    /\ StepFails(a)
    /\ UNCHANGED <<runtime, session, mem, disk, bounds>>

\* Everything the runtime has is acknowledged, not what was archived.
FaultAcknowledged(a) == [runtime EXCEPT !.committed = Len(runtime.log)]

\* CommitEvents: the runtime forgets the events up to `through`.
Acknowledged(a) ==
    [runtime EXCEPT !.committed = IF actors[a].through > @ THEN actors[a].through ELSE @]

Commit(a) ==
    /\ At(a, "commit")
    /\ runtime' = Acknowledged(a)
    /\ ArchiveReturns(a)
    /\ UNCHANGED <<session, mem, disk, bounds>>

\* Any call of the runtime may fail; the acknowledgement may have been made.
CallFails(a) ==
    /\ actors[a].pc \in {"fetch", "sync", "commit"}
    /\ \/ UNCHANGED runtime
       \/ At(a, "commit") /\ runtime' = Acknowledged(a)
       \/ At(a, "sync") /\ Synced(runtime')
    /\ StepFails(a)
    /\ Fault
    /\ UNCHANGED <<session, mem, disk>>

-----------------------------------------------------------------------------
(* The hosted worker: List, archive, Sync, archive, once a second and      *)
(* whenever durable work wakes it.                                         *)

List ==
    /\ At(Worker, "idle") /\ session = "open" /\ runtime.joined
    /\ actors' = [actors EXCEPT ![Worker] =
                    [Resting EXCEPT !.pc = "fetch", !.channel = runtime.cursor]]
    /\ UNCHANGED <<runtime, session, mem, disk, catchup, bounds>>

ListFails ==
    /\ At(Worker, "idle") /\ session = "open"
    /\ Fault
    /\ catchup' = NoEntry
    /\ UNCHANGED <<runtime, session, mem, disk, actors>>

\* A reply that takes more than two seconds makes the progress visible.
Show ==
    /\ At(Worker, "sync") /\ catchup.on /\ ~catchup.visible
    /\ catchup' = [catchup EXCEPT !.visible = TRUE]
    /\ UNCHANGED <<runtime, session, mem, disk, actors, bounds>>

\* The reply counts as progress before its events are archived.
FaultSync(a) ==
    /\ At(a, "sync")
    /\ Synced(runtime')
    /\ actors' = [actors EXCEPT ![a].pc = "fetch", ![a].recovered = TRUE,
                                ![a].channel = runtime'.cursor]
    /\ catchup' = IF a = Worker THEN Finished(runtime'.cursor) ELSE catchup
    /\ UNCHANGED <<session, mem, disk, bounds>>

\* The Sync reply, for the worker and for /refresh.
Sync(a) ==
    /\ At(a, "sync")
    /\ Synced(runtime')
    /\ actors' = [actors EXCEPT ![a].pc = "fetch", ![a].recovered = TRUE,
                                ![a].channel = runtime'.cursor]
    /\ UNCHANGED <<session, mem, disk, catchup, bounds>>

\* A room that failed to synchronise shows why; the pass goes on and ends well.
RecordError ==
    /\ At(Worker, "record")
    /\ IF HasSession /\ mem.known /\ ~mem.error
       THEN mem' = [mem EXCEPT !.error = TRUE] /\ disk' = mem'
       ELSE UNCHANGED <<mem, disk>>
    /\ actors' = [actors EXCEPT ![Worker] = Resting]
    /\ UNCHANGED <<runtime, session, catchup, bounds>>

\* The save of the error fails: the pass ends with that error.  It needs no
\* fault of its own, since only a fault brings the worker here.
RecordErrorFails ==
    /\ At(Worker, "record") /\ HasSession /\ mem.known /\ ~mem.error
    /\ disk' \in {disk, [mem EXCEPT !.error = TRUE]}
    /\ actors' = [actors EXCEPT ![Worker] = Resting]
    /\ UNCHANGED <<runtime, session, mem, catchup, bounds>>

-----------------------------------------------------------------------------
(* Requests.                                                               *)

\* /hosted create and /hosted join: the reply is archived like any other.
Join(c) ==
    /\ At(c, "idle") /\ session = "open" /\ ~runtime.joined
    /\ runtime' = [runtime EXCEPT !.joined = TRUE]
    /\ actors' = [actors EXCEPT ![c] =
                    [Resting EXCEPT !.pc = "fetch", !.channel = runtime.cursor]]
    /\ UNCHANGED <<session, mem, disk, catchup, bounds>>

\* /refresh
Refresh(c) ==
    /\ At(c, "idle") /\ session = "open" /\ mem.known
    /\ actors' = [actors EXCEPT ![c] = [Resting EXCEPT !.pc = "sync"]]
    /\ UNCHANGED <<runtime, session, mem, disk, catchup, bounds>>

\* A message: queued by the runtime first, which logs it as an event of ours.
Send(c) ==
    /\ At(c, "idle") /\ session = "open" /\ mem.known
    /\ ~\E n \in DOMAIN runtime.log : runtime.log[n].id = c
    /\ runtime' = [runtime EXCEPT !.log =
                      Append(@, [kind |-> "message", id |-> c, record |-> 0])]
    /\ \/ Become(c, "remember") /\ UNCHANGED bounds
       \/ Fault /\ UNCHANGED actors     \* the reply is lost
    /\ UNCHANGED <<session, mem, disk, catchup>>

\* The message is pushed without looking whether its event was archived.
FaultRemembered(c) ==
    [mem EXCEPT !.operations = @ \cup {c}, !.linked = @ \cup {c}, !.messages[c] = @ + 1]

\* remember_queued: the operation, and the message unless its event has been
\* archived already - which is then left without its operation.
Remembered(c) ==
    IF Has(mem, c) THEN [mem EXCEPT !.operations = @ \cup {c}]
    ELSE [mem EXCEPT !.operations = @ \cup {c}, !.linked = @ \cup {c}, !.messages[c] = 1]

Remember(c) ==
    /\ At(c, "remember")
    /\ IF HasSession
       THEN \/ mem' = Remembered(c) /\ disk' = mem' /\ UNCHANGED bounds
            \/ disk' \in {disk, Remembered(c)} /\ Fault /\ UNCHANGED mem
       ELSE UNCHANGED <<mem, disk, bounds>>
    /\ actors' = [actors EXCEPT ![c] = Resting]
    /\ UNCHANGED <<runtime, session, catchup>>

\* A request is dropped at an await: its deadline, or its window's.
Cancel(c) ==
    /\ ~At(c, "idle")
    /\ actors' = [actors EXCEPT ![c] = Resting]
    /\ Fault
    /\ UNCHANGED <<runtime, session, mem, disk, catchup>>

-----------------------------------------------------------------------------
(* The session.                                                            *)

\* What the hosted file holds replaces whatever the service state had.
Unlock ==
    /\ session = "none"
    /\ session' = "open"
    /\ mem' = disk
    /\ UNCHANGED <<runtime, disk, actors, catchup, bounds>>

\* Any other save of the service state writes the room as memory has it, also
\* after a failed save left the file ahead.
OtherSave ==
    /\ HasSession /\ disk # mem
    /\ disk' = mem
    /\ UNCHANGED <<runtime, session, mem, actors, catchup, bounds>>

\* The worker goes, its progress stays.
FaultDisconnect ==
    /\ session = "open"
    /\ session' = "stopping"
    /\ actors' = [actors EXCEPT ![Worker] = Resting]
    /\ UNCHANGED <<runtime, mem, disk, catchup, bounds>>

\* disconnect(): the worker stops wherever it awaits.
Disconnect ==
    /\ session = "open"
    /\ session' = "stopping"
    /\ actors' = [actors EXCEPT ![Worker] = Resting]
    /\ catchup' = NoEntry
    /\ UNCHANGED <<runtime, mem, disk, bounds>>

\* The last save, which may fail, and the end of the session.
CloseSession ==
    /\ session = "stopping"
    /\ session' = "ended"
    /\ \/ disk' = mem /\ UNCHANGED bounds
       \/ UNCHANGED disk /\ Fault
    /\ mem' = NoRoom
    /\ UNCHANGED <<runtime, actors, catchup>>

\* The process ends, at any point, and starts again.
Crash ==
    /\ crashes < MaxCrashes
    /\ crashes' = crashes + 1
    /\ session' = "none"
    /\ mem' = NoRoom
    /\ actors' = [a \in Actors |-> Resting]
    /\ catchup' = NoEntry
    /\ UNCHANGED <<runtime, disk, faults>>

-----------------------------------------------------------------------------

Archiving(a) ==
    Fetch(a) \/ Apply(a) \/ ApplyRefused(a) \/ Commit(a) \/ Sync(a)

Next ==
    \/ \E c \in Callers : Deliver(c)
    \/ \E a \in Actors : Archiving(a) \/ ApplyFails(a) \/ CallFails(a)
    \/ List \/ ListFails \/ Show \/ RecordError \/ RecordErrorFails
    \/ \E c \in Callers : Join(c) \/ Refresh(c) \/ Send(c) \/ Remember(c) \/ Cancel(c)
    \/ Unlock \/ OtherSave \/ Disconnect \/ CloseSession \/ Crash

Spec == Init /\ [][Next]_vars

\* The worker's interval ticks every second and its calls return; requests go
\* on.  Faults are not fair, and bounded.
FairSpec ==
    /\ Spec
    /\ WF_vars(List) /\ WF_vars(RecordError)
    /\ \A a \in Actors : WF_vars(Archiving(a))
    /\ \A c \in Callers : WF_vars(Remember(c))

-----------------------------------------------------------------------------
(* Correctness.                                                            *)

Rooms ==
    [known : BOOLEAN, channel : Nat, cursor : Nat, messages : [Ids -> Nat],
     delivered : SUBSET Ids, linked : SUBSET Ids, operations : SUBSET Callers,
     activity : [Ids -> Nat], error : BOOLEAN]

Works == [pc : {"idle", "fetch", "apply", "commit", "sync", "record", "remember"},
          recovered : BOOLEAN, channel : Nat, first : Nat, last : Nat, through : Nat]

Events == [kind : {"message", "delivery", "activity"}, id : Ids, record : Nat]

\* The shape of every variable: Archive, the actors' locals and Progress; the
\* worker and its progress live only while the session is open.
TypeOK ==
    /\ runtime \in [joined : BOOLEAN, cursor : 0 .. MaxRecords, log : Seq(Events), committed : Nat]
    /\ session \in {"none", "open", "stopping", "ended"}
    /\ mem \in Rooms /\ disk \in Rooms
    /\ actors \in [Actors -> Works]
    /\ catchup \in [on : BOOLEAN, start : Nat, cursor : Nat, visible : BOOLEAN]
    /\ session # "open" => At(Worker, "idle") /\ ~catchup.on
    /\ faults \in 0 .. MaxFaults /\ crashes \in 0 .. MaxCrashes

\* The room has the event's effect: the message, its delivery, the activity.
Archived(room, n) ==
    LET event == runtime.log[n] IN
    /\ n <= room.cursor
    /\ event.kind = "message" => Has(room, event.id)
    /\ event.kind = "delivery" => Has(room, event.id) /\ event.id \in room.delivered
    /\ event.kind = "activity" => room.activity[event.id] > 0

\* An event the runtime was allowed to forget is in the hosted file, whatever
\* fails, crashes or is saved in between ("Only acknowledge runtime events
\* after both writes succeed; a crash between writes replays the same events
\* safely", persistence.rs).
AcknowledgedIsOnDisk ==
    \A n \in 1 .. runtime.committed : n \in DOMAIN runtime.log /\ Archived(disk, n)

\* However often events are fetched and replayed, by whom and in whatever
\* order with the sender's own copy, no message and no activity is archived
\* twice, and none that the runtime never reported.
ArchivedOnce ==
    \A room \in {mem, disk}, id \in Ids :
        /\ room.messages[id] <= 1
        /\ Has(room, id) => \E n \in DOMAIN runtime.log : Reports(n, "message", id)
        /\ room.activity[id] =
              IF \E n \in DOMAIN runtime.log : n <= room.cursor /\ Reports(n, "activity", id)
              THEN 1 ELSE 0

\* No archiver meets the gap that would make it refuse for ever: the archive
\* is never behind what was acknowledged, also after a restart.
NeverGap == \A a \in Actors : At(a, "apply") /\ session = "open" => ~Gap(a)

\* Progress shown to the user counts only records whose events are archived
\* ("Transient, confirmed replay progress", hosted_catchup.rs), as long as a
\* fetch takes all that is outstanding.
CatchUpIsConfirmed ==
    catchup.on =>
        /\ catchup.start <= catchup.cursor
        /\ \A n \in DOMAIN runtime.log :
              runtime.log[n].record \in 1 .. catchup.cursor => Archived(mem, n)

Settled ==
    /\ runtime.committed = Len(runtime.log)
    /\ mem.cursor = Len(runtime.log)
    /\ mem.channel = runtime.cursor
    /\ ~mem.error
    /\ \A id \in mem.operations : Has(mem, id) => id \in mem.linked

\* A session that stays open ends up with everything archived and
\* acknowledged, the room's description no longer the stale one a slower
\* archiver may have written, no error left, and every message of ours linked
\* to the operation that sent it.
Settles == (<>[](session = "open" /\ runtime.joined)) => <>[]Settled

\* The busy indicator of a catch-up always goes away again ("Errors, task
\* cancellation and shutdown must never leave a busy indicator").
CatchUpEnds == []<>(~catchup.visible)
=============================================================================
