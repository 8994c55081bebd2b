-------------------------- MODULE OperationJournal --------------------------
(***************************************************************************)
(* The encrypted operation journal of crates/core/src/chat_service: how a  *)
(* Submit is admitted, executed, recorded and reported, on the legacy      *)
(* dialect (mod.rs, handle_mode) and on the typed RPC dialect (rpc.rs),    *)
(* together with the update gate (update_gate.rs) that keeps maintenance   *)
(* away from unfinished work.                                              *)
(*                                                                         *)
(* A step runs from one await of the Rust code to the next.  The session   *)
(* mutex is held over each step that reads or writes the journal and never *)
(* between two steps, so it needs no variable of its own.  A save of the   *)
(* archive has three outcomes: written, failed before the rename, and      *)
(* failed after it (store.rs, atomic_write).  A crash loses everything but *)
(* the file.                                                               *)
(*                                                                         *)
(* An operator whose name starts with Fault is a wrong version of the      *)
(* definition below it, kept to see that the properties notice it; no      *)
(* specification uses one.                                                 *)
(***************************************************************************)
EXTENDS Integers, FiniteSets

CONSTANTS
    Ids,               \* operation identifiers chosen by clients
    Contents,          \* digests of (conversation, text)
    NoContent,         \* the digest of a record that is not there
    Callers,           \* slots for concurrent requests and RPC workers
    CommandIds,        \* identifiers used for commands that change membership
    Limit,             \* OPERATION_LIMIT (4096 in the code)
    Retention,         \* the seven days a record is kept, in clock ticks
    MaxTime,           \* bound on the clock
    OutliveRetention   \* may the wall clock pass a record's expiry while its
                       \* operation still runs (a jump of seven days)?

ASSUME JournalAssumption ==
    /\ NoContent \notin Contents
    /\ CommandIds \subseteq Ids
    /\ Ids # {} /\ IsFiniteSet(Callers)
    /\ Limit \in Nat
    /\ Retention \in Nat \ {0}
    /\ MaxTime \in Nat
    /\ OutliveRetention \in BOOLEAN

VARIABLES
    session,      \* "none", "open", or "locked" (ui_locked: receiving goes on)
    mem,          \* the journal of the unlocked state
    disk,         \* the journal in the archive file
    tasks,        \* what each request handler or RPC worker is doing
    paused,       \* UpdateGate.paused
    requests,     \* UpdateGate.requests, the live RequestGuards
    operations,   \* UpdateGate.operations, the admitted RPC operations
    stopped,      \* the stopped watch: the instance disconnects
    now,          \* unix seconds, in ticks
    effects,      \* history: the protocol calls made, by identifier and admission
    told          \* history: the outcomes given to a client

journal == <<session, mem, disk>>
gate    == <<paused, requests, operations>>
vars    == <<session, mem, disk, tasks, paused, requests, operations, stopped,
             now, effects, told>>

-----------------------------------------------------------------------------
Known    == {"applied", "rejected"}
Outcomes == Known \cup {"unknown"}
Times    == 0..MaxTime

\* OperationRecord: response is the legacy outcome, result the typed one.
Records == [digest : Contents \cup {NoContent}, at : Times,
            response : Outcomes \cup {"none"},
            bound : BOOLEAN, result : Known \cup {"none"}]

Absent == [digest |-> NoContent, at |-> 0, response |-> "none",
           bound |-> FALSE, result |-> "none"]

Present(r) == r.digest # NoContent

Admission(d, isBound) ==
    [digest |-> d, at |-> now, response |-> "none",
     bound |-> isBound, result |-> "none"]

FaultExpired(at) == at + Retention <= now + 1
Expired(at) == at + Retention <= now
Live(r)     == Present(r) /\ ~Expired(r.at)

\* operations.retain(...): expired records go, in memory first.
Retain(ops) == [id \in Ids |-> IF Live(ops[id]) THEN ops[id] ELSE Absent]

Stored(ops) == {id \in Ids : Present(ops[id])}

EmptyJournal == [id \in Ids |-> Absent]

\* rpc_record: a bound record shows its typed result only.
TypedResult(r) == IF r.bound THEN r.result ELSE r.response

-----------------------------------------------------------------------------
(* Tasks.  A legacy task is a request under dispatch; an rpc task is the   *)
(* worker the router starts once rpc_admit has answered New.               *)

Tasks == [pc : {"idle", "spawned", "entered", "executing", "executed",
                "recording", "completing"},
          via : {"legacy", "rpc"}, id : Ids, digest : Contents \cup {NoContent},
          at : Times, outcome : Outcomes \cup {"none"}]

Idle == [pc |-> "idle", via |-> "legacy", id |-> CHOOSE id \in Ids : TRUE,
         digest |-> NoContent, at |-> 0, outcome |-> "none"]

Step(c, pc) == tasks[c].pc = pc
Rpc(c)      == tasks[c].via = "rpc"
Record(c)   == mem[tasks[c].id]

\* The steps during which handle_mode owns a RequestGuard.
Guarded(t) == t.pc \in {"entered", "executing", "executed", "recording"}

\* The operation has its record and is not finished.
Admitted(t) == t.pc # "idle" /\ (t.via = "rpc" \/ t.pc # "entered")

\* The steps during which handle_mode owns the operations lock.
Ordered(t) == t.pc \in {"executing", "executed", "recording"}

\* A membership command excludes every other submission, a send only those.
MayOrder(c) ==
    \A d \in Callers \ {c} :
        Ordered(tasks[d]) => {tasks[c].id, tasks[d].id} \cap CommandIds = {}

FaultEnd(c) ==
    /\ tasks' = [tasks EXCEPT ![c] = Idle]
    /\ requests' = requests - 1
    /\ operations' = IF Rpc(c) THEN operations \ {tasks[c].id} ELSE operations

\* The handler or worker ends: it drops its RequestGuard if it has one, and a
\* worker's AdmissionGuard takes the operation out of the gate.
End(c) ==
    /\ tasks' = [tasks EXCEPT ![c] = Idle]
    /\ requests' = IF Guarded(tasks[c]) THEN requests - 1 ELSE requests
    /\ operations' = IF Rpc(c) THEN operations \ {tasks[c].id} ELSE operations

FaultAwaitCompletion(c, outcome) ==
    /\ tasks' = [tasks EXCEPT ![c].pc = "completing", ![c].outcome = outcome]
    /\ requests' = requests - 1
    /\ operations' = operations \ {tasks[c].id}

\* handle_mode returned a known outcome to invoke, which disarms its guard:
\* the operation stays in the gate until rpc_complete ends.
AwaitCompletion(c, outcome) ==
    /\ tasks' = [tasks EXCEPT ![c].pc = "completing", ![c].outcome = outcome]
    /\ requests' = requests - 1
    /\ UNCHANGED operations

Tell(c, at, outcome) ==
    told' = told \cup {[id |-> tasks[c].id, at |-> at, outcome |-> outcome]}

\* handle_mode returns a response.  A legacy client is told it; a worker goes
\* on to rpc_complete unless the response is outcome_unknown.
Return(c, at, outcome) ==
    IF Rpc(c)
    THEN /\ IF outcome \in Known THEN AwaitCompletion(c, outcome) ELSE End(c)
         /\ UNCHANGED told
    ELSE /\ End(c)
         /\ IF outcome \in Known THEN Tell(c, at, outcome) ELSE UNCHANGED told

\* handle_mode returns Err.  dispatch answers "rejected", or "disconnected"
\* once stopped; the typed handler answers outcome_unknown.
ReturnErr(c, at) ==
    /\ End(c)
    /\ IF Rpc(c) \/ stopped THEN UNCHANGED told ELSE Tell(c, at, "refused")

\* ServiceStateStore::save.  An error leaves either file behind.
SaveFails(candidate) == disk' \in {disk, candidate}

-----------------------------------------------------------------------------
Init ==
    /\ session = "none"
    /\ mem = EmptyJournal
    /\ disk = EmptyJournal
    /\ tasks = [c \in Callers |-> Idle]
    /\ paused = FALSE
    /\ requests = 0
    /\ operations = {}
    /\ stopped = FALSE
    /\ now = 0
    /\ effects = {}
    /\ told = {}

-----------------------------------------------------------------------------
(* A legacy Submit passes the update gate and waits for its locks.         *)
Submit(c, id, d) ==
    /\ Step(c, "idle")
    /\ ~stopped
    /\ ~paused
    /\ tasks' = [tasks EXCEPT ![c] = [Idle EXCEPT !.pc = "entered", !.id = id,
                                                  !.digest = d]]
    /\ requests' = requests + 1
    /\ UNCHANGED <<journal, paused, operations, stopped, now, effects, told>>

(* rpc_admit: a new operation is saved before it is visible in memory, then *)
(* it enters the gate and the router starts its worker.                     *)
RpcCandidate(id, d) == [Retain(mem) EXCEPT ![id] = Admission(d, TRUE)]

RpcMayAdmit(c, id) ==
    /\ Step(c, "idle")
    /\ ~paused
    /\ session = "open"
    /\ ~Live(mem[id])
    /\ Cardinality(Stored(Retain(mem))) < Limit

RpcAdmit(c, id, d) ==
    /\ RpcMayAdmit(c, id)
    /\ disk' = RpcCandidate(id, d)
    /\ mem' = RpcCandidate(id, d)
    /\ operations' = operations \cup {id}
    /\ tasks' = [tasks EXCEPT ![c] = [Idle EXCEPT !.pc = "spawned", !.via = "rpc",
                                         !.id = id, !.digest = d, !.at = now]]
    /\ UNCHANGED <<session, paused, requests, stopped, now, effects, told>>

RpcAdmitFails(c, id, d) ==
    /\ RpcMayAdmit(c, id)
    /\ SaveFails(RpcCandidate(id, d))
    /\ UNCHANGED <<session, mem, tasks, gate, stopped, now, effects, told>>

(* Admission::Existing and rpc_get: an unlocked client reads a result.     *)
RpcRead(id) ==
    /\ session = "open"
    /\ Live(mem[id])
    /\ TypedResult(mem[id]) \in Known
    /\ told' = told \cup {[id |-> id, at |-> mem[id].at,
                           outcome |-> TypedResult(mem[id])]}
    /\ UNCHANGED <<journal, tasks, gate, stopped, now, effects>>

(* The worker's handle_mode(.., admitted) passes the gate a second time.   *)
EnterAdmitted(c) ==
    /\ Step(c, "spawned")
    /\ IF paused
       THEN End(c)
       ELSE /\ tasks' = [tasks EXCEPT ![c].pc = "entered"]
            /\ requests' = requests + 1
            /\ UNCHANGED operations
    /\ UNCHANGED <<journal, paused, stopped, now, effects, told>>

-----------------------------------------------------------------------------
(* The Submit arm under the session lock: one of the next seven actions.   *)
Locked(c) == Step(c, "entered") /\ MayOrder(c)

\* No unlocked view: the response is a definite "locked" error.
ReplyLocked(c) ==
    /\ Locked(c)
    /\ session # "open"
    /\ IF Rpc(c) THEN AwaitCompletion(c, "rejected") ELSE End(c)
    /\ UNCHANGED <<journal, paused, stopped, now, effects, told>>

\* The same contents under the same identifier: never executed again.
ReplyRecorded(c) ==
    /\ Locked(c)
    /\ session = "open"
    /\ Present(Record(c))
    /\ Record(c).digest = tasks[c].digest
    /\ ~Rpc(c) \/ Record(c).response # "none"
    /\ Return(c, Record(c).at, Record(c).response)
    /\ UNCHANGED <<journal, paused, stopped, now, effects>>

\* Other contents under the identifier, or a worker whose record is gone.
Refuse(c) ==
    /\ Locked(c)
    /\ session = "open"
    /\ IF Present(Record(c)) THEN Record(c).digest # tasks[c].digest ELSE Rpc(c)
    /\ End(c)
    /\ UNCHANGED <<journal, paused, stopped, now, effects, told>>

LegacyMayAdmit(c) ==
    /\ Locked(c)
    /\ session = "open"
    /\ ~Rpc(c)
    /\ ~Present(Record(c))

\* The journal is full: the pruning stays in memory, unsaved.
RefuseFull(c) ==
    /\ LegacyMayAdmit(c)
    /\ Cardinality(Stored(Retain(mem))) >= Limit
    /\ mem' = Retain(mem)
    /\ End(c)
    /\ UNCHANGED <<session, disk, paused, stopped, now, effects, told>>

LegacyCandidate(c) ==
    [Retain(mem) EXCEPT ![tasks[c].id] = Admission(tasks[c].digest, FALSE)]

FaultAdmitLegacy(c) ==
    /\ LegacyMayAdmit(c)
    /\ Cardinality(Stored(Retain(mem))) < Limit
    /\ mem' = LegacyCandidate(c)
    /\ tasks' = [tasks EXCEPT ![c].pc = "executing", ![c].at = now]
    /\ UNCHANGED <<session, disk, gate, stopped, now, effects, told>>

AdmitLegacy(c) ==
    /\ LegacyMayAdmit(c)
    /\ Cardinality(Stored(Retain(mem))) < Limit
    /\ mem' = LegacyCandidate(c)
    /\ disk' = LegacyCandidate(c)
    /\ tasks' = [tasks EXCEPT ![c].pc = "executing", ![c].at = now]
    /\ UNCHANGED <<session, gate, stopped, now, effects, told>>

\* One of the two saves or the alias expansion fails: the record stays.
AdmitLegacyFails(c) ==
    /\ LegacyMayAdmit(c)
    /\ Cardinality(Stored(Retain(mem))) < Limit
    /\ mem' = LegacyCandidate(c)
    /\ SaveFails(LegacyCandidate(c))
    /\ ReturnErr(c, now)
    /\ UNCHANGED <<session, paused, stopped, now, effects>>

WorkerMayStart(c) ==
    /\ Locked(c)
    /\ session = "open"
    /\ Rpc(c)
    /\ Present(Record(c))
    /\ Record(c).digest = tasks[c].digest
    /\ Record(c).response = "none"

StartWorker(c) ==
    /\ WorkerMayStart(c)
    /\ disk' = mem
    /\ tasks' = [tasks EXCEPT ![c].pc = "executing"]
    /\ UNCHANGED <<session, mem, gate, stopped, now, effects, told>>

StartWorkerFails(c) ==
    /\ WorkerMayStart(c)
    /\ SaveFails(mem)
    /\ ReturnErr(c, tasks[c].at)
    /\ UNCHANGED <<session, mem, paused, stopped, now, effects>>

-----------------------------------------------------------------------------
(* Outside the session lock: validation and the protocol call.             *)
Effect(c) == effects \cup {[id |-> tasks[c].id, at |-> tasks[c].at]}

Executed(c, outcome) ==
    /\ Step(c, "executing")
    /\ tasks' = [tasks EXCEPT ![c].pc = "executed", ![c].outcome = outcome]
    /\ UNCHANGED <<journal, gate, stopped, now, told>>

\* validate_submission fails: nothing was sent.
Reject(c) == Executed(c, "rejected") /\ UNCHANGED effects

Execute(c) == Executed(c, "applied") /\ effects' = Effect(c)

FaultExecuteFails(c) ==
    Executed(c, "rejected") /\ effects' \in {effects, Effect(c)}

\* submit fails: the call may or may not have taken effect.
ExecuteFails(c) == Executed(c, "unknown") /\ effects' \in {effects, Effect(c)}

SaveClient(c) ==
    /\ Step(c, "executed")
    /\ tasks' = [tasks EXCEPT ![c].pc = "recording"]
    /\ UNCHANGED <<journal, gate, stopped, now, effects, told>>

SaveClientFails(c) ==
    /\ Step(c, "executed")
    /\ ReturnErr(c, tasks[c].at)
    /\ UNCHANGED <<journal, paused, stopped, now, effects>>

-----------------------------------------------------------------------------
(* The session lock again: the response is saved, then readable, then told. *)
WithResponse(c) == [mem EXCEPT ![tasks[c].id].response = tasks[c].outcome]

RecordOutcome(c) ==
    /\ Step(c, "recording")
    /\ session # "none"
    /\ Present(Record(c))
    /\ disk' = WithResponse(c)
    /\ mem' = WithResponse(c)
    /\ Return(c, tasks[c].at, tasks[c].outcome)
    /\ UNCHANGED <<session, paused, stopped, now, effects>>

FaultRecordOutcomeFails(c) ==
    /\ Step(c, "recording")
    /\ session # "none"
    /\ Present(Record(c))
    /\ SaveFails(WithResponse(c))
    /\ mem' = WithResponse(c)
    /\ ReturnErr(c, tasks[c].at)
    /\ UNCHANGED <<session, paused, stopped, now, effects>>

RecordOutcomeFails(c) ==
    /\ Step(c, "recording")
    /\ \/ session = "none" /\ UNCHANGED disk
       \/ session # "none" /\ Present(Record(c)) /\ SaveFails(WithResponse(c))
    /\ ReturnErr(c, tasks[c].at)
    /\ UNCHANGED <<session, mem, paused, stopped, now, effects>>

\* get_mut(..).unwrap() on a record that expired and was pruned meanwhile.
RecordOutcomePanics(c) ==
    /\ Step(c, "recording")
    /\ session # "none"
    /\ ~Present(Record(c))
    /\ End(c)
    /\ UNCHANGED <<journal, paused, stopped, now, effects, told>>

(* rpc_complete: the typed result has a save of its own.  Its guard leaves *)
(* the gate whatever happens.                                              *)
WithResult(c) == [mem EXCEPT ![tasks[c].id].result = tasks[c].outcome]

MayComplete(c) ==
    /\ session # "none"
    /\ Present(Record(c))
    /\ Record(c).bound
    /\ Record(c).result \in {"none", tasks[c].outcome}

Complete(c) ==
    /\ Step(c, "completing")
    /\ MayComplete(c)
    /\ disk' = WithResult(c)
    /\ mem' = WithResult(c)
    /\ End(c)
    /\ UNCHANGED <<session, paused, stopped, now, effects, told>>

FaultCompleteFails(c) ==
    /\ Step(c, "completing")
    /\ IF MayComplete(c) THEN SaveFails(WithResult(c)) ELSE UNCHANGED disk
    /\ tasks' = [tasks EXCEPT ![c] = Idle]
    /\ UNCHANGED <<session, mem, gate, stopped, now, effects, told>>

CompleteFails(c) ==
    /\ Step(c, "completing")
    /\ IF MayComplete(c) THEN SaveFails(WithResult(c)) ELSE UNCHANGED disk
    /\ End(c)
    /\ UNCHANGED <<session, mem, paused, stopped, now, effects, told>>

(* The future is dropped at an await: the 145 s limit, a disconnect, or a  *)
(* panic.  A protocol call under way may already have taken effect.        *)
Cancel(c) ==
    /\ Guarded(tasks[c]) \/ Step(c, "completing")
    /\ effects' \in {effects} \cup
           (IF Step(c, "executing") THEN {Effect(c)} ELSE {})
    /\ End(c)
    /\ UNCHANGED <<journal, paused, stopped, now, told>>

-----------------------------------------------------------------------------
(* The session.  Unlock loads the file, or only reopens a locked view.     *)
Unlock ==
    /\ ~stopped
    /\ ~paused
    /\ session # "open"
    /\ session' = "open"
    /\ mem' = IF session = "none" THEN disk ELSE mem
    /\ UNCHANGED <<disk, tasks, gate, stopped, now, effects, told>>

Lock ==
    /\ ~stopped
    /\ ~paused
    /\ session = "open"
    /\ disk' = mem
    /\ session' = "locked"
    /\ UNCHANGED <<mem, tasks, gate, stopped, now, effects, told>>

\* flush, MarkRead and the background workers save the same state.
Persist ==
    /\ session # "none"
    /\ disk' = mem
    /\ UNCHANGED <<session, mem, tasks, gate, stopped, now, effects, told>>

\* disconnect: stop first, drop the session last, saved or not.
Disconnect ==
    /\ ~stopped
    /\ stopped' = TRUE
    /\ UNCHANGED <<journal, tasks, gate, now, effects, told>>

CloseSession ==
    /\ stopped
    /\ session # "none"
    /\ SaveFails(mem)
    /\ session' = "none"
    /\ mem' = EmptyJournal
    /\ UNCHANGED <<tasks, gate, stopped, now, effects, told>>

\* The process ends at any point; a new one finds the file.
Crash ==
    /\ session' = "none"
    /\ mem' = EmptyJournal
    /\ tasks' = [c \in Callers |-> Idle]
    /\ paused' = FALSE
    /\ requests' = 0
    /\ operations' = {}
    /\ stopped' = FALSE
    /\ UNCHANGED <<disk, now, effects, told>>

-----------------------------------------------------------------------------
(* UpdateGate::pause and resume, as pause_for_update and its callers use    *)
(* them.                                                                    *)
Pause ==
    /\ requests = 0
    /\ operations = {}
    /\ paused' = TRUE
    /\ UNCHANGED <<journal, tasks, requests, operations, stopped, now, effects, told>>

Resume ==
    /\ paused
    /\ paused' = FALSE
    /\ UNCHANGED <<journal, tasks, requests, operations, stopped, now, effects, told>>

Tick ==
    /\ now < MaxTime
    /\ \/ OutliveRetention
       \/ \A c \in Callers : Admitted(tasks[c]) => now + 1 < tasks[c].at + Retention
    /\ now' = now + 1
    /\ UNCHANGED <<journal, tasks, gate, stopped, effects, told>>

-----------------------------------------------------------------------------
\* Whatever a task does of its own accord.
Advance(c) ==
    \/ EnterAdmitted(c)
    \/ ReplyLocked(c) \/ ReplyRecorded(c) \/ Refuse(c) \/ RefuseFull(c)
    \/ AdmitLegacy(c) \/ AdmitLegacyFails(c)
    \/ StartWorker(c) \/ StartWorkerFails(c)
    \/ Reject(c) \/ Execute(c) \/ ExecuteFails(c)
    \/ SaveClient(c) \/ SaveClientFails(c)
    \/ RecordOutcome(c) \/ RecordOutcomeFails(c) \/ RecordOutcomePanics(c)
    \/ Complete(c) \/ CompleteFails(c)

Arrive(c) ==
    \E id \in Ids, d \in Contents :
        Submit(c, id, d) \/ RpcAdmit(c, id, d) \/ RpcAdmitFails(c, id, d)

Next ==
    \/ \E c \in Callers : Arrive(c) \/ Advance(c) \/ Cancel(c)
    \/ \E id \in Ids : RpcRead(id)
    \/ Unlock \/ Lock \/ Persist \/ Disconnect \/ CloseSession \/ Crash
    \/ Pause \/ Resume \/ Tick

Spec == Init /\ [][Next]_vars

\* Tokio runs every ready task and hands its locks out in order.
FairSpec == Spec /\ \A c \in Callers : SF_vars(Advance(c))

-----------------------------------------------------------------------------
(* Correctness.                                                            *)

\* The shape of every variable: UiState.operations, the gate and the tasks.
TypeOK ==
    /\ session \in {"none", "open", "locked"}
    /\ mem \in [Ids -> Records]
    /\ disk \in [Ids -> Records]
    /\ tasks \in [Callers -> Tasks]
    /\ paused \in BOOLEAN
    /\ requests \in Nat
    /\ operations \subseteq Ids
    /\ stopped \in BOOLEAN
    /\ now \in Times
    /\ effects \subseteq [id : Ids, at : Times]
    /\ told \subseteq [id : Ids, at : Times, outcome : Known \cup {"refused"}]

Apart(s, t) == s + Retention <= t \/ t + Retention <= s

\* A task about to make its protocol call is the only one for its identifier
\* within the retention time: retries, concurrent duplicates on either dialect,
\* failed saves and crashes never make handle_mode send an operation twice.
AtMostOnce ==
    \A c \in Callers : Step(c, "executing") =>
        \A e \in effects : e.id = tasks[c].id => Apart(e.at, tasks[c].at)

\* A call that was made is still in the archive file until its record expires
\* ("Persist admission before any protocol mutation", Submit arm), so that no
\* restart can forget it, whichever saves failed before or since.
EffectIsJournalled ==
    \A e \in effects :
        Expired(e.at) \/ (Present(disk[e.id]) /\ disk[e.id].at = e.at)

\* An outcome a client has read survives in the archive file until it expires
\* ("Readers must never observe a terminal outcome whose save failed"): the same
\* question has the same answer after any crash, lock or failed save.
ToldIsDurable ==
    \A o \in told : o.outcome \in Known =>
        \/ Expired(o.at)
        \/ /\ Present(disk[o.id])
           /\ disk[o.id].at = o.at
           /\ o.outcome \in {disk[o.id].response, disk[o.id].result}

\* A recorded outcome is the truth: "applied" only after the protocol call of
\* that admission, "rejected" only if there was none and there will be none.
ToldIsTrue ==
    \A o \in told : o.outcome \in Known =>
        (o.outcome = "applied" <=> [id |-> o.id, at |-> o.at] \in effects)

\* The purpose of UpdateGate: while the instance is paused for an update no
\* request and no admitted operation has any step left to take, in particular
\* no protocol call and no completion save that the restart would cut off.
PausedIsQuiescent == paused => \A c \in Callers : Step(c, "idle")

\* An admission always leaves the gate, whatever its worker meets on the way:
\* an update waits for an operation but never for ever.
AdmissionReleased ==
    \A id \in Ids : (id \in operations) ~> (id \notin operations)

\* dispatch says "rejected" of an operation only when it was not carried out
\* (service_ui.rs shows it as "Command was not accepted").
RefusedIsNotExecuted ==
    \A o \in told : o.outcome = "refused" =>
        [id |-> o.id, at |-> o.at] \notin effects

=============================================================================
