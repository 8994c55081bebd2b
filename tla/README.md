# gchat: models, checks and proofs

gchat is an encrypted chat client. One Rust service (`crates/core/src/chat_service`) keeps the
local archive and serves several windows (desktop, terminal, mobile) over local sockets; the
protocol work (MLS groups, relays, delivery) is done by the external gcoms SDK. A web view
(`ui/src`, TypeScript and Svelte) is the client most people see. This directory holds TLA+ models of
the service's and the view's own logic, their TLC configurations, and TLAPS proofs.

Paths below are relative to `crates/core/src/chat_service/` unless they start with a directory.

## 1. Inventory

### How the parts interact

    web view: Workspace.svelte -- network-workspace.ts -- rpc-transport.ts (handles in browser storage)
                              |  requests, snapshots, long-polls; answers may be lost or late
    windows --requests--> InstanceHost (host.rs, host_updates.rs)
                              |  running lock: at most one ChatService
                              v
       serve_legacy / typed rpc --> ChatService::handle (mod.rs)   <-- update gate (update_gate.rs)
                                        |  session mutex, operations rwlock
          journal of operations  <------+------> presentation cache --> waiting windows
          hosted worker, contact worker, file worker, startup worker
                                        |
               ServiceStateStore (persistence.rs): hosted, contacts, preferences, main file
                                        |
                              gcoms SDK (external): calls, durable deliveries, events

Everything runs as tokio tasks in one process. The session mutex is held from a copy of the
state ("candidate") to the end of the save that makes it durable, with few awaits inside; between
two awaits without it anything may happen. Requests are dropped at whatever they await when the
145 s deadline of the local server passes or the window goes away; workers are dropped when the
session is disconnected; a crash loses all but the files. The web view is single-threaded and runs
from one await to the next; any number of its requests are under way at once, their answers come in
any order or never, and a reload loses everything but the handles in the browser's storage.

### Components

| Component | State | Operations | Hard behaviours | What makes it correct |
|---|---|---|---|---|
| Operation journal (`mod.rs` Submit, `rpc.rs`) | records by operation identifier, in memory and on disk | admit, execute, record, report, expire, on the legacy and the typed dialect | duplicates in flight, failing saves, cancellation, lock/disconnect/crash between any two steps, clock jumps, a full journal | at most one execution within the retention; what was done and told is on disk and true |
| Update gate (`update_gate.rs`) | paused, live requests, admitted operations | enter, admitted, completed, pause, resume | pause racing admission | paused means no work; every admission is released |
| Host updates (`host_updates.rs`, `host.rs`) | leases of windows, the prepared release, the running service | Heartbeat, Detach, Prepare, Abort, Exit, sweep of lapsed leases; unlock, disconnect | windows that vanish or return, failing or dropped preparations, an unlock in flight, a delayed exit | one owner alone; quiescent while prepared; never left paused |
| Presentation (`presentation.rs`) | cached snapshot with the versions it was built from; watch channels | invalidate, snapshot, wait | staleness, lost wake-ups, data shown after a lock | answers are fresh, locks hide, changes are reported |
| Hosted archive (`hosted.rs`, `hosted_catchup.rs`) | per-room archive with cursor, operation links, progress | worker passes, request-driven syncs, archive, acknowledge, send | two archivers at once, replays, races with the own message's result, crash between save and acknowledgement | nothing acknowledged is missing, nothing twice, no gap; it settles |
| Private contacts (`contacts.rs`) | book of contacts, messages, seen ids and outbox | queue, receive, receipt, submit, block, add | loss, duplication, reordering, failing saves and commits, a full outbox, blocks racing sends | archived once, delivered is true, accepted is pending, blocked is silent, accepted settles |
| Web view, operations (`ui/src/rpc-transport.ts`, `operation-results.ts`) | live exchanges, retained handles, records of results | ask, join a live exchange, check, restore from a snapshot, dismiss | lost answers and late calls, refusals, reload and lock with exchanges under way, the same outcome delivered by several | what was carried out stays askable, acts once (an invitation at most twice), is shown in the end; the view never says what is not so |
| Web view, conversations (`ui/src/Workspace.svelte`, `view-state.ts`, `network-workspace.ts`) | snapshot, selection, messages with a cursor, kept views, draft, generations of requests | refresh, watch, select, load history, send, edit a failed message, lock, unlock | superseded snapshots and pages, selection changed during an await, lock with answers under way | a locked view is blank; what is shown is one unbroken run of one conversation and is not taken back |
| Web view, files (`ui/src/file-controller.ts`) | snapshot of the files, transfers, the task of each file, the list under way, one upload | poll, refresh, act with retries, upload, configure, save, stop | a shared list that is outdated, actions that replace one another while a retry waits, lost and reordered answers, stop during an upload | only the newest action is sent, nothing after stop; no list takes back what is shown; the view catches up |
| Service store (`persistence.rs`, `../store.rs`) | four encrypted files replaced whole | open, save | crash between files, error after the rename | as used by the components above |
| Session lifecycle (`mod.rs`) | session, ui lock, stop flag, workers | unlock, lock, disconnect | restoration racing lock, partial failure of the disconnect steps | no child outlives the barrier; the session ends saved |
| Networks (`networks.rs`) | child services by network | join, open, restore, lock, flush, stop | nested locks, a pause while one opens | bounded, isolated, stopped with the parent |
| Channel client (`../client.rs`, `../model.rs`) | channel archive, catalogs, presence | event loop, reconcile, persistence with retry | storage full, replays | archive follows the SDK |
| Files (`files.rs`) | observation of two external engines | admission, observation, worker | one budget over both, observation saved once | each file announced once |
| Membership recovery, invitations, preferences, fleet, extensions | records or none | one command, one save | timeouts of external programs; one socket owner | as tested |
| Host startup and registration, daemon, runtime adapter, wire types, views, shells, release scripts | see PROJECT.json | | | |

PROJECT.json lists every component with its sources, its status and the reason for what is left
out, and the hazards with the line where each bites and the property that would notice it.

## 2. Plan

Order of work, most important behaviour first; the first eight are done.

1. `OperationJournal` (with the update gate).
2. `Presentation`.
3. `HostUpdates`.
4. `HostedArchive`.
5. `ContactDelivery`.
6. `ClientOperations`, and `OperationPromise`, the abstract specification it implements.
7. `WorkspaceView`.
8. `FileTransfers`.
9. `Lifecycle`: unlock, startup worker, lock, disconnect with networks, files and workers as steps
   that fail one by one; composes the gate with `Networks`.
10. `ServiceStore`: the four files of a save, their crash interleavings, and reopening.
11. Presence packets and their leases in `ContactDelivery`; the file observation; the channel client's
    event loop and persistence; host start races; the release coordinator.

Every safety property of the passing runs is now a theorem as well. Planned next: `OperationJournal` as
an implementation of an abstract at-most-once service, and the invariants of `Lifecycle` once it is
written.

## 3. Modules and the code

Each module states in its header what a step is. Names follow the code. Operators named `Fault...`
(in `ContactDelivery` also `Forgetful...`) are wrong versions of the definition below them, used only
to see that the properties notice the mistake.

**OperationJournal.** `mem` and `disk` are `UiState.operations` and the file; `tasks` are request
handlers and RPC workers between two awaits; `paused`, `requests`, `operations` are `UpdateGate`'s
fields. A caller's identifier is looked up, refused on other contents, admitted by a save, executed,
recorded by a second save and told. A save succeeds, fails before the rename, or fails after it
(`atomic_write`). A caller may be cancelled where it awaits; lock, disconnect and crash come at any
step. History variables record protocol calls (`effects`) and what clients were told (`told`).

**ClientOperations.** `retained` is the browser's storage, `wire` the map `active` of
rpc-transport.ts: per operation no exchange, a call or a status request on its way, one that waits for
the worker, or the answer; `waiters` are the callers that await it. `result`, `checked` and `delivered`
are `OperationResults`. The service keeps a record per operation, as rpc.rs shows it to a client. An
exchange may end without an answer at any time; its call may then arrive later (`stray`). Submissions
have a fresh identifier each; the Join dialog and invitations keep theirs for a retry, and the dialog
records no errors, which the code does differently in `operation`, `join` and `performJoin`. `Hears` says
who looks at the answer of an exchange. Of these, operation(), the Join dialog and checkSaved act only if
`OperationResults.complete` says that they are the first (`Careful`); performJoin ignores what it says and
calls apply() without a key, so that it acts whenever the person is still where they asked from (`Again`).
A service that another one replaced while the view did not look is seen as locked in between. What the
external RPC client does with a handle after a definite rejection is left open (`KeepHandle`).

**OperationPromise.** What the person may rely on: each operation's fate (open, done, void) is decided
once; the view's word about it is silent or the truth at that moment, and "complete" stays until the
view closes and forgets everything. `ClientOperations` maps its state to it with `FateOf` and `WordOf`:
done is carried out, void is recorded as rejected or, for a submission, refused by the service; unknown
and pending are silence. A join that was refused may be asked for again under its identifier, so that
"rejected" is no word about a join.

**WorkspaceView.** The code compares generation counters after each await; the model keeps with each
request whether it is still the newest. `refreshing` is where watch() and a background refresh are,
`loading` the history request of each task, `editing` the tasks between the two halves of editFailed.
`boot` is the bootId a snapshot carries: every service has its own, and so has the host, which answers while
no service is `running`. A snapshot with another bootId than the last (`Another`) clears the view even if it
is unlocked; a snapshot of another profile does the same and is not told apart, except that its
conversations would be others. `Switch` is the synchronous part of select, `AfterLoad` what the task goes on with when its page has
come or was dropped. Messages are numbered per conversation; a page is the code's page with `PageSize`
for 200. The several requests of one aggregated snapshot are one answer.

**FileTransfers.** `running` is the task of act() on a file that has its turn, `waiting` the newest action,
which waits for it; an older one that still waited would return at once, so that it is not kept.
`list` is `refreshTask`, and `awaits` says of everyone in refresh() whether it asked for the list itself,
joined it, or joined it and saw a mutation answered since, which is what the comparison of
`mutationRevision` finds. `job` is what makes the controller busy. The service's files are an external
engine; each reading of them carries the number of changes it saw (`at`), so that properties can compare
readings. `ListAnswered` is one turn: all who awaited the list go on, and those who ask again share one.

**Presentation.** Contents are two counters, the service's own changes and the channel client's, and
one presence that ends by itself. A viewer reads the versions, waits for the session lock, builds,
stores and answers; a waiting viewer compares and sleeps on the two watch channels or a deadline.

**HostUpdates.** Windows hold leases (`views`), which lapse after 45 s; every request sweeps first;
`Prepare` pauses the service's gate and then each network's, and each step may fail or be dropped at
the deadline; `Exit` arms the process exit, which fires 250 ms later. A gate is a flag and a count.
Network gates exist with their service.

**HostedArchive.** One room, a runtime that numbers events and keeps them until acknowledged, and
archivers: the hosted worker and any number of requests. Fetch, apply-and-save, acknowledge and the
tracked sync with its progress are steps. A message sent from here may be archived by the worker
before its result is remembered. `Candidate` is `apply`: the loop over the fetched events is written as
what it leaves of each message, delivery and activity, since an event is taken when none with its
identifier is archived and the events come in order.

**ContactDelivery.** Nodes are services that exchanged cards. `mem` and `disk` are the `Book`, with
message status, seen ids, how often a message was archived, and the outbox; `worker` is where
`sync_contacts` is: at a delivery, before its commit, between the two looks at an entry, between
submission and record. `inbox` is the SDK: what is on its way or not committed; a commit may leave the
packet there (a failed call, another copy), a submission may lose it.

`MC...` modules only give names to constants and symmetry sets.

## 4. Runs

| Run | Instance | What it asks |
|---|---|---|
| `journal_safety` | one identifier, two contents, two callers, two clock ticks of retention | the safety properties of the journal and the gate, and that an admission leaves the gate |
| `journal_clock_jump` | two identifiers, one an exclusive command, a journal for one record, the clock may pass a record's expiry while it runs | at-most-once, also then and in a full journal |
| `journal_refused` (violation) | one identifier, one caller | "rejected" means not carried out |
| `presentation` | one window, the client's own changes, presence ending, locks and reopening | freshness, hiding, every lasting change is reported |
| `updates_safety` | two windows, one release, a service and a network, two unlocks, one deadline | owner, quiescence, ownership of a pause, release by the next heartbeat |
| `updates_stranded` (violation) | one unlock, one deadline | the comment on closed views |
| `hosted_safety` | worker and one request, two records, one an activity, one fault, one crash, pages of one record and fetches of up to four events | acknowledged, once, no gap, confirmed progress |
| `hosted_liveness` | one record, fetches of one event | settles, catch-up ends |
| `contacts` | one message, outboxes of one entry, one failure, one restart | its safety properties, and that an accepted message settles |
| `client_operations` | one operation of any of the three kinds, two requests for a join, one reload, one lock | recoverable, acts once (an invitation twice at most), the promise (refinement), the outcome is shown |
| `workspace_view` | two conversations of a message each, pages of one, one task of the person, one arrival, three events, one other service | blank when locked, unbroken runs, nothing taken back unless cleared |
| `files` | two files, one retry, uploads of one piece, three events | starting is shown exactly, only the newest action is sent, lists do not go back, nothing after stop, the view catches up |

Each property of a passing run comes with a mutant of the code that TLC finds violating it
(PROJECT.json). Where `TypeOK` is proved and no run lists it (`Presentation`, `HostUpdates`,
`ContactDelivery`, `ClientOperations`, `WorkspaceView`), the proof stands for it.

### Bounds, and why they are enough

- One operation at a time in `client_operations`, of each kind: exchanges, records and handles of two
  operations have no step in common but the snapshot, which treats each by itself; the theorems are about any set.
- `workspace_view`: three events (arrivals, locks, selections, older pages; a text or a disconnect counts two) allow each
  pair of a changed selection, a lock and an arrival to fall into any snapshot or page under way; the same
  properties hold with two tasks of the person and two old messages. Pages of one message make every
  conversation longer than its page, so that gaps would show. The theorems have no bound.
- Events of the run `files` are clicks, uploads, other clients' changes, a lock and every failure. Three allow
  an action, its failure and a second action or the lock. One retry where the code has two: the second repeats
  the first. Two files share the list and outdate each other's.
- One window in `presentation`: the second only shares the cache, and the theorems hold for any number.
- Two callers or archivers, two windows in `updates_safety`: every race in the code is between two holders of the session lock
  or between one and the environment; a third repeats the role of one of them.
- One identifier with two contents shows every path of a duplicate; the second identifier matters only
  for the limit and for exclusive commands, and has a run of its own with the limit at one.
- Retention of two ticks and time up to two: a record can be fresh, at its boundary, and expired.
- One fault, one crash: the faults are interesting where they fall, which TLC varies; two faults give
  only sequences of recoveries from states a fault-free run also reaches, and the hosted instances hold
  with two as well. The proofs have no bound.
- Outboxes of one entry reach the limit with the first message, so that a full outbox and a deferred
  delivery happen in a short run; with two messages one way and no fairness the same safety properties hold.
- Fetches of up to four events are all there are in `hosted_safety`, so that `CatchUpIsConfirmed` speaks
  of complete fetches; `hosted_liveness` has fetches of one, so that several passes are needed.

`CHECK_DEADLOCK FALSE` is set where the bounds end all activity (the last restart, unlock or fault is
spent and every window is idle, stopped or gone); the journal runs keep deadlock checking.

### Fairness, and why the code justifies it

- `OperationJournal`: strong fairness of each caller's steps. tokio runs ready tasks, the session mutex
  and the operations lock are FIFO, and the protocol call is bounded by the SDK; strong, since other
  holders of a lock disable a waiter again and again.
- `Presentation`: the same for viewers; whoever changed something announces it (weak).
- `HostUpdates`: `Arm` runs the request that got the `updates` lock; open windows send heartbeats every
  15 s (`apps/client/src-tauri/src/updates.rs:536`); a closed window's lease lapses after 45 s.
- `HostedArchive`: the worker ticks every second and finishes its calls, which fail or return.
- `ContactDelivery`: the worker wakes twice a second and finishes its pass; it visits every delivery in
  turn, an entry is due again after 30 s, and a packet submitted for ever gets through (a fair-lossy
  network). Fairness for each entry assumes that its turn comes, which the code gives only while fewer
  receipts keep failing than thirty seconds of passes can visit.
- `ClientOperations`: watch() asks for a snapshot again and again (weak), and a network that is not broken
  for good lets one through in the end (strong, for its answer and for what the view does with it). No
  exchange, request or service step is fair: the outcome is shown although every other answer is lost.
  One case is outside: a snapshot refused because of a lock sets an error that watch() does not retry
  (`halted` in `WorkspaceView`) until something else refreshes.
- `WorkspaceView` has no fairness; its properties are safety.
- `FileTransfers`: requests end within 150 s (`ui/src/transport.ts:55`), timers fire, the poll comes back
  every two seconds. The service need not be fair to anyone else; failures are not fair and bounded, so
  the properties speak of what happens when they end, of a document that is visible.
- Faults, cancellations, crashes, locks and restarts are never fair, and bounded by constants.

## 5. Findings

Each is shown by a run that expects the violation; PROJECT.json quotes the line it disagrees with.

1. `journal_refused`: the legacy dialect answers `rejected` to an operation whose protocol call was made
   when the save after it fails.
2. `updates_stranded`: a preparation dropped at the deadline after it paused the gate leaves no owner;
   no heartbeat, Detach or Abort resumes the service.

Seen while modelling, without a run: an invitation can act on the view twice. If its answer was lost and
the check of the saved handle delivered the outcome, the form still holds the operation's identifier and
may be submitted again (`ui/src/NetworkSetup.svelte:75`); if a check joined the form's own exchange, both get
the answer. performJoin does not look at what complete() returned (`ui/src/Workspace.svelte:333`) and applies
the response once more, without a key (`:351`, `:676`), which selects the conversation again. `ActsOnce`
states the bound that does hold. editFailed waits for its conversation's history and then fills the
composer of whatever conversation is selected by then (`ui/src/Workspace.svelte:785`). Before an accept or
resume is sent again, the controller awaits a list that may have been read before the command was carried
out; the comment calls it a fresh status read (`ui/src/file-controller.ts:100`), and the command then goes
out again for a download that runs. The exit, once armed, does not look again, and a service unlocked
within its 250 ms is cut off (`host_updates.rs:153`). Two contacts whose outboxes are full of messages to
each other wait for ever, since neither has room for the receipt that would free the other
(`contacts.rs:376`). A tail that a refresh was loading is lost when an older page is asked for meanwhile
(`ui/src/Workspace.svelte:633`). A network whose snapshot failed because of a lock is reported as a
provider error instead of ending the aggregation, since the exception is caught by the loop that throws
it (`ui/src/network-workspace.ts:98`). A join that was carried out and is asked for again while the
service is busy is shown as rejected until the next snapshot or check (`ui/src/operation-results.ts:45`).
A command that was carried out is shown with an
error when only the list after it fails (`ui/src/file-controller.ts:107`).
A record restored as pending stays pending while the journal says unknown (`operation-results.ts:60`).

## 6. Proofs

All for any values of the constants, from the named assumptions on them only.

**OperationJournalProofs.** `TypeCorrect`; then `OnceCorrect` (`AtMostOnce`) and `EffectsJournalled`
from `OnceInv`: the record of every admission at work and of every call made is in the file, and in
memory while there is a session, until it expires (`TasksKept`, `EffectsKept`); admissions of one
identifier are a retention time apart, and so is one whose call is to come from every call made
(`TasksApart`, `EffectsApart`). Neither property is inductive alone: the next save writes memory over the
file, so what the file keeps depends on what memory holds, also after a save that failed.
`QuiescentWhenPaused` comes from `GateInv`: the gate counts the handlers (finite-set facts) and names
every admitted worker. It assumes `~OutliveRetention`: the gate may lose the name of a worker whose
record expired while it ran. Under the same assumption `AnswersAreDurable` (`ToldIsDurable`) and
`AnswersAreTrue` (`ToldIsTrue`) come from `AnswerInv`: of an admission whose call or record is still to
come nobody has an answer, neither memory nor file nor a client (`Unanswered`); outcomes held by tasks,
records and answers are what happened (`OutcomesTrue`, `RecordsTrue`, `ToldTrue`); and what memory shows,
or a client was told, the file says too or has let expire (`MemorySure`, `ToldSure`). The last is where
the order of save and publication matters: a failed save leaves memory as it was, so that an answer read
from memory is never ahead of the file.

**HostUpdatesProofs.** `TypeCorrect` includes who holds the running lock. `OwnerIsAlone`,
`PreparedQuiescence` and `PausedIsOwned` follow from `Safe`: a shut gate holds no work, a preparation in
the making holds the running lock and concerns the only attached window, and an acknowledged service has
all its gates shut.

**HostedArchiveProofs.** `TypeCorrect`; then `AcknowledgedStaysInFile`, `AcknowledgedStaysOnDisk`
(`AcknowledgedIsOnDisk`), `NothingArchivedTwice` (`ArchivedOnce`) and `NoArchiverMeetsGap` (`NeverGap`)
from `Inv`: memory never falls behind what was acknowledged, the file has what memory has, an archiver's
first event lies at or before the archive's cursor, what it will acknowledge is already in the file
(`Behind`, `Waiting`); and each of the two archives holds exactly once what every event up to its cursor
left, with nothing but what the runtime reported or an own message's result (`Archives`). It uses that
identifiers of messages sent from here are not those of the records of others (`HostedAssumption`; they
are random). `CatchUpStaysConfirmed` (`CatchUpIsConfirmed`) has the hypothesis `[]Reached`: a fetch takes
all that is outstanding, as in the run. A fetch is 256 events in the code; a room with more outstanding
shows progress ahead of what it archived for a pass, which is not claimed away but excluded here.

**ContactDeliveryProofs.** All safety properties of the module. A book is sound by itself (its outbox holds
own packets for unblocked contacts, its accepted messages are exactly those in the outbox, counts within
the limit); the one thread between nodes is that a receipt, in an outbox, a worker or on its way, names a
message its author has seen in memory, that memory's seen set is within the file's, and that no step
shrinks either. A worker between its second look and the record holds the operations lock, which is why
a block cannot make its packet one it may not send.

**PresentationProofs.** `TypeCorrect`, `LockHides`, `AnswersFresh`, the last from an invariant that follows
the versions a builder read first through the build into the cache: what is in the cache covers every
request that finds its versions unchanged, because changes are announced after they are made.

**ClientOperationsProofs.** `TypeCorrect`; `Recoverable`, `ActedOnce` and `Refinement` from `Inv`: records
agree with what was carried out (`Recorded`), whatever was sent is known to the view (`Sent`), a
submission is called once, so that a refused call and an admission exclude each other (`Once`), an outcome
that acted is counted against who may still act (`Acts`: once for whoever
delivered it first, once for an invitation's form that has its answer, `Spent`, and is not sent again), and every
answer and snapshot under way is true (`Answers`, `Snaps`), hence what is shown (`Told`). The promise is
not inductive by itself: a late answer is true only because what it says cannot change any more, which
each step is shown to respect (`Lasts`). The refinement then needs no case analysis on actions.

**WorkspaceViewProofs.** `TypeCorrect`; `LockedBlank`, `Contiguous` and `TailOnward` from `Core`: the cursor
and the messages form a block in the view and in every kept view, a request that will be looked at is for
the selected conversation, an older page starts at the current cursor, and a tail that has come is at least
as new as any shown. That only the newest request is looked at is part of `TypeOK`, since it is what the
generation counters are for.

**FileTransfersProofs.** `TypeCorrect` from `TypeInv`, which adds to the shape that an action waits only
for a task, that a task about to be sent again has a try left, and that there is an answer only to a
request. Beside it `PendingIsUnderway` is inductive, file by file (`StartingIsUnderway`): a task that ends
either settles its transfer or hands it to the action that waited. `ListsNeverGoBack` (`ListIsNewer`)
needs that whatever is shown or under way was read in the past (`ReadBefore`), so that a list served now is
newer than all of it; an answer that comes later outdates the list. `OnlyTheNewestIsSent`
(`SupersededIsNotSent`) and `NothingAfterStop` (`StoppedSendsNothing`) are action properties: for each step
it is shown what becomes of each task, of the list and of the upload.

Model-checked only: liveness under fairness, which the prover does not treat: `AdmissionReleased`,
`ChangeIsReported`, `AnsweredPreparationReleases`, `Settles`, `CatchUpEnds`, `AcceptedIsSettled`,
`OutcomeIsShown` and `ViewCatchesUp`.

## 7. Not modelled

- Journal: records of `mark_read` and network operations; a worker dropped before its first poll; the
  queueing order of the operations lock; reconnecting in the same process after a disconnect.
- Presentation: expiry of operation records as a second deadline of the cache (the same mechanism).
- Host updates: the limit of 32 leases, the refusal for fleet-managed hosts, networks opened later.
- Hosted archive: names, files, wording of activities, the cap of 2000 activities, the session's transient
  error, the worker skipping its pass while the gate is paused, more than one room. The runtime's log
  survives crashes.
- Contacts: presence, file contents, aliases, verification, read markers, limits of contacts and messages,
  the clocks of entries. A message with another's identifier but other contents is refused by the code and
  has no counterpart, since identifiers are random.
- Web view, operations: read markers and presence switches, the limit of 256 records, the limit of 30
  operations in a snapshot (with more, an outcome need not be shown), expiry of records after seven days,
  and the short time between the admission of a typed operation and its action, when a snapshot does not
  list it. A network operation is never listed.
- Web view, conversations: conversations that appear, close or belong to a provider, searches, read
  markers, scroll positions, a window that is taken offline (the same states as a failed snapshot). The
  restored scroll position and the search for a message are repeated `LoadOlder`.
- Web view, files: a request that is served after the view was told that it failed, names and texts, the
  contents of an import, the file picker and its expiry (`pending-picker.ts`).
- The components listed as `not_modelled` in PROJECT.json.

The repository's TypeScript and Svelte are 67,277 lines, of which 62,868 are one generated file of message
validators (`ui/src/rpc-validators.js`), which has no state; the service is Rust. Coverage counted over
the former says little: the modelled share of the view's hand-written logic is what the map shows.
