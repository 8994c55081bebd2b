-------------------------- MODULE ClientOperations --------------------------
(***************************************************************************)
(* The operations of the web view: ui/src/rpc-transport.ts (retained       *)
(* handles, live exchanges, status checks), ui/src/operation-results.ts    *)
(* (what the view shows of each operation) and the parts of                *)
(* ui/src/Workspace.svelte that ask, check, restore and dismiss them, with *)
(* the service's journal as rpc.rs presents it to a client.                *)
(*                                                                         *)
(* An action is one synchronous stretch of the view's code, from one await *)
(* to the next, or one step of the service.  An exchange may fail at any   *)
(* time, a request whose answer was lost may still reach the service       *)
(* later, the view may be reloaded (only the retained handles survive, in  *)
(* the browser's storage) and locked by itself or by another client.       *)
(*                                                                         *)
(* An operator whose name starts with Fault is a wrong version of the      *)
(* definition below it; no specification uses one.                         *)
(***************************************************************************)
EXTENDS Naturals, FiniteSets

CONSTANTS
    Sends,        \* submissions of the composer: a fresh identifier each
    DialogJoins,  \* the Join dialog: the identifier is kept for a retry
    NetJoins,     \* invitations (network_operation): kept for a retry too
    MaxOperations, \* bound: operations asked for, of all kinds
    MaxAsks,      \* bound: times one join is asked for
    MaxReloads,   \* bound: reloads of the view
    MaxLocks      \* bound: locks of the service

Ops     == Sends \cup DialogJoins \cup NetJoins
Retried == DialogJoins \cup NetJoins

ASSUME OperationsAssumption ==
    /\ Sends \cap Retried = {} /\ DialogJoins \cap NetJoins = {}
    /\ MaxOperations \in Nat /\ MaxAsks \in Nat /\ MaxReloads \in Nat /\ MaxLocks \in Nat

VARIABLES
    \* the service
    open,         \* BOOLEAN: the session is unlocked
    record,       \* the journal's record of each operation
    effects,      \* the operations that were carried out
    stray,        \* calls whose exchange ended before they arrived
    \* the browser's storage
    retained,     \* handles, rpc-transport.ts retainedOperations
    \* the view, lost by a reload
    wire,         \* the live exchange of each operation (the map active)
    waiters,      \* who awaits it: the request, a status check
    locked,       \* snapshot.instance.locked
    result,       \* OperationResults.records, their state
    checked,      \* the records with a checked time
    delivered,    \* OperationResults.delivered
    retryable,    \* joins whose dialog still holds the identifier
    pending,      \* Workspace pending
    saved,        \* Workspace savedOperations
    autoChecked,  \* Workspace checkedSaved
    snapshot,     \* the snapshot request: not made, asked or answered
    \* bounds and history
    asks, reloads, locks,
    dismissed,    \* the handles the person dismissed
    answered,     \* a definite outcome reached the transport
    refused,      \* the service refused a call without a record
    acted         \* times the outcome acted on the view since it was cleared

service == <<open, record, effects, stray>>
history == <<dismissed, answered, refused>>
bounds  == <<asks, reloads, locks>>
results == <<result, checked, delivered, acted>>
view    == <<locked, results, retryable, pending, saved, autoChecked>>
vars    == <<service, retained, wire, waiters, view, snapshot, bounds, history>>

-----------------------------------------------------------------------------
Outcomes == {"applied", "rejected", "unknown"}

\* What a snapshot says of an operation, mod.rs: a network operation is not
\* listed (its record has no action).
Details == {"absent", "pending", "unknown", "rejected", "complete"}

Detail(op) ==
    IF op \in NetJoins \/ record[op] = "none" THEN "absent"
    ELSE IF record[op] = "open" THEN "pending"
    ELSE IF record[op] = "applied" THEN "complete"
    ELSE record[op]

\* The codes of OperationResults.error that mean: not carried out.
NotCarriedOut == {"rejected", "refused"}

\* "lost" a failed exchange, "shut" a locked session, "conflict" an identifier
\* in use, "missing" a handle that is not there, "refused" busy or expired.
Failures == {"rejected", "refused", "unknown", "lost", "shut", "conflict", "missing"}
Replies  == {"applied"} \cup Failures

Snapshots == [stage : {"none", "asked", "here"}, shut : BOOLEAN,
              details : [Ops -> Details]]

NoSnapshot == [stage |-> "none", shut |-> FALSE, details |-> [op \in Ops |-> "absent"]]

Cleared == [op \in Ops |-> "none"]
Uncounted == [op \in Ops |-> 0]

Shown(code) == IF code \in NotCarriedOut THEN "rejected" ELSE "unknown"

\* OperationResults.error: a late failure never replaces a confirmed result.
FaultWithError(res, op, code) ==
    [res EXCEPT ![op] = IF @ = "none" THEN @ ELSE Shown(code)]

WithError(res, op, code) ==
    [res EXCEPT ![op] = IF @ \in {"none", "complete"} THEN @ ELSE Shown(code)]

Begun(op) == [result EXCEPT ![op] = IF @ = "none" THEN "pending" ELSE @]

\* The records an error gives a time of checking.
CheckedBy(res, op) ==
    IF res[op] \in {"none", "complete"} THEN checked ELSE checked \cup {op}

-----------------------------------------------------------------------------
BlankView ==
    /\ result' = Cleared /\ checked' = {} /\ delivered' = {} /\ acted' = Uncounted
    /\ retryable' = {} /\ pending' = {} /\ autoChecked' = {}

Init ==
    /\ open \in BOOLEAN
    /\ record = Cleared
    /\ effects = {} /\ stray = {}
    /\ retained = {}
    /\ wire = [op \in Ops |-> "idle"]
    /\ waiters = [op \in Ops |-> {}]
    /\ locked = TRUE
    /\ result = Cleared
    /\ checked = {} /\ delivered = {} /\ acted = Uncounted
    /\ retryable = {} /\ pending = {} /\ saved = {} /\ autoChecked = {}
    /\ snapshot = NoSnapshot
    /\ asks = Uncounted /\ reloads = 0 /\ locks = 0
    /\ dismissed = {} /\ answered = {} /\ refused = {}

-----------------------------------------------------------------------------
(* The person asks: send and operation() for a submission, join() and      *)
(* performJoin() for an invitation.                                        *)
MayAsk(op) ==
    /\ ~locked
    /\ "request" \notin waiters[op]
    /\ asks[op] < (IF op \in Sends THEN 1 ELSE MaxAsks)
    /\ asks[op] = 0 \/ op \in retryable
    /\ asks[op] = 0 => Cardinality({o \in Ops : asks[o] > 0}) < MaxOperations

\* rpc.startAndWait stores the handle before anything is sent.
Retain(op) == retained' = retained \cup {op}

Asking(op) ==
    /\ MayAsk(op)
    /\ asks' = [asks EXCEPT ![op] = @ + 1]
    /\ retryable' = IF op \in Retried THEN retryable \cup {op} ELSE retryable

Ask(op) ==
    /\ Asking(op)
    /\ wire[op] # "status"
    /\ result' = Begun(op)
    /\ pending' = IF op \in DialogJoins THEN pending ELSE pending \cup {op}
    /\ wire' = [wire EXCEPT ![op] = IF @ = "idle" THEN "call" ELSE @]
    /\ waiters' = [waiters EXCEPT ![op] = @ \cup {"request"}]
    /\ Retain(op)
    /\ UNCHANGED <<service, locked, checked, delivered, acted, saved, autoChecked,
                   snapshot, reloads, locks, history>>

\* live(): the identifier is busy with a status check, which has no
\* fingerprint.  Only performJoin records the error.
AskConflicts(op) ==
    /\ Asking(op)
    /\ wire[op] = "status"
    /\ IF op \in NetJoins
       THEN /\ result' = WithError(Begun(op), op, "conflict")
            /\ checked' = CheckedBy(Begun(op), op)
       ELSE result' = Begun(op) /\ UNCHANGED checked
    /\ UNCHANGED <<service, retained, wire, waiters, locked, delivered, acted, pending,
                   saved, autoChecked, snapshot, reloads, locks, history>>

(* Refresh status, on a record that is not complete or a saved operation:  *)
(* a live exchange is joined, otherwise a status exchange starts.          *)
MayCheck(op) ==
    /\ ~locked
    /\ "check" \notin waiters[op]
    /\ result[op] # "complete"
    /\ result[op] # "none" \/ op \in saved

Check(op) ==
    /\ MayCheck(op)
    /\ op \in retained
    /\ result' = Begun(op)
    /\ wire' = [wire EXCEPT ![op] = IF @ = "idle" THEN "status" ELSE @]
    /\ waiters' = [waiters EXCEPT ![op] = @ \cup {"check"}]
    /\ UNCHANGED <<service, retained, locked, checked, delivered, acted, retryable,
                   pending, saved, autoChecked, snapshot, bounds, history>>

CheckFindsNothing(op) ==
    /\ MayCheck(op)
    /\ op \notin retained
    /\ result' = WithError(Begun(op), op, "missing")
    /\ checked' = CheckedBy(Begun(op), op)
    /\ UNCHANGED <<service, retained, wire, waiters, locked, delivered, acted, retryable,
                   pending, saved, autoChecked, snapshot, bounds, history>>

\* forgetSaved: the person dismisses a saved operation.
Dismiss(op) ==
    /\ ~locked
    /\ op \in saved
    /\ retained' = retained \ {op}
    /\ saved' = saved \ {op}
    /\ dismissed' = dismissed \cup {op}
    /\ UNCHANGED <<service, wire, waiters, locked, results, retryable, pending,
                   autoChecked, snapshot, bounds, answered, refused>>

-----------------------------------------------------------------------------
(* An exchange ends.  Everyone who awaits it goes on in the same turn.     *)
EndExchange(op) ==
    /\ wire' = [wire EXCEPT ![op] = "idle"]
    /\ waiters' = [waiters EXCEPT ![op] = {}]
    /\ pending' = IF "request" \in waiters[op] THEN pending \ {op} ELSE pending

\* Who looks at the answer: operation() always, the others unless locked, the
\* Join dialog only if it still holds the request.
Hears(op) ==
    {who \in waiters[op] : \/ who = "request" /\ op \in Sends
                           \/ ~locked /\ (who = "check" \/ op \in NetJoins \cup retryable)}

\* Those who act only if complete() says that they are the first: all but
\* performJoin, which ignores it and calls apply() without a key.
Careful(op) == IF op \in NetJoins THEN Hears(op) \ {"request"} ELSE Hears(op)

Completes(op) == Hears(op) # {} /\ result[op] # "none"

\* performJoin acts if the person is still where they asked from.  If it goes
\* before a status check of the same exchange, the check is not the first.
Firsts(op) ==
    IF ~Completes(op) \/ op \in delivered \/ Careful(op) = {} THEN {0}
    ELSE IF Careful(op) = Hears(op) THEN {1} ELSE {0, 1}

Again(op) == IF Careful(op) = Hears(op) THEN {0} ELSE {0, 1}

FaultDeliver(op) ==
    /\ IF Completes(op)
       THEN /\ result' = [result EXCEPT ![op] = "complete"]
            /\ checked' = checked \cup {op}
            /\ delivered' = delivered
       ELSE UNCHANGED <<result, checked, delivered>>
    /\ acted' = [acted EXCEPT ![op] = IF Completes(op) THEN @ + Cardinality(Hears(op)) ELSE @]

\* OperationResults.complete, and apply() or invitationJoined() of each who hears.
Deliver(op) ==
    /\ IF Completes(op)
       THEN /\ result' = [result EXCEPT ![op] = "complete"]
            /\ checked' = checked \cup {op}
            /\ delivered' = delivered \cup {op}
       ELSE UNCHANGED <<result, checked, delivered>>
    /\ \E first \in Firsts(op), again \in Again(op) :
          acted' = [acted EXCEPT ![op] = @ + first + again]

Succeeds(op) ==
    /\ wire[op] = "applied"
    /\ EndExchange(op)
    /\ retained' = retained \ {op}
    /\ answered' = answered \cup {op}
    /\ Deliver(op)
    /\ saved' = IF "check" \in waiters[op] /\ ~locked THEN saved \ {op} ELSE saved
    /\ retryable' = IF "request" \in waiters[op] /\ ~locked
                    THEN retryable \ {op} ELSE retryable
    /\ UNCHANGED <<service, locked, autoChecked, snapshot, bounds, dismissed, refused>>

\* The Join dialog shows an error of its own and records nothing.
Records(op) ==
    /\ ~locked
    /\ "check" \in waiters[op] \/ op \notin DialogJoins

Fails(op, code) ==
    /\ EndExchange(op)
    /\ IF Records(op)
       THEN result' = WithError(result, op, code) /\ checked' = CheckedBy(result, op)
       ELSE UNCHANGED <<result, checked>>
    /\ retryable' = IF code = "rejected" /\ op \in DialogJoins
                       /\ "request" \in waiters[op] /\ ~locked
                    THEN retryable \ {op} ELSE retryable
    /\ UNCHANGED <<locked, delivered, acted, saved, autoChecked, snapshot, bounds,
                   dismissed, refused>>

FaultKeepHandle(op) == retained' = retained \ {op}

\* rpc-transport.ts forgets a handle after a success only.  Whether the RPC
\* client itself forgets one that has a definite error is not known here.
KeepHandle(op) ==
    retained' \in IF wire[op] = "rejected" THEN {retained, retained \ {op}} ELSE {retained}

FailureArrives(op) ==
    /\ wire[op] \in Failures
    /\ Fails(op, wire[op])
    /\ KeepHandle(op)
    /\ answered' = IF wire[op] = "rejected" THEN answered \cup {op} ELSE answered
    /\ UNCHANGED service

\* The connection breaks: the request may still arrive, its answer is lost.
ExchangeBreaks(op) ==
    /\ wire[op] # "idle"
    /\ Fails(op, "lost")
    /\ stray' = IF wire[op] = "call" THEN stray \cup {op} ELSE stray
    /\ UNCHANGED <<open, record, effects, retained, answered>>

-----------------------------------------------------------------------------
(* The snapshot the view refreshes from.                                   *)
AskSnapshot ==
    /\ snapshot.stage = "none"
    /\ snapshot' = [NoSnapshot EXCEPT !.stage = "asked"]
    /\ UNCHANGED <<service, retained, wire, waiters, view, bounds, history>>

AnswerSnapshot ==
    /\ snapshot.stage = "asked"
    /\ snapshot' = [stage |-> "here", shut |-> ~open,
                    details |-> [op \in Ops |-> IF open THEN Detail(op) ELSE "absent"]]
    /\ UNCHANGED <<service, retained, wire, waiters, view, bounds, history>>

Arrived == snapshot.stage = "here"

FaultRestored(op, detail) ==
    IF detail = "absent" \/ op \in checked \/ result[op] = "pending"
    THEN result[op] ELSE detail

\* OperationResults.restore for one operation.
Restored(op, detail) ==
    IF \/ detail = "absent"
       \/ result[op] = "complete"
       \/ /\ detail \notin {"complete", "rejected"}
          /\ op \in checked \/ result[op] = "pending"
    THEN result[op]
    ELSE detail

\* A new snapshot of a locked session closes the private view.
SnapshotShut ==
    /\ Arrived /\ snapshot.shut
    /\ snapshot' = NoSnapshot
    /\ locked' = TRUE
    /\ saved' = {}
    /\ IF locked THEN UNCHANGED <<results, retryable, pending, autoChecked>> ELSE BlankView
    /\ UNCHANGED <<service, retained, wire, waiters, bounds, history>>

\* refresh(): the records are restored, then each handle that is retained and
\* not live is checked once by itself.
SnapshotOpens ==
    LET left   == {op \in retained : wire[op] = "idle" /\ op \notin pending}
        check  == {op \in left : op \notin autoChecked}
        after  == [op \in Ops |-> Restored(op, snapshot.details[op])]
    IN /\ Arrived /\ ~snapshot.shut
       /\ snapshot' = NoSnapshot
       /\ locked' = FALSE
       /\ saved' = left
       /\ autoChecked' = autoChecked \cup check
       /\ wire' = [op \in Ops |-> IF op \in check THEN "status" ELSE wire[op]]
       /\ waiters' = [op \in Ops |-> IF op \in check THEN {"check"} ELSE waiters[op]]
       /\ result' = [op \in Ops |-> IF op \in check /\ after[op] = "none"
                                    THEN "pending" ELSE after[op]]
       /\ checked' = {op \in checked : after[op] = result[op]}
       /\ UNCHANGED <<service, retained, delivered, acted, retryable, pending,
                      bounds, history>>

SnapshotLost ==
    /\ snapshot.stage # "none"
    /\ snapshot' = NoSnapshot
    /\ UNCHANGED <<service, retained, wire, waiters, view, bounds, history>>

\* The answer to the view's own lock or unlock supersedes a snapshot under way.
LockReply ==
    /\ ~open /\ ~locked
    /\ locked' = TRUE
    /\ BlankView
    /\ snapshot' = NoSnapshot
    /\ UNCHANGED <<service, retained, wire, waiters, saved, bounds, history>>

UnlockReply ==
    /\ open /\ locked
    /\ locked' = FALSE
    /\ snapshot' = NoSnapshot
    /\ UNCHANGED <<service, retained, wire, waiters, results, retryable, pending, saved,
                   autoChecked, bounds, history>>

\* The page is loaded again: memory is lost, calls under way may arrive.
Reload ==
    /\ reloads < MaxReloads
    /\ reloads' = reloads + 1
    /\ stray' = stray \cup {op \in Ops : wire[op] = "call"}
    /\ wire' = [op \in Ops |-> "idle"]
    /\ waiters' = [op \in Ops |-> {}]
    /\ locked' = TRUE
    /\ BlankView
    /\ saved' = {}
    /\ snapshot' = NoSnapshot
    /\ UNCHANGED <<open, record, effects, retained, asks, locks, history>>

-----------------------------------------------------------------------------
(* The service, rpc.rs: rpc_admit, the worker, rpc_get.                    *)
Admit(op) == open /\ record[op] = "none" /\ record' = [record EXCEPT ![op] = "open"]

CallArrives(op) ==
    /\ wire[op] = "call"
    /\ \/ Admit(op) /\ wire' = [wire EXCEPT ![op] = "waiting"]
       \/ open /\ record[op] # "none" /\ wire' = [wire EXCEPT ![op] = "waiting"]
          /\ UNCHANGED record
       \/ ~open /\ wire' = [wire EXCEPT ![op] = "shut"] /\ UNCHANGED record
    /\ UNCHANGED <<open, effects, stray, retained, waiters, view, snapshot, bounds, history>>

\* The update gate is paused (even for a call that was admitted before), the
\* journal is full or the deadline has passed.
CallRefused(op) ==
    /\ wire[op] = "call"
    /\ wire' = [wire EXCEPT ![op] = "refused"]
    /\ refused' = refused \cup {op}
    /\ UNCHANGED <<service, retained, waiters, view, snapshot, bounds, dismissed, answered>>

StrayArrives(op) ==
    /\ op \in stray
    /\ stray' = stray \ {op}
    /\ Admit(op) \/ UNCHANGED record
    /\ UNCHANGED <<open, effects, retained, wire, waiters, view, snapshot, bounds, history>>

\* The worker ends; one that is cut off leaves an admission without a result.
Finish(op) ==
    /\ record[op] = "open"
    /\ \/ record' = [record EXCEPT ![op] = "applied"] /\ effects' = effects \cup {op}
       \/ record' = [record EXCEPT ![op] = "rejected"] /\ UNCHANGED effects
       \/ record' = [record EXCEPT ![op] = "unknown"]
          /\ effects' \in {effects, effects \cup {op}}
    /\ UNCHANGED <<open, stray, retained, wire, waiters, view, snapshot, bounds, history>>

\* The client asks for the outcome of an admitted operation until it has one.
Respond(op) ==
    /\ wire[op] = "waiting"
    /\ ~open \/ record[op] \in Outcomes
    /\ wire' = [wire EXCEPT ![op] = IF open THEN record[op] ELSE "shut"]
    /\ UNCHANGED <<service, retained, waiters, view, snapshot, bounds, history>>

StatusArrives(op) ==
    /\ wire[op] = "status"
    /\ wire' = [wire EXCEPT ![op] =
                   IF ~open THEN "shut"
                   ELSE IF record[op] = "none" THEN "unknown"
                   ELSE "waiting"]
    /\ UNCHANGED <<service, retained, waiters, view, snapshot, bounds, history>>

ServiceLocks ==
    /\ open
    /\ locks < MaxLocks
    /\ open' = FALSE
    /\ locks' = locks + 1
    /\ UNCHANGED <<record, effects, stray, retained, wire, waiters, view, snapshot,
                   asks, reloads, history>>

ServiceOpens ==
    /\ ~open
    /\ open' = TRUE
    /\ UNCHANGED <<record, effects, stray, retained, wire, waiters, view, snapshot,
                   bounds, history>>

-----------------------------------------------------------------------------
Person(op) == Ask(op) \/ AskConflicts(op) \/ Check(op) \/ CheckFindsNothing(op) \/ Dismiss(op)
Exchange(op) == Succeeds(op) \/ FailureArrives(op) \/ ExchangeBreaks(op)
Service(op) ==
    \/ CallArrives(op) \/ CallRefused(op) \/ StrayArrives(op)
    \/ Finish(op) \/ Respond(op) \/ StatusArrives(op)

Next ==
    \/ \E op \in Ops : Person(op) \/ Exchange(op) \/ Service(op)
    \/ AskSnapshot \/ AnswerSnapshot \/ SnapshotShut \/ SnapshotOpens \/ SnapshotLost
    \/ LockReply \/ UnlockReply \/ Reload
    \/ ServiceLocks \/ ServiceOpens

Spec == Init /\ [][Next]_vars

\* watch() asks for a snapshot again and again; a network that is not broken
\* for good lets one through in the end.
FairSpec ==
    /\ Spec
    /\ WF_vars(AskSnapshot) /\ SF_vars(AnswerSnapshot)
    /\ SF_vars(SnapshotShut) /\ SF_vars(SnapshotOpens)

-----------------------------------------------------------------------------
(* Correctness.                                                            *)

\* The shape of the journal, the handles, the exchanges and the view's records.
TypeOK ==
    /\ open \in BOOLEAN /\ locked \in BOOLEAN
    /\ record \in [Ops -> {"none", "open"} \cup Outcomes]
    /\ wire \in [Ops -> {"idle", "call", "waiting", "status"} \cup Replies]
    /\ waiters \in [Ops -> SUBSET {"request", "check"}]
    /\ result \in [Ops -> {"none", "pending", "unknown", "rejected", "complete"}]
    /\ effects \subseteq Ops /\ stray \subseteq Ops /\ retained \subseteq Ops
    /\ checked \subseteq Ops /\ delivered \subseteq Ops /\ retryable \subseteq Ops
    /\ pending \subseteq Ops /\ saved \subseteq Ops /\ autoChecked \subseteq Ops
    /\ dismissed \subseteq Ops /\ answered \subseteq Ops /\ refused \subseteq Ops
    /\ snapshot \in Snapshots
    /\ asks \in [Ops -> Nat] /\ acted \in [Ops -> Nat]
    /\ reloads \in Nat /\ locks \in Nat

\* An operation that was carried out and whose outcome never reached the view
\* keeps its handle in the browser's storage, through lost answers, reloads and
\* locks, until the person dismisses it: it can always be asked about again.
UnconfirmedIsRecoverable == effects \subseteq retained \cup answered \cup dismissed

\* The answer of a submission or of the Join dialog acts on the view (selects a
\* conversation, opens a result) once, although the request, a status check that
\* joined it and a later check or retry may all deliver it ("coalesces original and
\* recovered replies").  An invitation may act twice: performJoin does not ask
\* whether its answer was delivered, and acts after a status check that did; but not
\* more often, since an invitation that was answered is not asked for again.
ActsOnce ==
    \A op \in Ops : acted[op] <= (IF op \in NetJoins THEN 2 ELSE 1)

\* What the journal confirms is shown in the end, whatever answers were lost and
\* whatever the view said of it meanwhile, unless the session is locked.
OutcomeIsShown ==
    \A op \in Ops \ NetJoins :
        (record[op] = "applied") ~> (result[op] = "complete" \/ ~open \/ locked)

(* The promise: the view's word is silent or true, and never taken back.    *)
\* A join that was refused may be asked for again under its identifier: the
\* refusal of one attempt is no word about the operation.
FateOf(op) ==
    IF op \in effects THEN "done"
    ELSE IF record[op] = "rejected" \/ (op \in refused /\ op \in Sends) THEN "void"
    ELSE "open"

WordOf(op) ==
    CASE result[op] = "complete" -> "complete"
      [] result[op] = "rejected" /\ op \in Sends -> "rejected"
      [] OTHER -> "silent"

Promise == INSTANCE OperationPromise WITH
    fate <- [op \in Ops |-> FateOf(op)],
    word <- [op \in Ops |-> WordOf(op)],
    closed <- locked

\* Every step of the view, the network and the service is a step the promise
\* allows, or one it does not notice.
PromiseIsKept == Promise!PromiseSpec

=============================================================================
