------------------------------ MODULE HostUpdates ------------------------------
(***************************************************************************)
(* Restarting a host for an update (chat_service/host_updates.rs): windows *)
(* hold leases; the only attached window may prepare a release, which      *)
(* pauses the update gate of the running service and of the networks       *)
(* below it; it then disconnects the service and asks the process to exit. *)
(* One update request runs at a time, under the `updates` lock; Prepare,   *)
(* Unlock and Disconnect also hold the `running` lock, and the deadline of *)
(* the local server may drop any of them where it waits.                   *)
(*                                                                         *)
(* A gate is paused or not, and counts the requests and admitted           *)
(* operations inside it; OperationJournal has what such an operation does. *)
(***************************************************************************)
EXTENDS Naturals, FiniteSets

CONSTANTS
    Views,        \* windows of the desktop application
    Releases,     \* releases they may prepare
    Gates,        \* the service's own gate and its networks' gates
    Main,         \* the service's own gate
    NoOwner,      \* no preparation is acknowledged
    MaxWork,      \* bound on the work inside one gate
    MaxUnlocks,   \* bound on unlocks
    MaxTimeouts   \* bound on update requests dropped at their deadline

ASSUME HostUpdatesAssumption ==
    /\ Main \in Gates
    /\ NoOwner \notin Views \X Releases
    /\ MaxWork \in Nat /\ MaxUnlocks \in Nat /\ MaxTimeouts \in Nat

VARIABLES
    views,        \* State.views: the windows holding a lease
    lapsed,       \* leases older than 45 s
    closed,       \* windows that are gone for good
    prepared,     \* State.prepared: the window and release acknowledged
    updating,     \* the request under the updates lock
    service,      \* InstanceHost.running: its gates
    running,      \* who holds the running lock
    unlocker,     \* the Unlock in flight
    exit,         \* "no", "armed" (250 ms to go) or "fired"
    unlocks,      \* unlocks so far
    timeouts,     \* deadlines so far
    vouched,      \* history: the running service is the one acknowledged
    stranded,     \* history: a preparation was dropped after it had paused
    asked         \* history: windows that asked for a preparation

leases == <<views, lapsed, closed>>
host == <<service, running, unlocker, unlocks>>
histories == <<vouched, stranded, asked>>
vars == <<leases, prepared, updating, host, exit, timeouts, histories>>

Nothing == [kind |-> "none"]

\* A service that starts has open gates; none is the same without a service.
OpenGates == [g \in Gates |-> [paused |-> FALSE, work |-> 0]]
Fresh(up) == [up |-> up, gates |-> OpenGates]

Running == service.up
Busy(g) == service.gates[g].work > 0

Shut == {g \in Gates : service.gates[g].paused}
Unpaused == Gates \ Shut

\* The service with these gates paused and the others open.
Paused(gates) ==
    [service EXCEPT !.gates =
        [g \in Gates |-> [paused |-> g \in gates, work |-> service.gates[g].work]]]

Init ==
    /\ views = {} /\ lapsed = {} /\ closed = {}
    /\ prepared = NoOwner
    /\ updating = Nothing
    /\ service = Fresh(FALSE)
    /\ running = "free"
    /\ unlocker = "idle"
    /\ exit = "no"
    /\ unlocks = 0 /\ timeouts = 0
    /\ vouched = FALSE /\ stranded = FALSE /\ asked = {}

-----------------------------------------------------------------------------
(* Windows.                                                                *)

\* Forty-five seconds without a heartbeat.
Lapse(v) ==
    /\ v \in views \ lapsed
    /\ lapsed' = lapsed \cup {v}
    /\ UNCHANGED <<views, closed, prepared, updating, host, exit, timeouts, histories>>

Close(v) ==
    /\ v \notin closed
    /\ closed \cup {v} # Views
    /\ closed' = closed \cup {v}
    /\ UNCHANGED <<views, lapsed, prepared, updating, host, exit, timeouts, histories>>

Orphaned(remaining) == prepared # NoOwner /\ prepared[1] \notin remaining

\* The updates lock is taken and leases that lapsed are dropped.
Begin(request) ==
    /\ exit # "fired"
    /\ updating = Nothing
    /\ request.view \notin closed
    /\ views' = views \ lapsed
    /\ lapsed' = {}
    /\ updating' = [kind |-> request.kind, view |-> request.view, release |-> request.release,
                    step |-> IF Orphaned(views \ lapsed) THEN "sweep" ELSE "arm"]
    /\ asked' = IF request.kind = "prepare" THEN asked \cup {request.view} ELSE asked
    /\ UNCHANGED <<closed, prepared, host, exit, timeouts, vouched, stranded>>

At(kind, step) == updating # Nothing /\ updating.kind = kind /\ updating.step = step

\* resume_after_update() for whatever runs, networks first, then the owner is
\* forgotten: of a departed window, of one that detaches or of one that gives up.
Release ==
    /\ running = "free"
    /\ service' = Paused({})
    /\ prepared' = NoOwner
    /\ vouched' = FALSE

\* The departed window's preparation is forgotten and nothing is resumed.
FaultSweep ==
    /\ updating # Nothing
    /\ updating.step = "sweep"
    /\ running = "free"
    /\ prepared' = NoOwner
    /\ vouched' = FALSE
    /\ updating' = [updating EXCEPT !.step = "arm"]
    /\ UNCHANGED <<leases, service, running, unlocker, unlocks, exit, timeouts, stranded, asked>>

Sweep ==
    /\ updating # Nothing
    /\ updating.step = "sweep"
    /\ Release
    /\ updating' = [updating EXCEPT !.step = "arm"]
    /\ UNCHANGED <<leases, running, unlocker, unlocks, exit, timeouts, stranded, asked>>

-----------------------------------------------------------------------------
(* One action per arm of InstanceHost::update.                             *)

Answered == updating' = Nothing

OwnedByOther(v) == prepared # NoOwner /\ prepared[1] # v

\* Any window may attach at any time.
FaultHeartbeat ==
    /\ At("heartbeat", "arm")
    /\ Answered
    /\ views' = views \cup {updating.view}
    /\ lapsed' = lapsed \ {updating.view}
    /\ UNCHANGED <<closed, prepared, host, exit, timeouts, histories>>

\* Thirty-two leases are more than there are windows.
Heartbeat ==
    /\ At("heartbeat", "arm")
    /\ Answered
    /\ IF OwnedByOther(updating.view)
       THEN UNCHANGED <<views, lapsed>>
       ELSE /\ views' = views \cup {updating.view}
            /\ lapsed' = lapsed \ {updating.view}
    /\ UNCHANGED <<closed, prepared, host, exit, timeouts, histories>>

Owns(v, release) == prepared = <<v, release>>

Detach ==
    /\ At("detach", "arm")
    /\ Answered
    /\ views' = views \ {updating.view}
    /\ lapsed' = lapsed \ {updating.view}
    /\ IF prepared # NoOwner /\ prepared[1] = updating.view
       THEN Release
       ELSE UNCHANGED <<service, prepared, vouched>>
    /\ UNCHANGED <<closed, running, unlocker, unlocks, exit, timeouts, stranded, asked>>

Abort ==
    /\ At("abort", "arm")
    /\ Answered
    /\ IF Owns(updating.view, updating.release)
       THEN Release
       ELSE UNCHANGED <<service, prepared, vouched>>
    /\ UNCHANGED <<leases, running, unlocker, unlocks, exit, timeouts, stranded, asked>>

\* The prepared window asks a disconnected host to exit.
Exit ==
    /\ At("exit", "arm")
    /\ Answered
    /\ IF Owns(updating.view, updating.release)
       THEN /\ running = "free"
            /\ exit' = IF Running \/ exit # "no" THEN exit ELSE "armed"
       ELSE UNCHANGED exit
    /\ UNCHANGED <<leases, prepared, host, timeouts, histories>>

MayPrepare == views = {updating.view}

\* Busy, refused, or acknowledged before.
PrepareAnswered ==
    /\ At("prepare", "arm")
    /\ ~MayPrepare \/ prepared # NoOwner \/ running # "free"
    /\ Answered
    /\ UNCHANGED <<leases, prepared, host, exit, timeouts, histories>>

Acknowledged(vouch) ==
    /\ prepared' = <<updating.view, updating.release>>
    /\ vouched' = vouch
    /\ Answered

\* Nothing runs: nothing is paused.
PrepareStopped ==
    /\ At("prepare", "arm")
    /\ MayPrepare /\ prepared = NoOwner /\ running = "free"
    /\ ~Running
    /\ Acknowledged(FALSE)
    /\ UNCHANGED <<leases, host, exit, timeouts, stranded, asked>>

PrepareBusy ==
    /\ At("prepare", "arm")
    /\ MayPrepare /\ prepared = NoOwner /\ running = "free"
    /\ Running
    /\ Busy(Main)
    /\ Answered
    /\ UNCHANGED <<leases, prepared, host, exit, timeouts, histories>>

\* UpdateGate::pause of the service's own gate.
PauseMain ==
    /\ At("prepare", "arm")
    /\ MayPrepare /\ prepared = NoOwner /\ running = "free"
    /\ Running
    /\ ~Busy(Main)
    /\ service' = Paused(Shut \cup {Main})
    /\ running' = "prepare"
    /\ updating' = [updating EXCEPT !.step = "networks"]
    /\ UNCHANGED <<leases, prepared, unlocker, unlocks, exit, timeouts, histories>>

\* Then each network's.
PauseNetwork ==
    /\ At("prepare", "networks")
    /\ \E g \in Unpaused :
        /\ ~Busy(g)
        /\ service' = Paused(Shut \cup {g})
    /\ UNCHANGED <<leases, prepared, updating, running, unlocker, unlocks, exit, timeouts, histories>>

\* A busy network, or a save of it or of the service that fails, leaves the
\* service's own gate paused.
FaultPrepareFails ==
    /\ At("prepare", "networks")
    /\ \/ \E g \in Unpaused : Busy(g)
       \/ Unpaused = {}
    /\ service' = Paused({Main})
    /\ running' = "free"
    /\ Answered
    /\ UNCHANGED <<leases, prepared, unlocker, unlocks, exit, timeouts, histories>>

\* A busy network, or a save of it or of the service that fails: all resume.
PrepareFails ==
    /\ At("prepare", "networks")
    /\ \/ \E g \in Unpaused : Busy(g)
       \/ Unpaused = {}
    /\ service' = Paused({})
    /\ running' = "free"
    /\ Answered
    /\ UNCHANGED <<leases, prepared, unlocker, unlocks, exit, timeouts, histories>>

\* The networks are not paused.
FaultPrepared ==
    /\ At("prepare", "networks")
    /\ Acknowledged(TRUE)
    /\ running' = "free"
    /\ UNCHANGED <<leases, service, unlocker, unlocks, exit, timeouts, stranded, asked>>

\* Everything is paused and saved.
Prepared ==
    /\ At("prepare", "networks")
    /\ Unpaused = {}
    /\ Acknowledged(TRUE)
    /\ running' = "free"
    /\ UNCHANGED <<leases, service, unlocker, unlocks, exit, timeouts, stranded, asked>>

\* The local server's deadline drops the request where it waits, and with it
\* the locks it holds; a heartbeat's arm waits for nothing.  A preparation is
\* not undone.
Timeout ==
    /\ timeouts < MaxTimeouts
    /\ updating # Nothing /\ ~At("heartbeat", "arm")
    /\ timeouts' = timeouts + 1
    /\ stranded' = (stranded \/ updating.step = "networks")
    /\ running' = IF updating.step = "networks" THEN "free" ELSE running
    /\ Answered
    /\ UNCHANGED <<leases, prepared, service, unlocker, unlocks, exit, vouched, asked>>

-----------------------------------------------------------------------------
(* The host's lifecycle and the work it carries.                           *)

\* dispatch_current looks at the preparation before it takes the running lock.
UnlockChecked ==
    /\ exit # "fired"
    /\ unlocker = "idle"
    /\ unlocks < MaxUnlocks
    /\ updating = Nothing /\ prepared = NoOwner
    /\ unlocker' = "checked"
    /\ unlocks' = unlocks + 1
    /\ UNCHANGED <<leases, prepared, updating, service, running, exit, timeouts, histories>>

UnlockBegins ==
    /\ unlocker = "checked"
    /\ running = "free"
    /\ IF Running
       THEN unlocker' = "idle" /\ UNCHANGED running
       ELSE unlocker' = "opening" /\ running' = "unlock"
    /\ UNCHANGED <<leases, prepared, updating, service, unlocks, exit, timeouts, histories>>

UnlockEnds ==
    /\ unlocker = "opening"
    /\ \/ service' = Fresh(TRUE)
       \/ UNCHANGED service
    /\ unlocker' = "idle"
    /\ running' = "free"
    /\ vouched' = FALSE
    /\ UNCHANGED <<leases, prepared, updating, unlocks, exit, timeouts, stranded, asked>>

\* Any attachment may disconnect the host; what it carries is cancelled.
Disconnect ==
    /\ running = "free"
    /\ Running
    /\ service' = Fresh(FALSE)
    /\ vouched' = FALSE
    /\ running' = "disconnect"
    /\ UNCHANGED <<leases, prepared, updating, unlocker, unlocks, exit, timeouts, stranded, asked>>

DisconnectEnds ==
    /\ running = "disconnect"
    /\ running' = "free"
    /\ UNCHANGED <<leases, prepared, updating, service, unlocker, unlocks, exit, timeouts, histories>>

\* A request, a worker's round or a call to a network, which stays in the
\* service's own gate while it is in the network's.
WorkBegins(g) ==
    /\ exit # "fired"
    /\ Running
    /\ ~service.gates[g].paused
    /\ service.gates[g].work < MaxWork
    /\ service' = [service EXCEPT !.gates[g].work = @ + 1]
    /\ UNCHANGED <<leases, prepared, updating, running, unlocker, unlocks, exit, timeouts, histories>>

WorkEnds(g) ==
    /\ Running
    /\ Busy(g)
    /\ service' = [service EXCEPT !.gates[g].work = @ - 1]
    /\ UNCHANGED <<leases, prepared, updating, running, unlocker, unlocks, exit, timeouts, histories>>

\* The server stops, whatever runs by then.
ExitFires ==
    /\ exit = "armed"
    /\ exit' = "fired"
    /\ UNCHANGED <<leases, prepared, updating, host, timeouts, histories>>

-----------------------------------------------------------------------------
Kinds == {"heartbeat", "detach", "prepare", "abort", "exit"}

Requests == [kind : Kinds, view : Views, release : Releases]

Arm ==
    \/ Sweep \/ Heartbeat \/ Detach \/ Abort \/ Exit
    \/ PrepareAnswered \/ PrepareStopped \/ PrepareBusy \/ PauseMain \/ PauseNetwork
    \/ PrepareFails \/ Prepared

Next ==
    \/ \E v \in Views : Lapse(v) \/ Close(v)
    \/ \E request \in Requests : Begin(request)
    \/ Arm \/ Timeout
    \/ UnlockChecked \/ UnlockBegins \/ UnlockEnds
    \/ Disconnect \/ DisconnectEnds
    \/ \E g \in Gates : WorkBegins(g) \/ WorkEnds(g)
    \/ ExitFires

Spec == Init /\ [][Next]_vars

\* Windows that are open send a heartbeat every fifteen seconds, a lease whose
\* window is gone lapses, and whoever waits for a lock gets its turn.
FairSpec ==
    /\ Spec
    /\ SF_vars(Arm)
    /\ WF_vars(UnlockEnds) /\ WF_vars(DisconnectEnds)
    /\ \A v \in Views :
        /\ WF_vars(v \in closed /\ Lapse(v))
        /\ SF_vars(\E request \in Requests :
                       request.kind = "heartbeat" /\ request.view = v /\ Begin(request))

-----------------------------------------------------------------------------
(* Correctness.                                                            *)

UpdateRecords ==
    {u \in [kind : Kinds, view : Views, release : Releases, step : {"sweep", "arm", "networks"}] :
        u.step = "networks" => u.kind = "prepare"}

Services == [up : BOOLEAN, gates : [Gates -> [paused : BOOLEAN, work : 0..MaxWork]]]

\* The shape of every variable; Prepare holds the running lock exactly while it
\* pauses, Unlock exactly while it opens a service.
TypeOK ==
    /\ views \subseteq Views /\ lapsed \subseteq views /\ closed \subseteq Views
    /\ prepared \in (Views \X Releases) \cup {NoOwner}
    /\ updating \in UpdateRecords \cup {Nothing}
    /\ service \in Services
    /\ running \in {"free", "prepare", "unlock", "disconnect"}
    /\ running = "prepare" <=> At("prepare", "networks")
    /\ running = "unlock" <=> unlocker = "opening"
    /\ unlocker \in {"idle", "checked", "opening"}
    /\ exit \in {"no", "armed", "fired"}
    /\ unlocks \in 0..MaxUnlocks /\ timeouts \in 0..MaxTimeouts
    /\ vouched \in BOOLEAN /\ stranded \in BOOLEAN /\ asked \subseteq Views

\* While a release is prepared no window but its owner is attached, whichever
\* windows come, lapse and return ("Another GChat window is attached", update).
OwnerAlone == prepared # NoOwner => views \subseteq {prepared[1]}

\* The service a Ready answer spoke of does nothing until it is stopped or
\* resumed: neither its own gate nor a network's holds work, and none lets any
\* in ("Never stop a host while a local request or admitted RPC still owns
\* work", update_gate.rs).
PreparedIsQuiescent ==
    prepared # NoOwner /\ vouched =>
        /\ Running
        /\ \A g \in Gates : service.gates[g].paused /\ ~Busy(g)

\* A preparation that was answered with anything but Ready leaves nothing
\* paused: a paused gate has an owner, or one in the making (pause_for_update).
PausedHasOwner ==
    Running /\ ~stranded /\ (\E g \in Gates : service.gates[g].paused) =>
        \/ prepared # NoOwner
        \/ At("prepare", "networks")

Released ==
    \/ ~(asked \subseteq closed)
    \/ ~Running
    \/ ~service.gates[Main].paused
    \/ exit = "fired"

\* "A closed/crashed view cannot leave all future owners permanently paused"
\* (host_updates.rs): once every window that asked for a preparation is closed,
\* the service resumes, unless it ends or another window asks.
ClosedViewReleases ==
    (asked \subseteq closed /\ Running /\ service.gates[Main].paused) ~> Released

\* The same as far as the code keeps it: a preparation that ended with an
\* answer is released by the next heartbeat of another window; one dropped at
\* the server's deadline is not counted.
AnsweredPreparationReleases ==
    (asked \subseteq closed /\ Running /\ service.gates[Main].paused /\ ~stranded) ~>
        (Released \/ stranded)
=============================================================================
