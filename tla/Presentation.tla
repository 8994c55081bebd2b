----------------------------- MODULE Presentation -----------------------------
(***************************************************************************)
(* The cached, change-driven projection every window is drawn from         *)
(* (chat_service/presentation.rs), and the long-poll windows wait on.      *)
(*                                                                         *)
(* What a snapshot shows is abstracted to two counters - how often the     *)
(* service's own data and the protocol client's data have changed - and to *)
(* whether a member is shown as recently active, which ends by itself when *)
(* time passes.  Whoever changes data announces it afterwards: invalidate()*)
(* for the service, the client's `changes` watch for the client.  Data may *)
(* change at any moment, also while a snapshot is being built; only the    *)
(* session's lifecycle needs the session lock a builder holds.             *)
(***************************************************************************)
EXTENDS Naturals

CONSTANTS
    Viewers,      \* requests of attached windows that may be in flight together
    Nobody,       \* the session lock is free
    MaxService,   \* bound on changes of the service's data
    MaxClient,    \* bound on changes of the client's data
    MaxUnlocks,   \* bound on unlocks
    MaxLapses     \* bound on presence expiries

ASSUME PresentationAssumption ==
    /\ Nobody \notin Viewers
    /\ MaxService \in Nat /\ MaxClient \in Nat
    /\ MaxUnlocks \in Nat /\ MaxLapses \in Nat

VARIABLES
    session,     \* "none", "locked" (ui_locked) or "open"
    stopped,     \* disconnect() has begun
    holder,      \* the viewer building under the session lock
    content,     \* [service, client, active]: what project() would show
    lapses,      \* how many presence deadlines have passed
    version,     \* [service, client]: the values of the two watch channels
    owed,        \* [service, client]: changes not announced yet
    cache,       \* Presentation.cache
    viewers,     \* what each request is doing
    unlocks,     \* unlocks so far
    announced    \* history: the content covered by announcements

data == <<content, lapses>>
watches == <<version, owed, announced>>
lifecycle == <<session, stopped, unlocks>>
vars == <<lifecycle, holder, data, watches, cache, viewers>>

NoCache == [shown |-> "nothing"]
Hidden == [shown |-> "locked"]

\* project(): a locked or absent session shows nothing of its content.
Shown ==
    IF session = "open"
    THEN [shown |-> "open", service |-> content.service, client |-> content.client,
          active |-> content.active, lapses |-> lapses]
    ELSE Hidden

\* The revision is a digest of what is shown.
Revision(s) ==
    IF s.shown = "open" THEN <<s.service, s.client, s.active>> ELSE <<>>

\* A presence deadline bounds how long a snapshot may be served; without one
\* the bound is never reached.
Deadline == IF session = "open" /\ content.active THEN lapses ELSE MaxLapses

Idle ==
    [pc |-> "idle", wait |-> FALSE, seen |-> [service |-> 0, client |-> 0], attached |-> FALSE,
     built |-> [service |-> 0, client |-> 0, locked |-> FALSE],
     result |-> NoCache, expires |-> MaxLapses,
     since |-> [service |-> 0, client |-> 0, lapses |-> 0], sawOpen |-> FALSE]

Init ==
    /\ session = "none"
    /\ stopped = FALSE
    /\ holder = Nobody
    /\ content = [service |-> 0, client |-> 0, active |-> FALSE]
    /\ lapses = 0
    /\ version = [service |-> 0, client |-> 0]
    /\ owed = [service |-> 0, client |-> 0]
    /\ cache = NoCache
    /\ viewers = [v \in Viewers |-> [task |-> Idle, known |-> <<>>]]
    /\ unlocks = 0
    /\ announced = [service |-> 0, client |-> 0]

-----------------------------------------------------------------------------
(* Announcements.                                                          *)

\* invalidate(): clear the cache, then bump the watch.  A builder storing in
\* between leaves an entry the bump makes stale, so the two are one step.
Invalidated ==
    /\ cache' = NoCache
    /\ version' = [version EXCEPT !.service = @ + 1]
    /\ announced' = [announced EXCEPT !.service = content.service]

Invalidate ==
    /\ owed.service > 0
    /\ Invalidated
    /\ owed' = [owed EXCEPT !.service = @ - 1]
    /\ UNCHANGED <<lifecycle, holder, data, viewers>>

\* changes.send_modify: the client knows nothing of the service's cache.
AnnounceClient ==
    /\ owed.client > 0
    /\ version' = [version EXCEPT !.client = @ + 1]
    /\ announced' = [announced EXCEPT !.client = content.client]
    /\ owed' = [owed EXCEPT !.client = @ - 1]
    /\ UNCHANGED <<lifecycle, holder, data, cache, viewers>>

\* A submission, a file or contact worker, a provider refresh, catch-up.
ChangeService ==
    /\ session # "none"
    /\ content.service < MaxService
    /\ content' = [content EXCEPT !.service = @ + 1]
    /\ owed' = [owed EXCEPT !.service = @ + 1]
    /\ UNCHANGED <<lifecycle, holder, lapses, version, announced, cache, viewers>>

\* A message, a topic, a member seen: the archiver's event arms.
ChangeClient ==
    /\ session # "none"
    /\ content.client < MaxClient
    /\ \E seen \in BOOLEAN :
        content' = [content EXCEPT !.client = @ + 1, !.active = @ \/ seen]
    /\ owed' = [owed EXCEPT !.client = @ + 1]
    /\ UNCHANGED <<lifecycle, holder, lapses, version, announced, cache, viewers>>

\* Ninety seconds after a member was seen nobody announces anything; by then
\* that it was seen has been announced.
Lapse ==
    /\ content.active
    /\ owed.client = 0
    /\ lapses < MaxLapses
    /\ content' = [content EXCEPT !.active = FALSE]
    /\ lapses' = lapses + 1
    /\ UNCHANGED <<lifecycle, holder, watches, cache, viewers>>

-----------------------------------------------------------------------------
(* The session.  handle_mode announces once more when it returns.          *)

SeenOpen ==
    [v \in Viewers |-> [viewers[v] EXCEPT !.task =
        [@ EXCEPT !.sawOpen = viewers[v].task.sawOpen \/ viewers[v].task.pc # "idle"]]]

Unlock ==
    /\ ~stopped
    /\ holder = Nobody
    /\ session # "open"
    /\ unlocks < MaxUnlocks
    /\ session' = "open"
    /\ unlocks' = unlocks + 1
    /\ owed' = [owed EXCEPT !.service = @ + 1]
    /\ viewers' = SeenOpen
    /\ UNCHANGED <<stopped, holder, data, version, announced, cache>>

\* Lock without its invalidate().
FaultLock ==
    /\ holder = Nobody
    /\ session = "open"
    /\ session' = "locked"
    /\ owed' = [owed EXCEPT !.service = @ + 1]
    /\ UNCHANGED <<stopped, unlocks, holder, data, version, announced, cache, viewers>>

Lock ==
    /\ holder = Nobody
    /\ session = "open"
    /\ session' = "locked"
    /\ Invalidated
    /\ owed' = [owed EXCEPT !.service = @ + 1]
    /\ UNCHANGED <<stopped, unlocks, holder, data, viewers>>

Stop ==
    /\ ~stopped
    /\ stopped' = TRUE
    /\ UNCHANGED <<session, unlocks, holder, data, watches, cache, viewers>>

CloseSession ==
    /\ stopped
    /\ holder = Nobody
    /\ session # "none"
    /\ session' = "none"
    /\ Invalidated
    /\ UNCHANGED <<stopped, unlocks, holder, data, owed, viewers>>

-----------------------------------------------------------------------------
(* One request: Snapshot, or Events which waits for another revision.      *)

At(v, pc) == viewers[v].task.pc = pc

Begun(task) ==
    [task EXCEPT !.since = [service |-> announced.service, client |-> announced.client,
                            lapses |-> lapses],
                 !.sawOpen = (session = "open")]

\* changes.borrow_and_update() comes before the snapshot is looked at, in the
\* first round as in every later one.
Subscribed(task) ==
    [Begun(task) EXCEPT !.pc = "attach", !.wait = TRUE,
                        !.seen = [service |-> version.service,
                                  client |-> task.seen.client]]

Ask(v, wait) ==
    /\ At(v, "idle")
    /\ wait => ~stopped
    /\ viewers' = [viewers EXCEPT ![v].task =
                     IF wait THEN Subscribed(@) ELSE [Begun(@) EXCEPT !.pc = "snapshot"]]
    /\ UNCHANGED <<lifecycle, holder, data, watches, cache>>

\* The client's watch, under the session lock; an absent session has none.
Attach(v) ==
    /\ At(v, "attach")
    /\ holder = Nobody
    /\ viewers' = [viewers EXCEPT ![v].task =
                     [@ EXCEPT !.pc = "snapshot", !.attached = (session # "none"),
                               !.seen = [service |-> viewers[v].task.seen.service,
                                         client |-> version.client]]]
    /\ UNCHANGED <<lifecycle, holder, data, watches, cache>>

CacheValid ==
    /\ cache # NoCache
    /\ cache.built = [service |-> version.service, client |-> version.client,
                      locked |-> session # "open"]
    /\ cache.expires >= lapses

TakeCached(v) ==
    /\ At(v, "snapshot")
    /\ holder = Nobody
    /\ CacheValid
    /\ viewers' = [viewers EXCEPT ![v].task =
                     [@ EXCEPT !.pc = "answer", !.result = cache.snapshot,
                               !.expires = cache.expires]]
    /\ UNCHANGED <<lifecycle, holder, data, watches, cache>>

\* The versions are read before anything is built.
StartBuild(v) ==
    /\ At(v, "snapshot")
    /\ holder = Nobody
    /\ ~CacheValid
    /\ holder' = v
    /\ viewers' = [viewers EXCEPT ![v].task =
           [@ EXCEPT !.pc = "refresh",
                     !.built = [service |-> version.service, client |-> version.client,
                                locked |-> session # "open"]]]
    /\ UNCHANGED <<lifecycle, data, watches, cache>>

\* refresh_channel_topics awaits the runtime; then the expiry is computed.
Refresh(v) ==
    /\ At(v, "refresh")
    /\ viewers' = [viewers EXCEPT ![v].task =
                     [@ EXCEPT !.pc = "project", !.expires = Deadline]]
    /\ UNCHANGED <<lifecycle, holder, data, watches, cache>>

\* The observed topics could not be saved: the request fails.
RefreshFails(v) ==
    /\ At(v, "refresh")
    /\ session = "open"
    /\ holder' = Nobody
    /\ viewers' = [viewers EXCEPT ![v].task = Idle]
    /\ UNCHANGED <<lifecycle, data, watches, cache>>

Project(v) ==
    /\ At(v, "project")
    /\ viewers' = [viewers EXCEPT ![v].task = [@ EXCEPT !.pc = "store", !.result = Shown]]
    /\ UNCHANGED <<lifecycle, holder, data, watches, cache>>

Entry(task, built) ==
    [shown |-> "cached", built |-> built, expires |-> task.expires, snapshot |-> task.result]

\* The entry is filed under the versions of the moment it is stored.
FaultStore(v) ==
    /\ At(v, "store")
    /\ cache' = Entry(viewers[v].task, [service |-> version.service,
                        client |-> version.client, locked |-> session # "open"])
    /\ holder' = Nobody
    /\ viewers' = [viewers EXCEPT ![v].task =
                     [@ EXCEPT !.pc = "answer", !.built = Idle.built]]
    /\ UNCHANGED <<lifecycle, data, watches>>

Store(v) ==
    /\ At(v, "store")
    /\ cache' = Entry(viewers[v].task, viewers[v].task.built)
    /\ holder' = Nobody
    /\ viewers' = [viewers EXCEPT ![v].task =
                     [@ EXCEPT !.pc = "answer", !.built = Idle.built]]
    /\ UNCHANGED <<lifecycle, data, watches>>

\* Nothing new for a waiting request.
Unchanged(v) ==
    /\ viewers[v].task.wait
    /\ Revision(viewers[v].task.result) = viewers[v].known

Answer(v) ==
    /\ At(v, "answer")
    /\ ~Unchanged(v)
    /\ viewers' = [viewers EXCEPT ![v] =
                     [task |-> Idle, known |-> Revision(viewers[v].task.result)]]
    /\ UNCHANGED <<lifecycle, holder, data, watches, cache>>

\* A sleeping request keeps what it subscribed to and how long that holds.
Dozing(task) ==
    [Idle EXCEPT !.pc = "asleep", !.wait = TRUE, !.seen = task.seen,
                 !.attached = task.attached, !.expires = task.expires]

\* The wait begins at the versions of the moment it begins.
FaultSleep(v) ==
    /\ At(v, "answer")
    /\ Unchanged(v)
    /\ ~stopped
    /\ viewers' = [viewers EXCEPT ![v].task = [Dozing(@) EXCEPT !.seen = version]]
    /\ UNCHANGED <<lifecycle, holder, data, watches, cache>>

Sleep(v) ==
    /\ At(v, "answer")
    /\ Unchanged(v)
    /\ ~stopped
    /\ viewers' = [viewers EXCEPT ![v].task = Dozing(@)]
    /\ UNCHANGED <<lifecycle, holder, data, watches, cache>>

Awake(v) ==
    \/ version.service # viewers[v].task.seen.service
    \/ viewers[v].task.attached /\ version.client # viewers[v].task.seen.client
    \/ viewers[v].task.expires < lapses

Wake(v) ==
    /\ At(v, "asleep")
    /\ ~stopped
    /\ Awake(v)
    /\ viewers' = [viewers EXCEPT ![v].task = Subscribed(Idle)]
    /\ UNCHANGED <<lifecycle, holder, data, watches, cache>>

\* "instance disconnected"
Disconnected(v) ==
    /\ stopped
    /\ At(v, "asleep") \/ (At(v, "answer") /\ Unchanged(v))
    /\ viewers' = [viewers EXCEPT ![v].task = Idle]
    /\ UNCHANGED <<lifecycle, holder, data, watches, cache>>

\* Twenty seconds have passed: a request that sleeps looks again, and one that
\* finds nothing new says so.
TimeIsUp(v) ==
    /\ viewers[v].task.wait
    /\ \/ /\ At(v, "asleep")
          /\ viewers' = [viewers EXCEPT ![v].task = Subscribed(Idle)]
       \/ /\ At(v, "answer")
          /\ viewers' = [viewers EXCEPT ![v].task = Idle]
    /\ UNCHANGED <<lifecycle, holder, data, watches, cache>>

\* The window goes away while its request awaits something; a cancelled builder
\* releases the session lock.
Cancel(v) ==
    /\ viewers[v].task.pc \in {"attach", "snapshot", "refresh", "asleep"}
    /\ viewers' = [viewers EXCEPT ![v].task = Idle]
    /\ holder' = IF holder = v THEN Nobody ELSE holder
    /\ UNCHANGED <<lifecycle, data, watches, cache>>

-----------------------------------------------------------------------------
Advance(v) ==
    \/ Attach(v)
    \/ TakeCached(v) \/ StartBuild(v) \/ Refresh(v) \/ RefreshFails(v)
    \/ Project(v) \/ Store(v)
    \/ Answer(v) \/ Sleep(v) \/ Wake(v) \/ Disconnected(v)

Next ==
    \/ Invalidate \/ AnnounceClient
    \/ ChangeService \/ ChangeClient \/ Lapse
    \/ Unlock \/ Lock \/ Stop \/ CloseSession
    \/ \E v \in Viewers :
        \/ \E wait \in BOOLEAN : Ask(v, wait)
        \/ Advance(v) \/ TimeIsUp(v) \/ Cancel(v)

Spec == Init /\ [][Next]_vars

\* The session lock is handed out in order, announcements follow their change.
FairSpec ==
    /\ Spec
    /\ WF_vars(Invalidate) /\ WF_vars(AnnounceClient)
    /\ \A v \in Viewers : SF_vars(Advance(v))

-----------------------------------------------------------------------------
(* Correctness.                                                            *)

Versions == [service : Nat, client : Nat]

Snapshots ==
    {NoCache, Hidden} \cup
    [shown : {"open"}, service : Nat, client : Nat, active : BOOLEAN, lapses : Nat]

Steps == {"idle", "attach", "snapshot", "refresh", "project", "store",
          "answer", "asleep"}

Builds  == [service : Nat, client : Nat, locked : BOOLEAN]
Sinces  == [service : Nat, client : Nat, lapses : Nat]
Entries == [shown : {"cached"}, built : Builds, expires : 0..MaxLapses, snapshot : Snapshots]

TaskSet == [pc : Steps, wait : BOOLEAN, seen : Versions, attached : BOOLEAN,
            built : Builds, result : Snapshots, expires : 0..MaxLapses,
            since : Sinces, sawOpen : BOOLEAN]

Requests == [task : TaskSet, known : {<<>>} \cup (Nat \X Nat \X BOOLEAN)]

\* The shape of every variable: Presentation, the session and the requests;
\* whoever holds the session lock is building a snapshot.
TypeOK ==
    /\ session \in {"none", "locked", "open"}
    /\ stopped \in BOOLEAN
    /\ holder \in Viewers \cup {Nobody}
    /\ content \in [service : Nat, client : Nat, active : BOOLEAN]
    /\ lapses \in 0..MaxLapses
    /\ version \in Versions /\ owed \in Versions /\ announced \in Versions
    /\ unlocks \in Nat
    /\ cache = NoCache \/ cache \in Entries
    /\ viewers \in [Viewers -> Requests]
    /\ \A v \in Viewers :
        viewers[v].task.pc \in {"refresh", "project", "store"} <=> holder = v

Covers(s, since) ==
    s.shown = "open" =>
        /\ s.service >= since.service
        /\ s.client >= since.client
        /\ s.active => s.lapses >= since.lapses

\* What a request is answered with contains every change announced before it
\* began, and no presence that had ended by then, although the answer may come
\* from the cache and the data go on changing while a snapshot is built
\* ("Save the versions read BEFORE building", presentation_snapshot).
AnswersAreFresh ==
    \A v \in Viewers :
        At(v, "answer") => Covers(viewers[v].task.result, viewers[v].task.since)

\* While the session is locked or gone no unlocked data is kept in the cache,
\* and a request that never saw an open session is not shown any ("never
\* return unlocked data after a completed lock", presentation_snapshot).
LockHidesContent ==
    /\ session # "open" => cache = NoCache \/ cache.snapshot.shown # "open"
    /\ \A v \in Viewers :
        At(v, "answer") /\ ~viewers[v].task.sawOpen =>
            viewers[v].task.result.shown # "open"

\* A waiting window learns of what changed, or waits no longer, even if its
\* own time is not up (wait_for_changes returns a revision, or an error).
ChangeIsReported ==
    \A v \in Viewers :
        viewers[v].task.wait /\ Revision(Shown) # viewers[v].known
            ~> ~viewers[v].task.wait \/ Revision(Shown) = viewers[v].known
=============================================================================
