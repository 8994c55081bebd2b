---------------------------- MODULE WorkspaceView ----------------------------
(***************************************************************************)
(* The private view of ui/src/Workspace.svelte: snapshots (refresh, watch),*)
(* the selected conversation and the views kept of the others (select,     *)
(* view-state.ts), the history that is loaded of it (loadHistory), its     *)
(* draft (send, editFailed) and what locking closes (clearPrivateView), on *)
(* top of network-workspace.ts, which fails a snapshot that was asked for  *)
(* before a lock.                                                          *)
(*                                                                         *)
(* The view's code runs in turns, from one await to the next; an action is *)
(* one turn of one task, or one step of the service.  A task waits for one *)
(* answer at a time; answers of different tasks come in any order, and any *)
(* of them may be a failure.  The code's generation counters only tell the *)
(* newest request from the others, so the model keeps a flag with each     *)
(* request: is it still the newest?                                        *)
(*                                                                         *)
(* An operator whose name starts with Fault is a wrong version of the      *)
(* definition below it; no specification uses one.                         *)
(***************************************************************************)
EXTENDS Naturals, FiniteSets

CONSTANTS
    Convs,          \* the conversations of the snapshot
    None,           \* no conversation, no draft
    Watch,          \* the task of watch()
    Background,     \* the task of refreshInBackground()
    UserTasks,      \* tasks the person starts: select, older, edit
    PageSize,       \* messages in one page of history (200 in the code)
    OldMessages,    \* messages each conversation has at the start
    MaxArrivals,    \* bound: messages that arrive later, in all
    MaxEvents       \* bound: arrivals, locks, selections, pages asked for and (for two
                    \* each) texts and disconnects

RefreshTasks == {Watch, Background}
Tasks        == RefreshTasks \cup UserTasks

ASSUME ViewAssumption ==
    /\ None \notin Convs
    /\ Watch # Background /\ RefreshTasks \cap UserTasks = {}
    /\ PageSize \in Nat \ {0}
    /\ OldMessages \in Nat /\ MaxArrivals \in Nat
    /\ MaxEvents \in Nat

VARIABLES
    \* the service
    open,        \* BOOLEAN: the session is unlocked
    running,     \* there is a ChatService; without one the host answers
    boot,        \* instance.bootId: which service, or host, answers
    len,         \* messages 1..len[c] of each conversation
    arrivals,    \* messages that arrived: the revision of a snapshot
    request,     \* the lock or unlock that this view sent (lifecycleBusy)
    \* the view
    locked,      \* snapshot.instance.locked
    seen,        \* snapshot.revision
    known,       \* snapshot.instance.bootId
    selected,    \* the selected conversation
    messages,    \* the messages shown, <<conversation, number>>
    before,      \* the cursor of the oldest page loaded, 0 for none
    draft,       \* the conversation whose text is in the composer
    views,       \* ConversationViews
    restored,    \* restoredSelection
    accepted,    \* networkAccepted
    stale,       \* historyStale
    offline,
    halted,      \* connectionError is one watch() does not retry
    failures,    \* conversations with a failed message that can be edited
    \* the tasks
    refreshing,  \* what each refresh task waits for
    loading,     \* the history request of each task
    editing,     \* user tasks that are in editFailed
    sending,     \* conversations with a message on its way
    events       \* counts what MaxEvents events

served  == <<open, running, boot, len, arrivals, request>>
shown   == <<selected, messages, before, views>>
written == <<draft, failures, sending>>
status  == <<stale, offline, halted>>
entered == <<restored, accepted>>
tasks   == <<refreshing, loading, editing>>
vars    == <<served, locked, seen, known, shown, written, entered, status, tasks, events>>

-----------------------------------------------------------------------------
MaxMessages == OldMessages + MaxArrivals
Numbers == 1..MaxMessages
Revisions == 0..MaxArrivals
Unseen    == MaxArrivals + 1     \* no snapshot yet
Boots     == 0..MaxEvents + 1
Lengths == [Convs -> 0..MaxMessages]
Shown   == SUBSET (Convs \X Numbers)
Drafts  == Convs \cup {None}

View == [messages : Shown, before : 0..MaxMessages, draft : Drafts]

NoView == [messages |-> {}, before |-> 0, draft |-> None]

Refresh == [step : {"idle", "asked", "here", "restoring", "loading"}, newest : BOOLEAN,
            doomed : BOOLEAN, shut : BOOLEAN, revision : Revisions, boot : Boots,
            changed : BOOLEAN]

Idle == [step |-> "idle", newest |-> FALSE, doomed |-> FALSE, shut |-> FALSE,
         revision |-> 0, boot |-> 0, changed |-> FALSE]

Load == [step : {"none", "dropped", "asked", "here"}, conv : Drafts, older : BOOLEAN,
         from : 0..MaxMessages, upto : 0..MaxMessages]

NoLoad  == [step |-> "none", conv |-> None, older |-> FALSE, from |-> 0, upto |-> 0]
Dropped == [NoLoad EXCEPT !.step = "dropped"]

Request  == [kind : {"none", "lock", "unlock"}, done : BOOLEAN, revision : Revisions,
             boot : Boots]
Quiet    == [kind |-> "none", done |-> FALSE, revision |-> 0, boot |-> 0]

ViewReady == ~locked /\ accepted     \* workspaceReady

-----------------------------------------------------------------------------
(* generation: only the newest history request is looked at.               *)
FaultDropLoads(loads) == loads

DropLoads(loads) ==
    [t \in Tasks |-> IF loads[t].step = "none" THEN NoLoad ELSE Dropped]

\* loadHistory up to its request.
StartLoad(t, conv, older, from) ==
    loading' = [DropLoads(loading) EXCEPT
                   ![t] = [step |-> "asked", conv |-> conv, older |-> older,
                           from |-> from, upto |-> 0]]

Waits(t) == loading[t].step # "none"

\* A page of history: at most PageSize messages up to the last one.
Page(conv, last) ==
    {<<conv, n>> : n \in {k \in Numbers : k <= last /\ k + PageSize > last}}

PageBefore(last) == IF last > PageSize THEN last - PageSize ELSE 0

\* An older page goes above what is loaded; a newer tail replaces what it
\* overlaps, or everything when it overlaps nothing.
FaultMerged(load) ==
    IF load.older THEN messages \cup Page(load.conv, load.from)
    ELSE Page(load.conv, load.upto)

Merged(load) ==
    LET page == Page(load.conv, IF load.older THEN load.from ELSE load.upto)
        kept == {m \in messages : \A p \in page \cap messages : m[2] < p[2]}
    IN IF load.older THEN messages \cup page
       ELSE IF page \cap messages = {} THEN page ELSE kept \cup page

MergedBefore(load) ==
    IF load.older THEN PageBefore(load.from)
    ELSE IF Page(load.conv, load.upto) \cap messages = {} THEN PageBefore(load.upto)
    ELSE before

\* Something happens that no answer has caused.
Happens == events < MaxEvents /\ events' = events + 1

-----------------------------------------------------------------------------
Init ==
    /\ open = TRUE /\ running = TRUE /\ boot = 0
    /\ len = [c \in Convs |-> OldMessages] /\ arrivals = 0 /\ request = Quiet
    /\ locked = TRUE
    /\ seen = Unseen /\ known = 0
    /\ selected = None /\ messages = {} /\ before = 0
    /\ views = [c \in Convs |-> NoView]
    /\ draft = None /\ failures = {} /\ sending = {}
    /\ restored = FALSE /\ accepted = FALSE
    /\ stale = FALSE /\ offline = FALSE /\ halted = FALSE
    /\ refreshing = [r \in RefreshTasks |-> Idle]
    /\ loading = [t \in Tasks |-> NoLoad]
    /\ editing = {}
    /\ events = 0

-----------------------------------------------------------------------------
(* select(), up to its history request: the view of the conversation left  *)
(* is kept and the other's restored in the same turn.                      *)
Switch(c) ==
    IF c = selected THEN UNCHANGED <<shown, draft>>
    ELSE /\ selected' = c
         /\ messages' = views[c].messages
         /\ before' = views[c].before
         /\ draft' = views[c].draft
         /\ views' = IF selected = None THEN views
                     ELSE [views EXCEPT ![selected] =
                              [messages |-> messages, before |-> before, draft |-> draft]]

Select(t, c) ==
    /\ ViewReady /\ ~Waits(t) /\ Happens
    /\ Switch(c)
    /\ StartLoad(t, c, FALSE, 0)
    /\ UNCHANGED <<served, locked, seen, known, failures, sending, entered, status, refreshing,
                   editing>>

\* Load older messages, by the button or to reveal a message that was found.
LoadOlder(t) ==
    /\ ViewReady /\ ~Waits(t) /\ Happens
    /\ selected # None /\ before # 0
    /\ StartLoad(t, selected, TRUE, before)
    /\ UNCHANGED <<served, locked, seen, known, shown, written, entered, status, refreshing,
                   editing>>

\* Bound: one text in the whole view.
Type ==
    /\ ViewReady /\ selected # None
    /\ written = <<None, {}, {}>> /\ \A c \in Convs : views[c].draft = None
    /\ events + 2 <= MaxEvents /\ events' = events + 2
    /\ draft' = selected
    /\ UNCHANGED <<served, locked, seen, known, shown, failures, sending, entered, status, tasks>>

\* send(): refused while offline, the draft stays.
Send ==
    /\ ViewReady /\ selected # None /\ ~offline
    /\ draft # None
    /\ sending' = sending \cup {selected}
    /\ draft' = None
    /\ UNCHANGED <<served, locked, seen, known, shown, failures, entered, status, tasks, events>>

SendSucceeds(c) ==
    /\ c \in sending
    /\ sending' = sending \ {c}
    /\ UNCHANGED <<served, locked, seen, known, shown, draft, failures, entered, status, tasks,
                   events>>

\* The text returns to the composer if that is still its own and empty.
SendFails(c) ==
    /\ c \in sending
    /\ sending' = sending \ {c}
    /\ failures' = IF locked THEN failures ELSE failures \cup {c}
    /\ draft' \in {draft} \cup
           (IF ~locked /\ draft = None /\ selected = c THEN {c} ELSE {})
    /\ UNCHANGED <<served, locked, seen, known, shown, entered, status, tasks, events>>

\* editFailed(), up to the await of its select: the failed message is one of the
\* conversation shown.
EditFailed(t) ==
    /\ ViewReady /\ ~Waits(t)
    /\ selected \in failures
    /\ StartLoad(t, selected, FALSE, 0)
    /\ editing' = editing \cup {<<t, selected>>}
    /\ UNCHANGED <<served, locked, seen, known, shown, written, entered, status, refreshing,
                   events>>

-----------------------------------------------------------------------------
(* clearPrivateView: everything private goes, requests under way with it.  *)
FaultClear ==
    /\ messages' = {} /\ before' = 0 /\ draft' = None /\ failures' = {}
    /\ views' = [c \in Convs |-> NoView]
    /\ restored' = FALSE /\ accepted' = FALSE
    /\ loading' = loading
    /\ UNCHANGED selected

Clear ==
    /\ messages' = {} /\ before' = 0 /\ draft' = None /\ failures' = {}
    /\ views' = [c \in Convs |-> NoView]
    /\ restored' = FALSE /\ accepted' = FALSE
    /\ loading' = DropLoads(loading)
    /\ UNCHANGED selected

\* snapshotGeneration: only the newest snapshot is looked at.
Outdate == [r \in RefreshTasks |->
               IF refreshing[r].step \in {"asked", "here"}
               THEN [Idle EXCEPT !.step = "asked", !.doomed = refreshing[r].doomed]
               ELSE refreshing[r]]

AskSnapshot(r) ==
    /\ refreshing[r].step = "idle"
    /\ r = Watch => ~halted
    /\ refreshing' = [Outdate EXCEPT ![r] = [Idle EXCEPT !.step = "asked", !.newest = TRUE]]
    /\ UNCHANGED <<served, locked, seen, known, shown, written, entered, status, loading,
                   editing, events>>

AnswerSnapshot(r) ==
    /\ refreshing[r].step = "asked" /\ refreshing[r].newest
    /\ refreshing' = [refreshing EXCEPT ![r] =
           [@ EXCEPT !.step = "here", !.shut = ~open, !.boot = boot,
                     !.revision = IF open THEN arrivals ELSE 0]]
    /\ UNCHANGED <<served, locked, seen, known, shown, written, entered, status, loading,
                   editing, events>>

Finish(r) == refreshing' = [refreshing EXCEPT ![r] = Idle]

\* The end of refresh().
Online == offline' = FALSE /\ halted' = FALSE

\* A later snapshot was asked for: this one is not looked at.
SnapshotOutdated(r) ==
    /\ refreshing[r].step = "asked"
    /\ ~refreshing[r].newest /\ ~refreshing[r].doomed
    /\ Finish(r)
    /\ UNCHANGED <<served, locked, seen, known, shown, written, entered, status, loading,
                   editing, events>>

\* The request fails, or the workspace was locked since: connectionFailed, even
\* for a snapshot nobody waits for any more.  watch() does not retry every error.
SnapshotFails(r) ==
    /\ refreshing[r].step = "asked"
    /\ Finish(r)
    /\ offline' = TRUE
    /\ halted' \in BOOLEAN
    /\ UNCHANGED <<served, locked, seen, known, shown, written, entered, stale, loading,
                   editing, events>>

Newest(r) == refreshing[r].step = "here"

\* The snapshot is of another service, or of another profile, than the last one.
Another(r) == refreshing[r].boot # known

SnapshotShut(r) ==
    /\ Newest(r) /\ refreshing[r].shut
    /\ IF locked /\ ~Another(r) THEN UNCHANGED <<shown, draft, failures, entered, loading>>
       ELSE Clear
    /\ locked' = TRUE
    /\ seen' = Unseen          \* the revision of a locked snapshot is no other's
    /\ known' = refreshing[r].boot
    /\ Finish(r)
    /\ Online
    /\ UNCHANGED <<served, sending, stale, editing, events>>

\* The session was closed and unlocked since: what the view shows goes, and it
\* starts again when its network is accepted.
SnapshotOfAnother(r) ==
    /\ Newest(r) /\ ~refreshing[r].shut
    /\ Another(r)
    /\ Clear
    /\ locked' = FALSE
    /\ seen' = refreshing[r].revision
    /\ known' = refreshing[r].boot
    /\ Finish(r)
    /\ Online
    /\ UNCHANGED <<served, sending, stale, editing, events>>

\* The first snapshot of a ready view selects the conversation that was last
\* selected in this tab, or the first one, and loads it.
SnapshotRestores(r) ==
    /\ Newest(r) /\ ~refreshing[r].shut /\ ~Another(r)
    /\ accepted /\ ~restored
    /\ locked' = FALSE
    /\ seen' = refreshing[r].revision
    /\ restored' = TRUE
    /\ \E c \in Convs : Switch(c) /\ StartLoad(r, c, FALSE, 0)
    /\ refreshing' = [refreshing EXCEPT ![r] =
           [Idle EXCEPT !.step = "restoring", !.changed = (seen # refreshing[r].revision)]]
    /\ UNCHANGED <<served, known, failures, sending, accepted, status, editing, events>>

\* Others reload the tail of the selected conversation if something changed.
ReloadsTail(changed) == (changed \/ stale \/ offline) /\ selected # None /\ accepted

SnapshotOpens(r) ==
    /\ Newest(r) /\ ~refreshing[r].shut /\ ~Another(r)
    /\ restored \/ ~accepted
    /\ locked' = FALSE
    /\ seen' = refreshing[r].revision
    /\ IF ReloadsTail(seen # refreshing[r].revision)
       THEN /\ StartLoad(r, selected, FALSE, 0)
            /\ refreshing' = [refreshing EXCEPT ![r] = [Idle EXCEPT !.step = "loading"]]
            /\ UNCHANGED <<offline, halted>>
       ELSE Finish(r) /\ Online /\ UNCHANGED loading
    /\ UNCHANGED <<served, known, shown, written, entered, stale, editing, events>>

\* refreshNetwork: the view is ready once the service has told that its network
\* is set up; an answer to a question from before a lock is not looked at.
NetworkAccepted ==
    /\ ~locked /\ ~accepted
    /\ accepted' = TRUE
    /\ UNCHANGED <<served, locked, seen, known, shown, written, restored, status, tasks, events>>

-----------------------------------------------------------------------------
AnswerLoad(t) ==
    /\ loading[t].step = "asked"
    /\ open
    /\ loading' = [loading EXCEPT ![t] =
                      [@ EXCEPT !.step = "here", !.upto = len[loading[t].conv]]]
    /\ UNCHANGED <<served, locked, seen, known, shown, written, entered, status, refreshing,
                   editing, events>>

(* What the task does once its load is over: refresh() goes on, editFailed *)
(* puts the failed text into the composer, whatever is selected by then.   *)
AfterLoad(t, newStale, failed) ==
    LET edits == {e \in editing : e[1] = t}
    IN /\ stale' = newStale
       /\ editing' = editing \ edits
       /\ draft' = IF edits = {} THEN draft ELSE (CHOOSE e \in edits : TRUE)[2]
       /\ failures' = failures \ {e[2] : e \in edits}
       /\ IF t \in UserTasks
          THEN /\ loading' = [loading EXCEPT ![t] = NoLoad]
               /\ UNCHANGED <<refreshing, offline, halted>>
          ELSE IF refreshing[t].step = "restoring" /\ ViewReady
                  /\ (refreshing[t].changed \/ newStale \/ offline)
          THEN /\ StartLoad(t, selected, FALSE, 0)
               /\ refreshing' = [refreshing EXCEPT ![t] = [Idle EXCEPT !.step = "loading"]]
               /\ UNCHANGED <<offline, halted>>
          ELSE /\ loading' = [loading EXCEPT ![t] = NoLoad]
               /\ refreshing' = [refreshing EXCEPT ![t] = Idle]
               /\ offline' = failed
               /\ halted' \in IF failed THEN BOOLEAN ELSE {FALSE}

LoadArrives(t) ==
    /\ loading[t].step = "here"
    /\ messages' = Merged(loading[t])
    /\ before' = MergedBefore(loading[t])
    /\ AfterLoad(t, FALSE, FALSE)
    /\ UNCHANGED <<served, locked, seen, known, selected, views, sending, entered, events>>

\* A page that is not looked at any more, or whose request failed.
LoadDropped(t) ==
    /\ loading[t].step = "dropped"
    /\ AfterLoad(t, stale, FALSE)
    /\ UNCHANGED <<served, locked, seen, known, shown, sending, entered, events>>

LoadFails(t) ==
    /\ loading[t].step = "asked"
    /\ AfterLoad(t, TRUE, t \in RefreshTasks /\ refreshing[t].step = "loading")
    /\ UNCHANGED <<served, locked, seen, known, shown, sending, entered, events>>

-----------------------------------------------------------------------------
Arrive(c) ==
    /\ arrivals < MaxArrivals /\ Happens
    /\ arrivals' = arrivals + 1
    /\ len' = [len EXCEPT ![c] = @ + 1]
    /\ UNCHANGED <<open, running, boot, request, locked, seen, known, shown, written, entered, status, tasks>>

(* Another view locks, disconnects or unlocks the session.                 *)
LockedElsewhere ==
    /\ open /\ Happens
    /\ open' = FALSE
    /\ UNCHANGED <<running, boot, len, arrivals, request, locked, seen, known, shown, written,
                   entered, status, tasks>>

\* The service is gone, or the whole process and another one starts.
Disconnected ==
    /\ running
    /\ events + 2 <= MaxEvents /\ events' = events + 2
    /\ open' = FALSE /\ running' = FALSE
    /\ boot' = boot + 1
    /\ UNCHANGED <<len, arrivals, request, locked, seen, known, shown, written, entered,
                   status, tasks>>

\* A locked service is opened again; without one, a new one is.
Unlocked ==
    /\ open' = TRUE /\ running' = TRUE
    /\ boot' = IF running THEN boot ELSE boot + 1

UnlockedElsewhere ==
    /\ ~open /\ Unlocked
    /\ UNCHANGED <<len, arrivals, request, locked, seen, known, shown, written, entered, status,
                   tasks, events>>

(* This view does.  A snapshot asked for before its lock will be an error. *)
AskLock ==
    /\ request = Quiet /\ ~locked /\ Happens
    /\ request' = [Quiet EXCEPT !.kind = "lock"]
    /\ refreshing' = [r \in RefreshTasks |->
                         IF refreshing[r].step \in {"asked", "here"}
                         THEN [Idle EXCEPT !.step = "asked", !.doomed = TRUE]
                         ELSE refreshing[r]]
    /\ UNCHANGED <<open, running, boot, len, arrivals, locked, seen, known, shown, written, entered, status,
                   loading, editing>>

AskUnlock ==
    /\ request = Quiet /\ locked
    /\ request' = [Quiet EXCEPT !.kind = "unlock"]
    /\ UNCHANGED <<open, running, boot, len, arrivals, locked, seen, known, shown, written, entered, status,
                   tasks, events>>

Serve ==
    /\ request.kind # "none" /\ ~request.done
    /\ IF request.kind = "unlock" THEN Unlocked
       ELSE running /\ open' = FALSE /\ UNCHANGED <<running, boot>>
    /\ request' = [kind |-> request.kind, done |-> TRUE, boot |-> boot',
                   revision |-> IF request.kind = "unlock" THEN arrivals ELSE 0]
    /\ UNCHANGED <<len, arrivals, locked, seen, known, shown, written, entered, status, tasks,
                   events>>

LockReply ==
    /\ request.kind = "lock" /\ request.done
    /\ request' = Quiet
    /\ locked' = TRUE /\ known' = request.boot
    /\ Clear
    /\ refreshing' = Outdate
    /\ UNCHANGED <<open, running, boot, len, arrivals, seen, sending, status, editing, events>>

UnlockReply ==
    /\ request.kind = "unlock" /\ request.done
    /\ request' = Quiet
    /\ locked' = FALSE
    /\ seen' = request.revision /\ known' = request.boot
    /\ refreshing' = Outdate
    /\ UNCHANGED <<open, running, boot, len, arrivals, shown, written, entered, status, loading, editing,
                   events>>

\* Refused, or its answer is lost.
RequestFails ==
    /\ request.kind # "none"
    /\ request' = Quiet
    /\ UNCHANGED <<open, running, boot, len, arrivals, locked, seen, known, shown, written, entered, status,
                   tasks, events>>

-----------------------------------------------------------------------------
RefreshStep(r) ==
    \/ AnswerSnapshot(r) \/ SnapshotOutdated(r)
    \/ SnapshotShut(r) \/ SnapshotOfAnother(r) \/ SnapshotRestores(r) \/ SnapshotOpens(r)

Next ==
    \/ \E t \in UserTasks : LoadOlder(t) \/ EditFailed(t) \/ (\E c \in Convs : Select(t, c))
    \/ \E c \in Convs : SendSucceeds(c) \/ SendFails(c) \/ Arrive(c)
    \/ \E r \in RefreshTasks : AskSnapshot(r) \/ SnapshotFails(r) \/ RefreshStep(r)
    \/ \E t \in Tasks : AnswerLoad(t) \/ LoadArrives(t) \/ LoadDropped(t) \/ LoadFails(t)
    \/ Type \/ Send
    \/ NetworkAccepted
    \/ LockedElsewhere \/ UnlockedElsewhere \/ Disconnected
    \/ AskLock \/ AskUnlock \/ Serve \/ LockReply \/ UnlockReply \/ RequestFails

Spec == Init /\ [][Next]_vars

-----------------------------------------------------------------------------
(* Correctness.                                                            *)

ServedOK ==
    /\ open \in BOOLEAN /\ running \in BOOLEAN /\ len \in Lengths /\ arrivals \in Revisions
    /\ request \in Request /\ boot \in Boots
    /\ events \in 0..MaxEvents

ViewOK ==
    /\ locked \in BOOLEAN /\ seen \in Revisions \cup {Unseen} /\ known \in Boots
    /\ selected \in Drafts /\ messages \in Shown /\ before \in 0..MaxMessages
    /\ views \in [Convs -> View]
    /\ draft \in Drafts /\ failures \subseteq Convs /\ sending \subseteq Convs
    /\ restored \in BOOLEAN /\ accepted \in BOOLEAN /\ stale \in BOOLEAN
    /\ offline \in BOOLEAN /\ halted \in BOOLEAN

Live(load) == load.step \in {"asked", "here"}

TasksOK ==
    /\ refreshing \in [RefreshTasks -> Refresh]
    /\ loading \in [Tasks -> Load]
    /\ editing \subseteq UserTasks \X Convs
    /\ \A r, q \in RefreshTasks : refreshing[r].newest /\ refreshing[q].newest => r = q
    /\ \A t, q \in Tasks : Live(loading[t]) /\ Live(loading[q]) => t = q

\* The shape of the service, the view and its tasks, of which at most one waits
\* for the newest snapshot and at most one for a page that will be looked at.
TypeOK == ServedOK /\ ViewOK /\ TasksOK

\* A locked view shows no message and keeps none, whichever answers were under
\* way when it was locked.
LockedIsBlank == locked => messages = {} /\ views = [c \in Convs |-> NoView]

Block(c, ms, b) ==
    \A m \in ms :
        /\ m[1] = c
        /\ b < m[2]
        /\ \A n \in Numbers : b < n /\ n < m[2] => <<c, n>> \in ms

\* What is shown, and what is kept of the other conversations, is one unbroken
\* run of that conversation's own messages, and the cursor is just above it:
\* no refresh, older page or switch in between leaves a gap or a stranger.
LoadedIsContiguous ==
    /\ Block(selected, messages, before)
    /\ \A c \in Convs : Block(c, views[c].messages, views[c].before)

Held(c) == IF c = selected THEN messages ELSE views[c].messages

\* A message that is shown is not taken back by an answer that was on its way:
\* the end of a conversation's history only moves forward, unless a lock or
\* another service clears the view.
TailNeverRegresses ==
    [][\/ locked' \/ known' # known
       \/ \A c \in Convs : \A m \in Held(c) : \E n \in Held(c)' : n[2] >= m[2]]_vars

=============================================================================
