-------------------------- MODULE WorkspaceViewProofs --------------------------
(***************************************************************************)
(* Theorems about WorkspaceView for any conversations, page size, number   *)
(* of tasks and bounds: its type, what a locked view shows, that what is   *)
(* loaded has no gap and that the end of a history only moves forward.     *)
(***************************************************************************)
EXTENDS WorkspaceView, TLAPS

-----------------------------------------------------------------------------
(* The inductive invariant.                                                *)

\* There are no more messages than can have arrived, nor services than events.
Counted ==
    /\ \A c \in Convs : len[c] <= OldMessages + arrivals
    /\ boot <= events + 1 /\ (~running => boot <= events)

\* The newest snapshot is still to be looked at; who loads has a selection.
Refreshes ==
    \A r \in RefreshTasks :
        /\ refreshing[r].newest => refreshing[r].step \in {"asked", "here"}
        /\ refreshing[r].step \in {"restoring", "loading"} => selected # None

\* A page that will be looked at is some conversation's.
Addressed == \A t \in Tasks : Live(loading[t]) => loading[t].conv \in Convs

TypeInv == TypeOK /\ Counted /\ Refreshes /\ Addressed

Blank ==
    locked => /\ messages = {} /\ views = [c \in Convs |-> NoView]
              /\ \A t \in Tasks : ~Live(loading[t])

\* What is loaded of a conversation begins at a page and ends where it ends.
Whole(c, ms, b, last) ==
    /\ Block(c, ms, b)
    /\ b <= PageBefore(last)
    /\ \A m \in ms : m[2] <= last

Blocks ==
    /\ IF selected = None THEN messages = {} /\ before = 0
       ELSE Whole(selected, messages, before, len[selected])
    /\ \A c \in Convs : Whole(c, views[c].messages, views[c].before, len[c])

\* A page that will be looked at belongs to what is shown.
Belongs(load) ==
    /\ selected # None /\ load.conv = selected
    /\ load.older => load.from = before /\ before > 0
    /\ load.step = "here" /\ ~load.older =>
          /\ before <= PageBefore(load.upto) /\ load.upto <= len[selected]
          /\ \A m \in messages : m[2] <= load.upto

Loads == \A t \in Tasks : Live(loading[t]) => Belongs(loading[t])

Core == Blank /\ Blocks /\ Loads

-----------------------------------------------------------------------------
(* What the operators return.                                              *)

LEMMA Bounds ==
    /\ MaxMessages \in Nat /\ MaxMessages = OldMessages + MaxArrivals
    /\ PageSize \in Nat /\ PageSize > 0
    /\ OldMessages \in Nat /\ MaxArrivals \in Nat /\ MaxEvents \in Nat
    /\ Unseen \in Nat
  BY ViewAssumption DEF MaxMessages, Unseen

LEMMA LoadConstants ==
    /\ NoLoad \in Load /\ NoLoad.step = "none" /\ ~Live(NoLoad)
    /\ Dropped \in Load /\ Dropped.step = "dropped" /\ ~Live(Dropped)
  <1>1. NoLoad \in Load
    BY Bounds DEF Load, NoLoad, Drafts
  <1>2. NoLoad.step = "none" /\ Dropped.step = "dropped"
    BY DEF NoLoad, Dropped
  <1>3. \A load \in Load : [load EXCEPT !.step = "dropped"] \in Load
    BY DEF Load
  <1>. QED
    BY <1>1, <1>2, <1>3 DEF Live, Dropped

LEMMA LoadsDropped ==
    ASSUME NEW loads
    PROVE  /\ DropLoads(loads) \in [Tasks -> Load]
           /\ \A t \in Tasks : ~Live(DropLoads(loads)[t])
  BY LoadConstants DEF DropLoads

\* A load that starts is the only one that will be looked at.
LEMMA LoadStarts ==
    ASSUME NEW t \in Tasks, NEW c \in Convs, NEW older \in BOOLEAN,
           NEW from \in 0..MaxMessages, StartLoad(t, c, older, from)
    PROVE  /\ loading' \in [Tasks -> Load]
           /\ loading'[t] = [step |-> "asked", conv |-> c, older |-> older, from |-> from,
                             upto |-> 0]
           /\ loading'[t].conv = c
           /\ \A u \in Tasks : Live(loading'[u]) => u = t
  <1>. DEFINE load == [step |-> "asked", conv |-> c, older |-> older, from |-> from,
                       upto |-> 0]
  <1>1. load \in Load
    BY Bounds DEF Load, Drafts
  <1>2. loading' = [DropLoads(loading) EXCEPT ![t] = load]
    BY DEF StartLoad
  <1>3. load.step = "asked" /\ load.conv = c
    OBVIOUS
  <1>. HIDE DEF load
  <1>4. /\ loading' \in [Tasks -> Load] /\ loading'[t] = load
        /\ \A u \in Tasks : u # t => loading'[u] = DropLoads(loading)[u]
    BY <1>1, <1>2, LoadsDropped
  <1>5. \A u \in Tasks : Live(loading'[u]) => u = t
    BY <1>4, LoadsDropped
  <1>. QED
    BY <1>3, <1>4, <1>5 DEF load

LEMMA RefreshIdle == Idle \in Refresh /\ ~Idle.newest /\ Idle.step = "idle"
  BY Bounds DEF Idle, Refresh, Revisions, Boots

\* What a refresh task may wait for once its own request is another's.
LEMMA RefreshSteps ==
    ASSUME NEW doomed \in BOOLEAN
    PROVE  /\ [Idle EXCEPT !.step = "asked", !.doomed = doomed] \in Refresh
           /\ [Idle EXCEPT !.step = "asked", !.newest = TRUE] \in Refresh
           /\ [Idle EXCEPT !.step = "loading"] \in Refresh
           /\ [Idle EXCEPT !.step = "restoring", !.changed = doomed] \in Refresh
  <1>. DEFINE Steps == {"asked", "here", "restoring", "loading"}
  <1>1. Idle \in Refresh
    BY RefreshIdle
  <1>2. \A old \in Refresh, step \in Steps :
           /\ [old EXCEPT !.step = step] \in Refresh
           /\ [old EXCEPT !.step = step, !.doomed = doomed] \in Refresh
           /\ [old EXCEPT !.step = step, !.newest = TRUE] \in Refresh
           /\ [old EXCEPT !.step = step, !.changed = doomed] \in Refresh
    BY DEF Refresh
  <1>. QED
    BY <1>1, <1>2

Outlived(refreshes, old) ==
    \A r \in RefreshTasks :
        /\ ~refreshes[r].newest
        /\ refreshes[r].step \in {"restoring", "loading"} =>
               refreshes[r] = old[r]

LEMMA OutdateType ==
    ASSUME TasksOK, Refreshes
    PROVE  Outdate \in [RefreshTasks -> Refresh] /\ Outlived(Outdate, refreshing)
  <1>. SUFFICES ASSUME NEW r \in RefreshTasks
                PROVE  /\ Outdate[r] \in Refresh /\ ~Outdate[r].newest
                       /\ Outdate[r].step \in {"restoring", "loading"} =>
                              Outdate[r] = refreshing[r]
    BY DEF Outlived, Outdate
  <1>1. refreshing[r] \in Refresh /\ refreshing[r].doomed \in BOOLEAN
    BY DEF TasksOK, Refresh
  <1>2. CASE refreshing[r].step \in {"asked", "here"}
    <2>1. Outdate[r] = [Idle EXCEPT !.step = "asked", !.doomed = refreshing[r].doomed]
      BY <1>2 DEF Outdate
    <2>2. Outdate[r].step = "asked" /\ ~Outdate[r].newest
      BY <2>1 DEF Idle
    <2>. QED
      BY <1>1, <2>1, <2>2, RefreshSteps
  <1>3. CASE refreshing[r].step \notin {"asked", "here"}
    <2>1. Outdate[r] = refreshing[r]
      BY <1>3 DEF Outdate
    <2>2. ~refreshing[r].newest
      BY <1>3, <1>1 DEF Refreshes, Refresh
    <2>. QED
      BY <2>1, <2>2, <1>1
  <1>. QED
    BY <1>2, <1>3

LEMMA PageType ==
    ASSUME NEW c \in Convs, NEW last
    PROVE  Page(c, last) \in Shown
  BY DEF Page, Shown

LEMMA PageBeforeType ==
    ASSUME NEW last \in Nat
    PROVE  /\ PageBefore(last) \in 0..last
           /\ PageBefore(last) + PageSize >= last
           /\ last > 0 => PageBefore(last) < last
           /\ \A later \in Nat : last <= later => PageBefore(last) <= PageBefore(later)
  BY Bounds DEF PageBefore

\* A page is the messages between its two ends.
LEMMA PageIs ==
    ASSUME NEW c \in Convs, NEW last \in 0..MaxMessages
    PROVE  Page(c, last) = {<<c, n>> : n \in {k \in Numbers : PageBefore(last) < k /\ k <= last}}
  <1>1. \A k \in Numbers : k + PageSize > last <=> PageBefore(last) < k
    BY Bounds DEF PageBefore, Numbers
  <1>. QED
    BY <1>1 DEF Page

-----------------------------------------------------------------------------
(* Type correctness: the service.                                          *)

LEMMA ServedCounts ==
    ASSUME ServedOK, Counted, UNCHANGED <<running, boot, len, arrivals>>,
           events' \in events..MaxEvents, open' \in BOOLEAN, request' \in Request
    PROVE  ServedOK' /\ Counted'
  <1>1. /\ events \in Nat /\ boot \in Nat /\ boot <= events + 1
        /\ events' \in 0..MaxEvents /\ events <= events'
    BY Bounds DEF ServedOK, Counted, Boots
  <1>2. \A e, f, b \in Nat :
           e <= f => /\ b <= e + 1 => b <= f + 1
                     /\ b <= e => b <= f
    OBVIOUS
  <1>3. events' \in Nat
    BY <1>1, Bounds
  <1>4. boot' <= events' + 1 /\ (~running' => boot' <= events')
    BY <1>1, <1>2, <1>3 DEF Counted
  <1>5. \A c \in Convs : len'[c] <= OldMessages + arrivals'
    BY DEF Counted
  <1>6. /\ running' \in BOOLEAN /\ boot' \in Boots /\ len' \in Lengths
        /\ arrivals' \in Revisions
    BY DEF ServedOK
  <1>. QED
    BY <1>1, <1>4, <1>5, <1>6 DEF ServedOK, Counted

LEMMA ServedKept ==
    ASSUME ServedOK, Counted, UNCHANGED served, events' \in events..MaxEvents
    PROVE  ServedOK' /\ Counted'
  <1>1. /\ UNCHANGED <<running, boot, len, arrivals>>
        /\ open' \in BOOLEAN /\ request' \in Request
    BY DEF ServedOK, served
  <1>. QED
    BY <1>1, ServedCounts

\* The service is gone, or opened again.
LEMMA ServiceChanges ==
    ASSUME ServedOK, Counted
    PROVE  /\ Disconnected => /\ boot' \in Boots /\ boot' <= events' /\ events' \in 0..MaxEvents
                              /\ boot' <= events' + 1
                              /\ open' \in BOOLEAN /\ running' = FALSE
           /\ Unlocked => /\ boot' \in Boots /\ boot' <= events + 1
                          /\ open' \in BOOLEAN /\ running' = TRUE
  <1>1. /\ events \in 0..MaxEvents /\ boot \in Nat /\ boot <= events + 1 /\ boot \in Boots
        /\ ~running => boot <= events
    BY Bounds DEF ServedOK, Counted, Boots
  <1>2. /\ boot <= events => boot + 1 \in Boots /\ boot + 1 <= events + 1
        /\ events + 2 <= MaxEvents =>
              /\ boot + 1 \in Boots /\ boot + 1 <= events + 2
              /\ boot + 1 <= events + 2 + 1 /\ events + 2 \in 0..MaxEvents
    BY <1>1, Bounds DEF Boots
  <1>3. ASSUME Disconnected
        PROVE  /\ boot' \in Boots /\ boot' <= events' /\ events' \in 0..MaxEvents
               /\ boot' <= events' + 1 /\ open' \in BOOLEAN /\ running' = FALSE
    <2>1. /\ events' = events + 2 /\ events + 2 <= MaxEvents /\ boot' = boot + 1
          /\ open' = FALSE /\ running' = FALSE
      BY <1>3 DEF Disconnected
    <2>. QED
      BY <1>2, <2>1
  <1>4. ASSUME Unlocked
        PROVE  /\ boot' \in Boots /\ boot' <= events + 1
               /\ open' \in BOOLEAN /\ running' = TRUE
    <2>1. open' = TRUE /\ running' = TRUE /\ boot' = IF running THEN boot ELSE boot + 1
      BY <1>4 DEF Unlocked
    <2>2. CASE running
      BY <1>1, <2>1, <2>2
    <2>3. CASE ~running
      BY <1>1, <1>2, <2>1, <2>3
    <2>. QED
      BY <2>1, <2>2, <2>3
  <1>. QED
    BY <1>3, <1>4

LEMMA ServedStep ==
    ASSUME ServedOK, Counted, [Next]_vars
    PROVE  ServedOK' /\ Counted'
  <1>1. /\ events \in 0..MaxEvents /\ events \in events..MaxEvents
        /\ Happens => events' \in events..MaxEvents
    BY Bounds DEF ServedOK, Happens
  <1>2. CASE UNCHANGED vars
    BY <1>1, <1>2, ServedKept DEF vars
  <1>3. CASE \E t \in UserTasks : LoadOlder(t) \/ EditFailed(t) \/ (\E c \in Convs : Select(t, c))
    BY <1>1, <1>3, ServedKept DEF LoadOlder, EditFailed, Select
  <1>4. CASE \E c \in Convs : SendSucceeds(c) \/ SendFails(c)
    BY <1>1, <1>4, ServedKept DEF SendSucceeds, SendFails
  <1>5. CASE \E c \in Convs : Arrive(c)
    <2>1. PICK c \in Convs : Arrive(c)
      BY <1>5
    <2>2. arrivals' \in Revisions /\ arrivals' = arrivals + 1
      BY <2>1, Bounds DEF Arrive, ServedOK, Revisions
    <2>3. len \in Lengths /\ len' = [len EXCEPT ![c] = @ + 1] /\ arrivals \in Revisions
      BY <2>1 DEF Arrive, ServedOK
    <2>4. \A d \in Convs : len'[d] \in 0..MaxMessages /\ len'[d] <= OldMessages + arrivals'
      BY <2>2, <2>3, Bounds DEF Lengths, Revisions, Counted
    <2>5. len' \in Lengths
      BY <2>3, <2>4 DEF Lengths
    <2>6. /\ UNCHANGED <<open, running, boot, request>> /\ events' = events + 1
          /\ events' \in 0..MaxEvents
      BY <1>1, <2>1, Bounds DEF Arrive, Happens
    <2>7. boot <= events + 1 /\ boot <= events + 1 + 1
      BY <1>1, Bounds DEF ServedOK, Counted, Boots
    <2>8. boot <= events => boot <= events + 1
      BY <2>7
    <2>9. boot' <= events' + 1 /\ (~running' => boot' <= events')
      BY <2>6, <2>7, <2>8 DEF Counted
    <2>. QED
      BY <2>2, <2>4, <2>5, <2>6, <2>9 DEF ServedOK, Counted
  <1>6. CASE \E r \in RefreshTasks : AskSnapshot(r) \/ SnapshotFails(r)
    BY <1>1, <1>6, ServedKept DEF AskSnapshot, SnapshotFails
  <1>7. CASE \E r \in RefreshTasks : RefreshStep(r)
    BY <1>1, <1>7, ServedKept
       DEF RefreshStep, AnswerSnapshot, SnapshotOutdated, SnapshotShut, SnapshotOfAnother,
           SnapshotRestores, SnapshotOpens
  <1>8. CASE \E t \in Tasks : AnswerLoad(t) \/ LoadArrives(t) \/ LoadDropped(t) \/ LoadFails(t)
    BY <1>1, <1>8, ServedKept DEF AnswerLoad, LoadArrives, LoadDropped, LoadFails
  <1>9. CASE Type
    <2>1. events' \in events..MaxEvents /\ UNCHANGED served
      BY <1>1, <1>9, Bounds DEF Type
    <2>. QED
      BY <2>1, ServedKept
  <1>10. CASE Send \/ NetworkAccepted
    BY <1>1, <1>10, ServedKept DEF Send, NetworkAccepted
  <1>11. CASE LockedElsewhere
    <2>1. events' \in events..MaxEvents /\ open' \in BOOLEAN
      BY <1>1, <1>11 DEF LockedElsewhere
    <2>2. UNCHANGED <<running, boot, len, arrivals>> /\ request' \in Request
      BY <1>11 DEF LockedElsewhere, ServedOK
    <2>. QED
      BY <2>1, <2>2, ServedCounts
  <1>12. CASE Disconnected
    <2>1. UNCHANGED <<len, arrivals, request>>
      BY <1>12 DEF Disconnected
    <2>. QED
      BY <1>12, <2>1, ServiceChanges DEF ServedOK, Counted
  <1>13. CASE UnlockedElsewhere
    <2>1. Unlocked /\ UNCHANGED <<len, arrivals, request, events>>
      BY <1>13 DEF UnlockedElsewhere
    <2>. QED
      BY <2>1, ServiceChanges DEF ServedOK, Counted
  <1>14. CASE AskLock \/ AskUnlock \/ Serve \/ LockReply \/ UnlockReply \/ RequestFails
    <2>1. /\ Quiet \in Request
          /\ \A old \in Request, kind \in {"lock", "unlock"} :
                 [old EXCEPT !.kind = kind] \in Request
      BY Bounds DEF Quiet, Request, Revisions, Boots
    <2>2. CASE Serve
      <3>1. /\ request.kind \in {"none", "lock", "unlock"}
            /\ (IF request.kind = "unlock" THEN arrivals ELSE 0) \in Revisions
        BY Bounds DEF ServedOK, Request, Revisions
      <3>2. UNCHANGED <<len, arrivals, events>>
        BY <2>2 DEF Serve
      <3>3. boot' \in Boots => request' \in Request
        BY <2>2, <3>1 DEF Serve, Request
      <3>4. CASE Unlocked
        BY <3>2, <3>3, <3>4, ServiceChanges DEF ServedOK, Counted
      <3>5. CASE open' = FALSE /\ UNCHANGED <<running, boot>>
        BY <3>2, <3>3, <3>5 DEF ServedOK, Counted
      <3>. QED
        BY <2>2, <3>4, <3>5 DEF Serve
    <2>3. CASE AskLock \/ AskUnlock \/ LockReply \/ UnlockReply \/ RequestFails
      <3>1. events' \in events..MaxEvents
        BY <1>1, <2>3 DEF AskLock, AskUnlock, LockReply, UnlockReply, RequestFails
      <3>2. request' \in Request
        BY <2>1, <2>3 DEF AskLock, AskUnlock, LockReply, UnlockReply, RequestFails, ServedOK
      <3>3. UNCHANGED <<running, boot, len, arrivals>> /\ open' \in BOOLEAN
        BY <2>3 DEF AskLock, AskUnlock, LockReply, UnlockReply, RequestFails, ServedOK
      <3>. QED
        BY <3>1, <3>2, <3>3, ServedCounts
    <2>. QED
      BY <1>14, <2>2, <2>3
  <1>. QED
    BY <1>2, <1>3, <1>4, <1>5, <1>6, <1>7, <1>8, <1>9, <1>10, <1>11, <1>12,
       <1>13, <1>14 DEF Next

-----------------------------------------------------------------------------
(* Type correctness: the tasks.                                            *)

LoadsTyped ==
    /\ loading \in [Tasks -> Load]
    /\ \A t, q \in Tasks : Live(loading[t]) /\ Live(loading[q]) => t = q
    /\ Addressed

RefreshesTyped ==
    /\ refreshing \in [RefreshTasks -> Refresh]
    /\ \A r, q \in RefreshTasks : refreshing[r].newest /\ refreshing[q].newest => r = q
    /\ Refreshes

LEMMA StartTyped ==
    ASSUME NEW t \in Tasks, NEW c \in Convs, NEW older \in BOOLEAN,
           NEW from \in 0..MaxMessages, StartLoad(t, c, older, from)
    PROVE  LoadsTyped'
  <1>1. /\ loading' \in [Tasks -> Load] /\ loading'[t].conv = c
        /\ \A u \in Tasks : Live(loading'[u]) => u = t
    BY LoadStarts
  <1>2. \A u, q \in Tasks : Live(loading'[u]) /\ Live(loading'[q]) => u = q
    BY <1>1
  <1>. QED
    BY <1>1, <1>2 DEF LoadsTyped, Addressed

\* The tail of the selected conversation.
LEMMA TailTyped ==
    ASSUME NEW t \in Tasks, NEW c \in Convs, StartLoad(t, c, FALSE, 0)
    PROVE  LoadsTyped'
  <1>1. FALSE \in BOOLEAN /\ 0 \in 0..MaxMessages
    BY Bounds
  <1>. QED
    BY <1>1, StartTyped, Zenon

LEMMA DropTyped ==
    ASSUME loading' = DropLoads(loading)
    PROVE  LoadsTyped' /\ \A t \in Tasks : ~Live(loading[t])'
  BY LoadsDropped DEF LoadsTyped, Addressed, Live

LEMMA KeepTyped ==
    ASSUME LoadsTyped, UNCHANGED loading
    PROVE  LoadsTyped'
  BY DEF LoadsTyped, Addressed, Live

LEMMA EndTyped ==
    ASSUME LoadsTyped, NEW t \in Tasks, loading' = [loading EXCEPT ![t] = NoLoad]
    PROVE  LoadsTyped'
  BY LoadConstants DEF LoadsTyped, Addressed, Live

LEMMA AnswerTyped ==
    ASSUME LoadsTyped, ServedOK, NEW t \in Tasks, AnswerLoad(t)
    PROVE  /\ LoadsTyped'
           /\ loading'[t] = [loading[t] EXCEPT !.step = "here", !.upto = len[loading[t].conv]]
           /\ \A u \in Tasks : u # t => loading'[u] = loading[u]
  <1>1. loading[t] \in Load /\ loading[t].step = "asked" /\ loading[t].conv \in Convs
    BY DEF LoadsTyped, Addressed, AnswerLoad, Live
  <1>. DEFINE upto == len[loading[t].conv]
  <1>2. upto \in 0..MaxMessages
    BY <1>1 DEF ServedOK, Lengths
  <1>3. loading' = [loading EXCEPT ![t] = [loading[t] EXCEPT !.step = "here", !.upto = upto]]
    BY DEF AnswerLoad
  <1>. HIDE DEF upto
  <1>. DEFINE load == [loading[t] EXCEPT !.step = "here", !.upto = upto]
  <1>4. load \in Load /\ load.conv = loading[t].conv
    BY <1>1, <1>2 DEF Load
  <1>. HIDE DEF load
  <1>5. /\ loading' \in [Tasks -> Load] /\ loading'[t] = load
        /\ \A u \in Tasks : u # t => loading'[u] = loading[u]
    BY <1>3, <1>4 DEF LoadsTyped, load
  <1>6. Live(loading[t])
    BY <1>1 DEF Live
  <1>7. LoadsTyped'
    BY <1>1, <1>4, <1>5, <1>6 DEF LoadsTyped, Addressed, Live
  <1>. QED
    BY <1>5, <1>7 DEF load, upto

LEMMA OutdatedTyped ==
    ASSUME RefreshesTyped, selected # None => selected' # None, TasksOK
    PROVE  /\ refreshing' = Outdate => RefreshesTyped'
           /\ \A r \in RefreshTasks :
                 refreshing' = [Outdate EXCEPT
                     ![r] = [Idle EXCEPT !.step = "asked", !.newest = TRUE]] => RefreshesTyped'
  <1>1. Outdate \in [RefreshTasks -> Refresh] /\ Outlived(Outdate, refreshing)
    BY OutdateType DEF RefreshesTyped
  <1>2. \A r \in RefreshTasks :
           /\ ~Outdate[r].newest
           /\ Outdate[r].step \in {"restoring", "loading"} => selected' # None
    BY <1>1 DEF Outlived, RefreshesTyped, Refreshes
  <1>3. ASSUME refreshing' = Outdate PROVE RefreshesTyped'
    BY <1>1, <1>2, <1>3 DEF RefreshesTyped, Refreshes
  <1>. DEFINE asked == [Idle EXCEPT !.step = "asked", !.newest = TRUE]
  <1>4. asked \in Refresh /\ asked.step = "asked"
    BY RefreshSteps DEF Idle
  <1>. HIDE DEF asked
  <1>5. ASSUME NEW r \in RefreshTasks, refreshing' = [Outdate EXCEPT ![r] = asked]
        PROVE  RefreshesTyped'
    <2>1. /\ refreshing' \in [RefreshTasks -> Refresh] /\ refreshing'[r] = asked
          /\ \A q \in RefreshTasks : q # r => refreshing'[q] = Outdate[q]
      BY <1>1, <1>4, <1>5
    <2>. QED
      BY <1>2, <1>4, <2>1 DEF RefreshesTyped, Refreshes
  <1>. QED
    BY <1>3, <1>5 DEF asked

\* One task goes on to another request, or to none.
LEMMA OneRefreshTyped ==
    ASSUME RefreshesTyped, selected # None => selected' # None,
           NEW r \in RefreshTasks, NEW new \in Refresh,
           refreshing' = [refreshing EXCEPT ![r] = new],
           new.newest => refreshing[r].newest /\ new.step \in {"asked", "here"},
           new.step \in {"restoring", "loading"} => selected' # None
    PROVE  RefreshesTyped'
  <1>1. /\ refreshing' \in [RefreshTasks -> Refresh] /\ refreshing'[r] = new
        /\ \A q \in RefreshTasks : q # r => refreshing'[q] = refreshing[q]
    BY DEF RefreshesTyped
  <1>. QED
    BY <1>1 DEF RefreshesTyped, Refreshes

LEMMA FinishedTyped ==
    ASSUME RefreshesTyped, selected # None => selected' # None, NEW r \in RefreshTasks
    PROVE  /\ Finish(r) => RefreshesTyped'
           /\ \A changed \in BOOLEAN :
                 /\ refreshing' = [refreshing EXCEPT ![r] =
                                     [Idle EXCEPT !.step = "restoring", !.changed = changed]]
                 /\ selected' # None
                 => RefreshesTyped'
           /\ /\ refreshing' = [refreshing EXCEPT ![r] = [Idle EXCEPT !.step = "loading"]]
              /\ selected' # None
              => RefreshesTyped'
  <1>1. ASSUME Finish(r) PROVE RefreshesTyped'
    BY <1>1, RefreshIdle, OneRefreshTyped DEF Finish
  <1>2. ASSUME NEW changed \in BOOLEAN, selected' # None,
               refreshing' = [refreshing EXCEPT ![r] =
                                 [Idle EXCEPT !.step = "restoring", !.changed = changed]]
        PROVE  RefreshesTyped'
    <2>. DEFINE new == [Idle EXCEPT !.step = "restoring", !.changed = changed]
    <2>1. new \in Refresh /\ ~new.newest
      BY RefreshSteps DEF Idle
    <2>. HIDE DEF new
    <2>2. refreshing' = [refreshing EXCEPT ![r] = new]
      BY <1>2 DEF new
    <2>. QED
      BY <1>2, <2>1, <2>2, OneRefreshTyped
  <1>3. ASSUME selected' # None,
               refreshing' = [refreshing EXCEPT ![r] = [Idle EXCEPT !.step = "loading"]]
        PROVE  RefreshesTyped'
    <2>. DEFINE new == [Idle EXCEPT !.step = "loading"]
    <2>1. new \in Refresh /\ ~new.newest
      BY RefreshSteps DEF Idle
    <2>. HIDE DEF new
    <2>2. refreshing' = [refreshing EXCEPT ![r] = new]
      BY <1>3 DEF new
    <2>. QED
      BY <1>3, <2>1, <2>2, OneRefreshTyped
  <1>. QED
    BY <1>1, <1>2, <1>3

LEMMA AnsweredTyped ==
    ASSUME RefreshesTyped, ServedOK, UNCHANGED selected,
           NEW r \in RefreshTasks, AnswerSnapshot(r)
    PROVE  RefreshesTyped'
  <1>. DEFINE shut == ~open
              revision == IF open THEN arrivals ELSE 0
              new == [refreshing[r] EXCEPT !.step = "here", !.shut = shut, !.boot = boot,
                                           !.revision = revision]
  <1>1. shut \in BOOLEAN /\ revision \in Revisions /\ boot \in Boots
    BY Bounds DEF ServedOK, Revisions
  <1>2. refreshing' = [refreshing EXCEPT ![r] = new]
    BY DEF AnswerSnapshot
  <1>3. refreshing[r] \in Refresh
    BY DEF RefreshesTyped
  <1>. HIDE DEF shut, revision
  <1>4. new \in Refresh /\ new.step = "here" /\ new.newest = refreshing[r].newest
    BY <1>1, <1>3 DEF Refresh
  <1>. HIDE DEF new
  <1>. QED
    BY <1>2, <1>4, OneRefreshTyped

LEMMA DoomedTyped ==
    ASSUME RefreshesTyped, UNCHANGED selected, AskLock
    PROVE  RefreshesTyped'
  <1>1. ASSUME NEW r \in RefreshTasks
        PROVE  /\ refreshing'[r] \in Refresh /\ ~refreshing'[r].newest
               /\ refreshing'[r].step \in {"restoring", "loading"} => selected # None
    <2>1. refreshing[r] \in Refresh
      BY DEF RefreshesTyped
    <2>2. CASE refreshing[r].step \in {"asked", "here"}
      <3>1. refreshing'[r] = [Idle EXCEPT !.step = "asked", !.doomed = TRUE]
        BY <2>2 DEF AskLock
      <3>. QED
        BY <3>1, RefreshSteps DEF Idle
    <2>3. CASE refreshing[r].step \notin {"asked", "here"}
      <3>1. refreshing'[r] = refreshing[r]
        BY <2>3 DEF AskLock
      <3>. QED
        BY <2>1, <2>3, <3>1 DEF RefreshesTyped, Refreshes, Refresh
    <2>. QED
      BY <2>2, <2>3
  <1>2. refreshing' = [r \in RefreshTasks |-> refreshing'[r]]
    BY DEF AskLock
  <1>3. refreshing' \in [RefreshTasks -> Refresh]
    BY <1>1, <1>2
  <1>. QED
    BY <1>1, <1>3 DEF RefreshesTyped, Refreshes

-----------------------------------------------------------------------------
(* Type correctness: the view.                                             *)

Edits == editing \subseteq UserTasks \X Convs

LEMMA TypeParts ==
    /\ TypeInv <=> /\ ServedOK /\ Counted /\ ViewOK
                   /\ LoadsTyped /\ RefreshesTyped /\ Edits
    /\ TypeInv' <=> /\ ServedOK' /\ Counted' /\ ViewOK'
                    /\ LoadsTyped' /\ RefreshesTyped' /\ Edits'
  BY DEF TypeInv, TypeOK, TasksOK, LoadsTyped, RefreshesTyped, Edits

LEMMA NoViewType == NoView \in View
  BY Bounds DEF NoView, View, Shown, Drafts

LEMMA SwitchTyped ==
    ASSUME ViewOK, NEW c \in Convs, Switch(c)
    PROVE  /\ selected' = c
           /\ messages' \in Shown /\ before' \in 0..MaxMessages /\ draft' \in Drafts
           /\ views' \in [Convs -> View]
  <1>1. CASE c = selected
    BY <1>1 DEF Switch, ViewOK, shown
  <1>2. CASE c # selected
    <2>1. /\ views[c].messages \in Shown /\ views[c].before \in 0..MaxMessages
          /\ views[c].draft \in Drafts
      BY DEF ViewOK, View
    <2>2. [messages |-> messages, before |-> before, draft |-> draft] \in View
      BY DEF ViewOK, View
    <2>3. views' \in [Convs -> View]
      BY <1>2, <2>2 DEF Switch, ViewOK
    <2>. QED
      BY <1>2, <2>1, <2>3 DEF Switch
  <1>. QED
    BY <1>1, <1>2

LEMMA ClearTyped ==
    ASSUME ViewOK, Clear
    PROVE  /\ UNCHANGED selected /\ LoadsTyped'
           /\ messages' \in Shown /\ before' \in 0..MaxMessages /\ draft' \in Drafts
           /\ failures' \subseteq Convs /\ views' \in [Convs -> View]
           /\ restored' \in BOOLEAN /\ accepted' \in BOOLEAN
  <1>1. views' \in [Convs -> View]
    BY NoViewType DEF Clear
  <1>2. LoadsTyped'
    BY DropTyped DEF Clear
  <1>3. messages' = {} /\ before' = 0 /\ draft' = None /\ failures' = {}
    BY DEF Clear
  <1>4. UNCHANGED selected /\ restored' = FALSE /\ accepted' = FALSE
    BY DEF Clear
  <1>5. {} \in Shown /\ 0 \in 0..MaxMessages /\ None \in Drafts /\ {} \subseteq Convs
    BY Bounds DEF Shown, Drafts
  <1>. QED
    BY <1>1, <1>2, <1>3, <1>4, <1>5

LEMMA MergedTyped ==
    ASSUME ViewOK, NEW load \in Load, load.conv \in Convs
    PROVE  Merged(load) \in Shown /\ MergedBefore(load) \in 0..MaxMessages
  <1>1. /\ load.from \in 0..MaxMessages /\ load.upto \in 0..MaxMessages
        /\ messages \in Shown /\ before \in 0..MaxMessages
    BY DEF Load, ViewOK
  <1>2. Merged(load) \in Shown
    <2>1. Page(load.conv, load.from) \in Shown /\ Page(load.conv, load.upto) \in Shown
      BY PageType
    <2>. QED
      BY <1>1, <2>1 DEF Merged, Shown
  <1>3. PageBefore(load.from) \in 0..MaxMessages /\ PageBefore(load.upto) \in 0..MaxMessages
    BY <1>1, Bounds DEF PageBefore
  <1>. QED
    BY <1>1, <1>2, <1>3 DEF MergedBefore

\* What comes after a load, whatever became of it.
LEMMA AfterLoadTyped ==
    ASSUME TypeInv, NEW t \in Tasks, NEW newStale \in BOOLEAN, NEW failed \in BOOLEAN,
           AfterLoad(t, newStale, failed), UNCHANGED selected
    PROVE  /\ LoadsTyped' /\ RefreshesTyped' /\ Edits'
           /\ draft' \in Drafts /\ failures' \subseteq Convs
           /\ stale' \in BOOLEAN /\ offline' \in BOOLEAN /\ halted' \in BOOLEAN
  <1>. DEFINE edits == {e \in editing : e[1] = t}
  <1>1. Edits' /\ stale' \in BOOLEAN /\ failures' \subseteq Convs
    BY TypeParts DEF AfterLoad, Edits, ViewOK
  <1>2. draft' \in Drafts
    <2>1. CASE edits = {}
      BY <2>1, TypeParts DEF AfterLoad, ViewOK
    <2>2. CASE edits # {}
      <3>1. (CHOOSE e \in edits : TRUE) \in edits
        BY <2>2
      <3>2. (CHOOSE e \in edits : TRUE)[2] \in Convs
        BY <3>1, TypeParts DEF Edits
      <3>. QED
        BY <2>2, <3>2 DEF AfterLoad, Drafts
    <2>. QED
      BY <2>1, <2>2
  <1>3. CASE t \in UserTasks
    BY <1>1, <1>2, <1>3, TypeParts, EndTyped
       DEF AfterLoad, ViewOK, RefreshesTyped, Refreshes
  <1>4. CASE t \notin UserTasks
    <2>1. t \in RefreshTasks
      BY <1>4 DEF Tasks
    <2>2. CASE /\ refreshing[t].step = "restoring" /\ ViewReady
               /\ refreshing[t].changed \/ newStale \/ offline
      <3>1. selected \in Convs /\ selected' # None
        BY <2>1, <2>2, TypeParts DEF RefreshesTyped, Refreshes, ViewOK, Drafts
      <3>2. /\ StartLoad(t, selected, FALSE, 0)
            /\ refreshing' = [refreshing EXCEPT ![t] = [Idle EXCEPT !.step = "loading"]]
            /\ UNCHANGED <<offline, halted>>
        BY <1>4, <2>2 DEF AfterLoad
      <3>3. LoadsTyped'
        BY <3>1, <3>2, TailTyped
      <3>4. RefreshesTyped'
        BY <2>1, <3>1, <3>2, TypeParts, FinishedTyped
      <3>. QED
        BY <1>1, <1>2, <3>2, <3>3, <3>4, TypeParts DEF ViewOK
    <2>3. CASE ~(/\ refreshing[t].step = "restoring" /\ ViewReady
                 /\ refreshing[t].changed \/ newStale \/ offline)
      <3>1. /\ loading' = [loading EXCEPT ![t] = NoLoad]
            /\ Finish(t) /\ offline' = failed /\ halted' \in BOOLEAN
        BY <1>4, <2>3 DEF AfterLoad, Finish
      <3>2. LoadsTyped' /\ RefreshesTyped'
        BY <2>1, <3>1, TypeParts, EndTyped, FinishedTyped
      <3>. QED
        BY <1>1, <1>2, <3>1, <3>2
    <2>. QED
      BY <2>2, <2>3
  <1>. QED
    BY <1>3, <1>4

LEMMA TasksKept ==
    ASSUME TypeInv, UNCHANGED <<tasks, selected>>
    PROVE  LoadsTyped' /\ RefreshesTyped' /\ Edits'
  BY TypeParts DEF tasks, LoadsTyped, Addressed, Live, RefreshesTyped, Refreshes, Edits

\* The steps that touch no task.
LEMMA TypeViewStep ==
    ASSUME TypeInv,
           \/ Type \/ Send \/ NetworkAccepted
           \/ \E c \in Convs : SendSucceeds(c) \/ SendFails(c) \/ Arrive(c)
           \/ LockedElsewhere \/ UnlockedElsewhere \/ Disconnected
           \/ AskUnlock \/ Serve \/ RequestFails \/ UNCHANGED vars
    PROVE  ViewOK' /\ LoadsTyped' /\ RefreshesTyped' /\ Edits'
  <1>. USE TypeParts DEF ViewOK, shown, written, entered, status
  <1>1. CASE Type \/ Send \/ NetworkAccepted
    <2>1. selected # None => selected \in Drafts
      OBVIOUS
    <2>. QED
      BY <1>1, <2>1, TasksKept DEF Type, Send, NetworkAccepted, Drafts, tasks
  <1>2. CASE \E c \in Convs : SendSucceeds(c) \/ Arrive(c)
    BY <1>2, TasksKept DEF SendSucceeds, Arrive
  <1>3. CASE \E c \in Convs : SendFails(c)
    <2>1. PICK c \in Convs : SendFails(c)
      BY <1>3
    <2>2. draft' \in Drafts /\ failures' \subseteq Convs /\ sending' \subseteq Convs
      BY <2>1 DEF SendFails, Drafts
    <2>. QED
      BY <2>1, <2>2, TasksKept DEF SendFails
  <1>4. CASE LockedElsewhere \/ UnlockedElsewhere \/ Disconnected
    BY <1>4, TasksKept DEF LockedElsewhere, UnlockedElsewhere, Disconnected
  <1>5. CASE AskUnlock \/ Serve \/ RequestFails
    BY <1>5, TasksKept DEF AskUnlock, Serve, RequestFails
  <1>6. CASE UNCHANGED vars
    BY <1>6, TasksKept DEF vars
  <1>. QED
    BY <1>1, <1>2, <1>3, <1>4, <1>5, <1>6

\* What the person starts.
LEMMA TypePersonStep ==
    ASSUME TypeInv, NEW t \in UserTasks,
           LoadOlder(t) \/ EditFailed(t) \/ (\E c \in Convs : Select(t, c))
    PROVE  ViewOK' /\ LoadsTyped' /\ RefreshesTyped' /\ Edits'
  <1>. USE TypeParts
  <1>. t \in Tasks
    BY DEF Tasks
  <1>1. selected # None => selected \in Convs
    BY DEF ViewOK, Drafts
  <1>2. CASE LoadOlder(t)
    <2>1. selected \in Convs /\ before \in 0..MaxMessages /\ StartLoad(t, selected, TRUE, before)
      BY <1>1, <1>2 DEF LoadOlder, ViewOK
    <2>2. LoadsTyped'
      <3>1. TRUE \in BOOLEAN
        OBVIOUS
      <3>. QED
        BY <2>1, <3>1, StartTyped, Zenon
    <2>. QED
      BY <1>2, <2>2
         DEF LoadOlder, ViewOK, RefreshesTyped, Refreshes, Edits, shown, written, entered, status
  <1>3. CASE EditFailed(t)
    <2>1. selected \in Convs /\ StartLoad(t, selected, FALSE, 0)
      BY <1>3 DEF EditFailed, ViewOK
    <2>2. LoadsTyped'
      BY <2>1, TailTyped
    <2>3. Edits'
      BY <1>3, <2>1 DEF EditFailed, Edits
    <2>. QED
      BY <1>3, <2>2, <2>3
         DEF EditFailed, ViewOK, RefreshesTyped, Refreshes, shown, written, entered, status
  <1>4. CASE \E c \in Convs : Select(t, c)
    <2>1. PICK c \in Convs : Select(t, c)
      BY <1>4
    <2>2. /\ Switch(c) /\ StartLoad(t, c, FALSE, 0)
          /\ UNCHANGED <<locked, seen, known, failures, sending, entered, status, refreshing, editing>>
      BY <2>1 DEF Select
    <2>3. LoadsTyped'
      BY <2>2, TailTyped
    <2>4. /\ selected' = c
          /\ messages' \in Shown /\ before' \in 0..MaxMessages /\ draft' \in Drafts
          /\ views' \in [Convs -> View]
      BY <2>2, SwitchTyped
    <2>5. selected' # None /\ selected' \in Drafts
      BY <2>4, ViewAssumption DEF Drafts
    <2>6. ViewOK'
      BY <2>2, <2>4, <2>5 DEF ViewOK, entered, status
    <2>. QED
      BY <2>2, <2>3, <2>5, <2>6 DEF RefreshesTyped, Refreshes, Edits
  <1>. QED
    BY <1>2, <1>3, <1>4

\* A page arrives, or not.
LEMMA TypeLoadStep ==
    ASSUME TypeInv, NEW t \in Tasks,
           AnswerLoad(t) \/ LoadArrives(t) \/ LoadDropped(t) \/ LoadFails(t)
    PROVE  ViewOK' /\ LoadsTyped' /\ RefreshesTyped' /\ Edits'
  <1>. USE TypeParts
  <1>1. CASE AnswerLoad(t)
    <2>1. LoadsTyped'
      BY <1>1, AnswerTyped
    <2>. QED
      BY <1>1, <2>1
         DEF AnswerLoad, ViewOK, RefreshesTyped, Refreshes, Edits, shown, written, entered, status
  <1>2. CASE LoadArrives(t)
    <2>1. loading[t] \in Load /\ loading[t].conv \in Convs
      BY <1>2 DEF LoadArrives, LoadsTyped, Addressed, Live
    <2>2. messages' \in Shown /\ before' \in 0..MaxMessages
      BY <1>2, <2>1, MergedTyped DEF LoadArrives
    <2>3. /\ AfterLoad(t, FALSE, FALSE)
          /\ UNCHANGED <<locked, seen, known, selected, views, sending, entered>>
      BY <1>2 DEF LoadArrives
    <2>4. /\ LoadsTyped' /\ RefreshesTyped' /\ Edits'
          /\ draft' \in Drafts /\ failures' \subseteq Convs
          /\ stale' \in BOOLEAN /\ offline' \in BOOLEAN /\ halted' \in BOOLEAN
      <3>1. FALSE \in BOOLEAN
        OBVIOUS
      <3>. QED
        BY <2>3, <3>1, AfterLoadTyped, Zenon
    <2>5. /\ locked' \in BOOLEAN /\ seen' \in Revisions \cup {Unseen} /\ known' \in Boots
          /\ selected' \in Drafts /\ views' \in [Convs -> View] /\ sending' \subseteq Convs
          /\ restored' \in BOOLEAN /\ accepted' \in BOOLEAN
      BY <2>3 DEF ViewOK, entered
    <2>. QED
      BY <2>2, <2>4, <2>5 DEF ViewOK
  <1>3. CASE LoadDropped(t) \/ LoadFails(t)
    <2>1. \E newStale, failed \in BOOLEAN : AfterLoad(t, newStale, failed)
      <3>1. CASE LoadDropped(t)
        <4>1. stale \in BOOLEAN /\ FALSE \in BOOLEAN /\ AfterLoad(t, stale, FALSE)
          BY <3>1 DEF LoadDropped, ViewOK
        <4>. QED
          BY <4>1, Zenon
      <3>2. CASE LoadFails(t)
        <4>. DEFINE failed == t \in RefreshTasks /\ refreshing[t].step = "loading"
        <4>1. TRUE \in BOOLEAN /\ failed \in BOOLEAN
          OBVIOUS
        <4>2. AfterLoad(t, TRUE, failed)
          BY <3>2 DEF LoadFails
        <4>. HIDE DEF failed
        <4>. QED
          BY <4>1, <4>2, Zenon
      <3>. QED
        BY <1>3, <3>1, <3>2
    <2>2. UNCHANGED <<locked, seen, known, shown, sending, entered>>
      BY <1>3 DEF LoadDropped, LoadFails
    <2>3. UNCHANGED selected
      BY <2>2 DEF shown
    <2>4. /\ LoadsTyped' /\ RefreshesTyped' /\ Edits'
          /\ draft' \in Drafts /\ failures' \subseteq Convs
          /\ stale' \in BOOLEAN /\ offline' \in BOOLEAN /\ halted' \in BOOLEAN
      BY <2>1, <2>3, AfterLoadTyped, Zenon
    <2>. QED
      BY <2>2, <2>4 DEF ViewOK, shown, entered
  <1>. QED
    BY <1>1, <1>2, <1>3

\* A snapshot is asked for, answered or given up.
LEMMA TypeAskStep ==
    ASSUME TypeInv, NEW r \in RefreshTasks,
           AskSnapshot(r) \/ AnswerSnapshot(r) \/ SnapshotOutdated(r) \/ SnapshotFails(r)
    PROVE  ViewOK' /\ LoadsTyped' /\ RefreshesTyped' /\ Edits'
  <1>. USE TypeParts
  <1>1. /\ UNCHANGED <<loading, editing, shown, written, entered, locked, seen, known, stale>>
        /\ offline' \in BOOLEAN /\ halted' \in BOOLEAN
    <2>1. CASE SnapshotFails(r)
      BY <2>1 DEF SnapshotFails
    <2>2. CASE AskSnapshot(r) \/ AnswerSnapshot(r) \/ SnapshotOutdated(r)
      BY <2>2 DEF AskSnapshot, AnswerSnapshot, SnapshotOutdated, status, ViewOK
    <2>. QED
      BY <2>1, <2>2
  <1>2. UNCHANGED selected /\ ViewOK' /\ LoadsTyped' /\ Edits'
    <2>1. UNCHANGED selected /\ LoadsTyped' /\ Edits'
      BY <1>1, KeepTyped DEF shown, Edits
    <2>. QED
      BY <1>1, <2>1 DEF ViewOK, shown, written, entered
  <1>3. TasksOK
    BY DEF TypeInv, TypeOK
  <1>4. RefreshesTyped'
    <2>1. CASE AskSnapshot(r)
      BY <1>2, <1>3, <2>1, OutdatedTyped DEF AskSnapshot
    <2>2. CASE AnswerSnapshot(r)
      BY <1>2, <2>2, AnsweredTyped
    <2>3. CASE SnapshotOutdated(r) \/ SnapshotFails(r)
      BY <1>2, <2>3, FinishedTyped DEF SnapshotOutdated, SnapshotFails
    <2>. QED
      BY <2>1, <2>2, <2>3
  <1>. QED
    BY <1>2, <1>4

\* A snapshot is looked at.
LEMMA TypeLookStep ==
    ASSUME TypeInv, NEW r \in RefreshTasks,
           SnapshotShut(r) \/ SnapshotOfAnother(r) \/ SnapshotRestores(r) \/ SnapshotOpens(r)
    PROVE  ViewOK' /\ LoadsTyped' /\ RefreshesTyped' /\ Edits'
  <1>. USE TypeParts
  <1>. r \in Tasks
    BY DEF Tasks
  <1>1. refreshing[r].revision \in Revisions /\ refreshing[r].boot \in Boots
    BY DEF RefreshesTyped, Refresh
  <1>2. CASE SnapshotShut(r) \/ SnapshotOfAnother(r)
    <2>1. /\ locked' \in BOOLEAN /\ seen' \in Revisions \cup {Unseen} /\ known' \in Boots
          /\ Finish(r) /\ offline' = FALSE /\ halted' = FALSE
          /\ UNCHANGED <<sending, stale, editing>>
      BY <1>1, <1>2 DEF SnapshotShut, SnapshotOfAnother, Online
    <2>2. /\ UNCHANGED selected /\ LoadsTyped'
          /\ messages' \in Shown /\ before' \in 0..MaxMessages /\ draft' \in Drafts
          /\ failures' \subseteq Convs /\ views' \in [Convs -> View]
          /\ restored' \in BOOLEAN /\ accepted' \in BOOLEAN
      <3>1. CASE UNCHANGED <<shown, draft, failures, entered, loading>>
        BY <3>1, KeepTyped DEF ViewOK, shown, entered
      <3>2. CASE Clear
        BY <3>2, ClearTyped
      <3>3. \/ UNCHANGED <<shown, draft, failures, entered, loading>>
            \/ Clear
        BY <1>2 DEF SnapshotShut, SnapshotOfAnother
      <3>. QED
        BY <3>1, <3>2, <3>3
    <2>3. RefreshesTyped'
      BY <2>1, <2>2, FinishedTyped
    <2>. QED
      BY <2>1, <2>2, <2>3 DEF ViewOK, Edits
  <1>3. CASE SnapshotRestores(r)
    <2>1. PICK c \in Convs : Switch(c) /\ StartLoad(r, c, FALSE, 0)
      BY <1>3 DEF SnapshotRestores
    <2>2. /\ locked' = FALSE /\ seen' = refreshing[r].revision /\ restored' = TRUE
          /\ UNCHANGED <<known, failures, sending, accepted, status, editing>>
      BY <1>3 DEF SnapshotRestores
    <2>. DEFINE changed == seen # refreshing[r].revision
    <2>3. changed \in BOOLEAN
      OBVIOUS
    <2>4. refreshing' = [refreshing EXCEPT ![r] = [Idle EXCEPT !.step = "restoring",
                                                               !.changed = changed]]
      BY <1>3 DEF SnapshotRestores
    <2>. HIDE DEF changed
    <2>5. /\ selected' = c
          /\ messages' \in Shown /\ before' \in 0..MaxMessages /\ draft' \in Drafts
          /\ views' \in [Convs -> View]
      BY <2>1, SwitchTyped
    <2>6. selected' # None /\ selected' \in Drafts
      BY <2>5, ViewAssumption DEF Drafts
    <2>7. LoadsTyped'
      BY <2>1, TailTyped
    <2>8. RefreshesTyped'
      BY <2>3, <2>4, <2>6, FinishedTyped
    <2>. QED
      BY <1>1, <2>2, <2>5, <2>6, <2>7, <2>8 DEF ViewOK, status, Edits
  <1>4. CASE SnapshotOpens(r)
    <2>1. /\ locked' = FALSE /\ seen' = refreshing[r].revision
          /\ UNCHANGED <<known, shown, written, entered, stale, editing>>
      BY <1>4 DEF SnapshotOpens
    <2>2. UNCHANGED selected
      BY <2>1 DEF shown
    <2>3. LoadsTyped' /\ RefreshesTyped' /\ offline' \in BOOLEAN /\ halted' \in BOOLEAN
      <3>1. CASE ReloadsTail(seen # refreshing[r].revision)
        <4>1. /\ selected \in Convs /\ selected' # None
              /\ StartLoad(r, selected, FALSE, 0)
              /\ refreshing' = [refreshing EXCEPT ![r] = [Idle EXCEPT !.step = "loading"]]
              /\ UNCHANGED <<offline, halted>>
          BY <1>4, <2>2, <3>1 DEF SnapshotOpens, ReloadsTail, ViewOK, Drafts
        <4>. QED
          BY <2>2, <4>1, TailTyped, FinishedTyped DEF ViewOK
      <3>2. CASE ~ReloadsTail(seen # refreshing[r].revision)
        <4>1. Finish(r) /\ offline' = FALSE /\ halted' = FALSE /\ UNCHANGED loading
          BY <1>4, <3>2 DEF SnapshotOpens, Online
        <4>. QED
          BY <2>2, <4>1, KeepTyped, FinishedTyped
      <3>. QED
        BY <3>1, <3>2
    <2>. QED
      BY <1>1, <2>1, <2>3 DEF ViewOK, shown, written, entered, Edits
  <1>. QED
    BY <1>2, <1>3, <1>4

\* This view locks or unlocks the session.
LEMMA TypeLockStep ==
    ASSUME TypeInv, AskLock \/ LockReply \/ UnlockReply
    PROVE  ViewOK' /\ LoadsTyped' /\ RefreshesTyped' /\ Edits'
  <1>. USE TypeParts
  <1>1. TasksOK
    BY DEF TypeInv, TypeOK
  <1>2. CASE AskLock
    <2>1. UNCHANGED <<locked, seen, known, shown, written, entered, status, loading, editing>>
      BY <1>2 DEF AskLock
    <2>2. UNCHANGED selected /\ LoadsTyped'
      BY <2>1, KeepTyped DEF shown
    <2>3. RefreshesTyped'
      BY <1>2, <2>2, DoomedTyped
    <2>. QED
      BY <2>1, <2>2, <2>3 DEF ViewOK, shown, written, entered, status, Edits
  <1>3. CASE LockReply
    <2>1. /\ Clear /\ locked' = TRUE /\ known' \in Boots /\ refreshing' = Outdate
          /\ UNCHANGED <<seen, sending, status, editing>>
      BY <1>3 DEF LockReply, ServedOK, Request
    <2>2. /\ UNCHANGED selected /\ LoadsTyped'
          /\ messages' \in Shown /\ before' \in 0..MaxMessages /\ draft' \in Drafts
          /\ failures' \subseteq Convs /\ views' \in [Convs -> View]
          /\ restored' \in BOOLEAN /\ accepted' \in BOOLEAN
      BY <2>1, ClearTyped
    <2>3. RefreshesTyped'
      BY <1>1, <2>1, <2>2, OutdatedTyped
    <2>. QED
      BY <2>1, <2>2, <2>3 DEF ViewOK, status, Edits
  <1>4. CASE UnlockReply
    <2>1. /\ locked' = FALSE /\ seen' = request.revision /\ known' = request.boot
          /\ refreshing' = Outdate
          /\ UNCHANGED <<shown, written, entered, status, loading, editing>>
      BY <1>4 DEF UnlockReply
    <2>2. UNCHANGED selected /\ LoadsTyped'
      BY <2>1, KeepTyped DEF shown
    <2>3. RefreshesTyped'
      BY <1>1, <2>1, <2>2, OutdatedTyped
    <2>4. request.revision \in Revisions /\ request.boot \in Boots
      BY DEF ServedOK, Request
    <2>. QED
      BY <2>1, <2>2, <2>3, <2>4 DEF ViewOK, shown, written, entered, status, Edits
  <1>. QED
    BY <1>2, <1>3, <1>4

LEMMA TypeStep ==
    ASSUME TypeInv, [Next]_vars
    PROVE  TypeInv'
  <1>1. ServedOK' /\ Counted'
    BY TypeParts, ServedStep
  <1>2. ViewOK' /\ LoadsTyped' /\ RefreshesTyped' /\ Edits'
    BY TypeViewStep, TypePersonStep, TypeLoadStep, TypeAskStep, TypeLookStep, TypeLockStep
       DEF Next, RefreshStep
  <1>. QED
    BY <1>1, <1>2, TypeParts

LEMMA TypeInit == Init => TypeInv
  <1>. SUFFICES ASSUME Init PROVE TypeInv
    OBVIOUS
  <1>1. ServedOK /\ Counted
    BY Bounds DEF Init, ServedOK, Counted, Lengths, Revisions, Request, Quiet, Boots
  <1>2. ViewOK
    <2>1. views \in [Convs -> View]
      BY NoViewType DEF Init
    <2>2. {} \in Shown /\ 0 \in 0..MaxMessages /\ None \in Drafts /\ {} \subseteq Convs
      BY Bounds DEF Shown, Drafts
    <2>3. 0 \in Boots
      BY Bounds DEF Boots
    <2>. QED
      BY <2>1, <2>2, <2>3 DEF Init, ViewOK
  <1>3. LoadsTyped
    BY LoadConstants DEF Init, LoadsTyped, Addressed
  <1>4. RefreshesTyped
    BY RefreshIdle DEF Init, RefreshesTyped, Refreshes
  <1>. QED
    BY <1>1, <1>2, <1>3, <1>4, TypeParts DEF Init, Edits

LEMMA TypeAlways == Spec => []TypeInv
  <1>1. TypeInv /\ [Next]_vars => TypeInv'
    BY TypeStep
  <1>. QED
    BY TypeInit, <1>1, PTL DEF Spec

\* The service, the view and its tasks keep their shape; at most one task waits
\* for the newest snapshot and at most one for a page that will be looked at
\* (generation and snapshotGeneration of Workspace.svelte).
THEOREM TypeCorrect == Spec => []TypeOK
  <1>1. TypeInv => TypeOK
    BY DEF TypeInv
  <1>. QED
    BY TypeAlways, <1>1, PTL

-----------------------------------------------------------------------------
(* What is loaded: the merge of a page.                                    *)

\* A page asked for above the cursor goes on to the one below.
LEMMA OlderMerges ==
    ASSUME NEW c \in Convs, NEW ms \in Shown, NEW b \in 1..MaxMessages,
           NEW last \in 0..MaxMessages, Whole(c, ms, b, last)
    PROVE  Whole(c, ms \cup Page(c, b), PageBefore(b), last)
  <1>. DEFINE low == PageBefore(b)
  <1>1. low \in 0..MaxMessages /\ low < b /\ low <= PageBefore(last) /\ b <= last
    BY PageBeforeType, Bounds DEF Whole
  <1>2. Page(c, b) = {<<c, n>> : n \in {k \in Numbers : low < k /\ k <= b}}
    BY PageIs
  <1>. HIDE DEF low
  <1>3. ASSUME NEW m \in ms \cup Page(c, b)
        PROVE  /\ m[1] = c /\ low < m[2] /\ m[2] <= last
               /\ \A n \in Numbers : low < n /\ n < m[2] => <<c, n>> \in ms \cup Page(c, b)
    <2>1. CASE m \in Page(c, b)
      BY <1>1, <1>2, <2>1, Bounds DEF Numbers
    <2>2. CASE m \in ms
      <3>1. m[2] \in Numbers
        BY <2>2 DEF Shown
      <3>2. /\ m[1] = c /\ b < m[2] /\ m[2] <= last
            /\ \A n \in Numbers : b < n /\ n < m[2] => <<c, n>> \in ms
        BY <2>2 DEF Whole, Block
      <3>. QED
        BY <1>1, <1>2, <3>1, <3>2, Bounds DEF Numbers
    <2>. QED
      BY <2>1, <2>2
  <1>. QED
    BY <1>1, <1>3 DEF Whole, Block, low

\* A page that overlaps nothing replaces what was loaded.
LEMMA PageWhole ==
    ASSUME NEW c \in Convs, NEW upto \in 0..MaxMessages, NEW last \in 0..MaxMessages,
           upto <= last
    PROVE  Whole(c, Page(c, upto), PageBefore(upto), last)
  <1>1. PageBefore(upto) \in 0..MaxMessages /\ PageBefore(upto) <= PageBefore(last)
    BY PageBeforeType, Bounds
  <1>2. Page(c, upto) = {<<c, n>> : n \in {k \in Numbers : PageBefore(upto) < k /\ k <= upto}}
    BY PageIs
  <1>3. \A m \in Page(c, upto) :
           /\ m[1] = c /\ PageBefore(upto) < m[2] /\ m[2] <= upto /\ m[2] \in Numbers
           /\ \A n \in Numbers : PageBefore(upto) < n /\ n < m[2] => <<c, n>> \in Page(c, upto)
    BY <1>1, <1>2, Bounds DEF Numbers
  <1>. QED
    BY <1>1, <1>3, Bounds DEF Whole, Block, Numbers

\* A tail that overlaps what was loaded replaces what it overlaps.
LEMMA TailMerges ==
    ASSUME NEW c \in Convs, NEW ms \in Shown, NEW b \in 0..MaxMessages,
           NEW upto \in 0..MaxMessages, NEW last \in 0..MaxMessages, upto <= last,
           Whole(c, ms, b, last), b <= PageBefore(upto), \A m \in ms : m[2] <= upto,
           Page(c, upto) \cap ms # {}
    PROVE  Whole(c, {m \in ms : \A p \in Page(c, upto) \cap ms : m[2] < p[2]} \cup Page(c, upto),
                 b, last)
  <1>. DEFINE low  == PageBefore(upto)
              page == Page(c, upto)
              kept == {m \in ms : \A p \in page \cap ms : m[2] < p[2]}
  <1>1. low \in 0..MaxMessages /\ b <= low /\ low <= upto
    BY PageBeforeType, Bounds
  <1>2. page = {<<c, n>> : n \in {k \in Numbers : low < k /\ k <= upto}}
    BY PageIs
  <1>3. \A m \in ms : /\ m[1] = c /\ m[2] \in Numbers /\ b < m[2] /\ m[2] <= upto
                      /\ \A n \in Numbers : b < n /\ n < m[2] => <<c, n>> \in ms
    BY DEF Whole, Block, Shown
  <1>4. PICK top \in page \cap ms : TRUE
    OBVIOUS
  <1>. HIDE DEF low, page
  <1>5. top[2] \in Numbers /\ low < top[2] /\ top[2] <= upto
    BY <1>2, <1>4
  <1>6. \A n \in Numbers : b < n /\ n <= low => <<c, n>> \in kept
    <2>. SUFFICES ASSUME NEW n \in Numbers, b < n, n <= low PROVE <<c, n>> \in kept
      OBVIOUS
    <2>1. n < top[2]
      BY <1>1, <1>5, Bounds DEF Numbers
    <2>2. <<c, n>> \in ms
      BY <1>3, <1>4, <2>1
    <2>3. \A p \in page \cap ms : p[2] \in Numbers /\ low < p[2]
      BY <1>2
    <2>4. \A p \in page \cap ms : n < p[2]
      BY <1>1, <2>3, Bounds DEF Numbers
    <2>. QED
      BY <2>2, <2>4
  <1>7. ASSUME NEW m \in kept \cup page
        PROVE  /\ m[1] = c /\ m[2] \in Numbers /\ b < m[2] /\ m[2] <= upto
               /\ \A n \in Numbers : b < n /\ n < m[2] => <<c, n>> \in kept \cup page
    <2>1. m[1] = c /\ m[2] \in Numbers /\ b < m[2] /\ m[2] <= upto
      <3>1. CASE m \in page
        BY <1>1, <1>2, <3>1, Bounds DEF Numbers
      <3>2. CASE m \in kept
        BY <1>3, <3>2
      <3>. QED
        BY <3>1, <3>2
    <2>2. ASSUME NEW n \in Numbers, b < n, n < m[2] PROVE <<c, n>> \in kept \cup page
      <3>1. CASE n <= low
        BY <1>6, <2>2, <3>1
      <3>2. CASE ~(n <= low)
        <4>1. low < n /\ n <= upto
          BY <1>1, <2>1, <2>2, <3>2, Bounds DEF Numbers
        <4>. QED
          BY <1>2, <4>1
      <3>. QED
        BY <3>1, <3>2
    <2>. QED
      BY <2>1, <2>2
  <1>8. \A m \in kept \cup page : m[2] <= last
    BY <1>7, Bounds DEF Numbers
  <1>9. b <= PageBefore(last)
    BY DEF Whole
  <1>. QED
    BY <1>7, <1>8, <1>9 DEF Whole, Block, page

-----------------------------------------------------------------------------
(* What is loaded: the steps.                                              *)

\* The end of every history moves forward only.
Onward == \A c \in Convs : \A m \in Held(c) : \E n \in Held(c)' : n[2] >= m[2]

LEMMA HeldIs ==
    ASSUME ViewOK, NEW c \in Convs, NEW m \in Held(c)
    PROVE  m[2] \in Numbers /\ m[2] >= m[2]
  <1>1. messages \in Shown /\ views[c].messages \in Shown
    BY DEF ViewOK, View
  <1>. QED
    BY <1>1 DEF Held, Shown, Numbers

LEMMA ShownKept ==
    ASSUME ViewOK, UNCHANGED shown
    PROVE  Onward
  <1>1. \A c \in Convs : Held(c)' = Held(c)
    BY DEF Held, shown
  <1>. QED
    BY <1>1, HeldIs DEF Onward

\* Nothing is shown, kept or asked for that was not before.
LEMMA QuietCore ==
    ASSUME Core, UNCHANGED <<shown, len>>, locked' => locked,
           \A t \in Tasks : Live(loading'[t]) => loading'[t] = loading[t]
    PROVE  Core'
  <1>1. UNCHANGED <<selected, messages, before, views, len>>
    BY DEF shown
  <1>2. Blank'
    BY <1>1 DEF Core, Blank, Live
  <1>3. Blocks'
    BY <1>1 DEF Core, Blocks, Whole, Block
  <1>4. Loads'
    BY <1>1 DEF Core, Loads, Belongs, Live
  <1>. QED
    BY <1>2, <1>3, <1>4 DEF Core

\* A page of the selected conversation is asked for.
LEMMA StartCore ==
    ASSUME Core, TypeInv, UNCHANGED <<shown, len>>, ~locked',
           NEW t \in Tasks, selected \in Convs,
           \/ StartLoad(t, selected, FALSE, 0)
           \/ before # 0 /\ StartLoad(t, selected, TRUE, before)
    PROVE  Core'
  <1>1. UNCHANGED <<selected, messages, before, views, len>>
    BY DEF shown
  <1>2. before \in 0..MaxMessages /\ selected # None
    BY TypeParts, ViewAssumption DEF ViewOK
  <1>3. PICK older \in BOOLEAN, from \in 0..MaxMessages :
           /\ StartLoad(t, selected, older, from)
           /\ older => from = before /\ before > 0
    <2>1. CASE StartLoad(t, selected, FALSE, 0)
      <3>1. FALSE \in BOOLEAN /\ 0 \in 0..MaxMessages
        BY Bounds
      <3>. QED
        BY <2>1, <3>1, Zenon
    <2>2. CASE before # 0 /\ StartLoad(t, selected, TRUE, before)
      <3>1. TRUE \in BOOLEAN /\ before > 0
        BY <1>2, <2>2, Bounds
      <3>. QED
        BY <1>2, <2>2, <3>1, Zenon
    <2>. QED
      BY <2>1, <2>2
  <1>. DEFINE load == [step |-> "asked", conv |-> selected, older |-> older, from |-> from,
                       upto |-> 0]
  <1>4. loading'[t] = load /\ \A u \in Tasks : Live(loading'[u]) => u = t
    BY <1>3, LoadStarts
  <1>5. Belongs(load)
    BY <1>2, <1>3 DEF Belongs
  <1>. HIDE DEF load
  <1>6. Blocks'
    BY <1>1 DEF Core, Blocks, Whole, Block
  <1>7. Loads'
    BY <1>1, <1>4, <1>5 DEF Loads, Belongs, Live
  <1>. QED
    BY <1>6, <1>7 DEF Core, Blank

LEMMA ArriveCore ==
    ASSUME Core, TypeInv, TypeInv', NEW c \in Convs, Arrive(c)
    PROVE  Core'
  <1>1. UNCHANGED <<selected, messages, before, views, loading, locked>>
    BY DEF Arrive, shown, tasks
  <1>2. \A d \in Convs : len[d] \in 0..MaxMessages /\ len'[d] \in 0..MaxMessages
                         /\ len[d] <= len'[d]
    <2>1. len \in Lengths /\ len' \in Lengths
      BY TypeParts DEF ServedOK
    <2>2. len' = [len EXCEPT ![c] = @ + 1]
      BY DEF Arrive
    <2>. QED
      BY <2>1, <2>2, Bounds DEF Lengths
  <1>3. ASSUME NEW d \in Convs, NEW ms \in Shown, NEW b \in 0..MaxMessages,
               Whole(d, ms, b, len[d])
        PROVE  Whole(d, ms, b, len'[d])
    <2>1. PageBefore(len[d]) <= PageBefore(len'[d])
          /\ PageBefore(len[d]) \in Nat /\ PageBefore(len'[d]) \in Nat
      BY <1>2, PageBeforeType, Bounds
    <2>2. \A m \in ms : m[2] \in Nat
      BY DEF Shown, Numbers
    <2>3. Block(d, ms, b) /\ b <= PageBefore(len[d]) /\ \A m \in ms : m[2] <= len[d]
      BY <1>3 DEF Whole
    <2>4. b <= PageBefore(len'[d]) /\ \A m \in ms : m[2] <= len'[d]
      BY <1>2, <2>1, <2>2, <2>3, Bounds
    <2>. QED
      BY <2>3, <2>4 DEF Whole
  <1>4. /\ messages \in Shown /\ before \in 0..MaxMessages /\ selected \in Convs \cup {None}
        /\ \A d \in Convs : views[d].messages \in Shown /\ views[d].before \in 0..MaxMessages
    BY TypeParts DEF ViewOK, View, Drafts
  <1>5. /\ selected # None => Whole(selected, messages, before, len'[selected])
        /\ \A d \in Convs : Whole(d, views[d].messages, views[d].before, len'[d])
    BY <1>3, <1>4 DEF Core, Blocks
  <1>6. Blocks'
    BY <1>1, <1>5 DEF Core, Blocks, Whole, Block
  <1>7. Blank'
    BY <1>1 DEF Core, Blank, Live
  <1>8. Loads'
    <2>. SUFFICES ASSUME NEW t \in Tasks, Live(loading[t]) PROVE Belongs(loading[t])'
      BY <1>1 DEF Loads, Live
    <2>1. Belongs(loading[t]) /\ loading[t] \in Load /\ selected \in Convs
      BY <1>4, TypeParts DEF Core, Loads, LoadsTyped, Belongs
    <2>2. loading[t].upto \in 0..MaxMessages
      BY <2>1 DEF Load
    <2>3. loading[t].upto <= len[selected] => loading[t].upto <= len'[selected]
      BY <1>2, <2>1, <2>2, Bounds
    <2>. QED
      BY <1>1, <2>1, <2>3 DEF Belongs
  <1>. QED
    BY <1>6, <1>7, <1>8 DEF Core

LEMMA AnswerCore ==
    ASSUME Core, TypeInv, NEW t \in Tasks, AnswerLoad(t)
    PROVE  Core'
  <1>1. /\ UNCHANGED <<selected, messages, before, views, len, locked>>
        /\ loading[t].step = "asked" /\ Live(loading[t])
    BY DEF AnswerLoad, shown, served, Live
  <1>2. /\ loading'[t] = [loading[t] EXCEPT !.step = "here", !.upto = len[loading[t].conv]]
        /\ \A u \in Tasks : u # t => loading'[u] = loading[u]
        /\ loading[t] \in Load /\ Belongs(loading[t])
    BY <1>1, TypeParts, AnswerTyped DEF Core, Loads, LoadsTyped
  <1>3. selected \in Convs /\ len[selected] \in 0..MaxMessages
    BY <1>2, TypeParts DEF Belongs, ViewOK, Drafts, ServedOK, Lengths
  <1>4. /\ loading'[t].conv = loading[t].conv /\ loading'[t].older = loading[t].older
        /\ loading'[t].from = loading[t].from /\ loading'[t].upto = len[selected]
    BY <1>2 DEF Load, Belongs
  <1>5. before <= PageBefore(len[selected]) /\ \A m \in messages : m[2] <= len[selected]
    BY <1>2 DEF Core, Blocks, Whole, Belongs
  <1>6. Belongs(loading'[t])
    BY <1>2, <1>3, <1>4, <1>5, Bounds DEF Belongs
  <1>7. Loads'
    BY <1>1, <1>2, <1>6 DEF Core, Loads, Belongs, Live
  <1>8. Blocks' /\ Blank'
    <2>1. ~locked
      BY <1>1 DEF Core, Blank
    <2>. QED
      BY <1>1, <2>1 DEF Core, Blocks, Blank, Whole, Block
  <1>. QED
    BY <1>7, <1>8 DEF Core

\* Another conversation is selected, and its tail asked for.
LEMMA SwitchCore ==
    ASSUME Core, TypeInv, UNCHANGED len, ~locked', NEW t \in Tasks, NEW c \in Convs,
           Switch(c), StartLoad(t, c, FALSE, 0)
    PROVE  Core' /\ Onward
  <1>1. c # None
    BY ViewAssumption
  <1>2. selected' = c
    BY TypeParts, SwitchTyped
  <1>3. /\ messages \in Shown /\ before \in 0..MaxMessages /\ selected \in Convs \cup {None}
        /\ views \in [Convs -> View]
    BY TypeParts DEF ViewOK, Drafts
  <1>4. /\ Whole(c, messages', before', len[c])
        /\ \A d \in Convs : Whole(d, views'[d].messages, views'[d].before, len[d])
        /\ \A d \in Convs : Held(d)' = Held(d)
    <2>1. CASE c = selected
      BY <1>1, <2>1 DEF Switch, shown, Core, Blocks, Held
    <2>2. CASE c # selected
      <3>1. messages' = views[c].messages /\ before' = views[c].before
        BY <2>2 DEF Switch
      <3>2. Whole(c, messages', before', len[c])
        BY <3>1 DEF Core, Blocks
      <3>3. CASE selected = None
        <4>1. views' = views
          BY <2>2, <3>3 DEF Switch
        <4>2. \A d \in Convs : Held(d)' = Held(d)
          BY <1>2, <3>1, <3>3, <4>1, ViewAssumption DEF Held
        <4>. QED
          BY <3>2, <4>1, <4>2 DEF Core, Blocks
      <3>4. CASE selected # None
        <4>1. views' = [views EXCEPT ![selected] =
                           [messages |-> messages, before |-> before, draft |-> draft]]
          BY <2>2, <3>4 DEF Switch
        <4>2. selected \in Convs
          BY <1>3, <3>4
        <4>3. /\ views'[selected].messages = messages /\ views'[selected].before = before
              /\ \A d \in Convs : d # selected => views'[d] = views[d]
          BY <1>3, <4>1, <4>2
        <4>4. \A d \in Convs : Held(d)' = Held(d)
          BY <1>2, <2>2, <3>1, <4>3 DEF Held
        <4>. QED
          BY <3>2, <3>4, <4>3, <4>4 DEF Core, Blocks
      <3>. QED
        BY <3>3, <3>4
    <2>. QED
      BY <2>1, <2>2
  <1>5. Onward
    BY <1>4, TypeParts, HeldIs DEF Onward
  <1>6. Blocks'
    BY <1>1, <1>2, <1>4 DEF Blocks, Whole, Block
  <1>7. Loads'
    <2>1. FALSE \in BOOLEAN /\ 0 \in 0..MaxMessages
      BY Bounds
    <2>2. /\ loading'[t] = [step |-> "asked", conv |-> c, older |-> FALSE, from |-> 0,
                            upto |-> 0]
          /\ \A u \in Tasks : Live(loading'[u]) => u = t
      BY <2>1, LoadStarts, Zenon
    <2>3. loading'[t].conv = c /\ ~loading'[t].older /\ loading'[t].step # "here"
      BY <2>2
    <2>. QED
      BY <1>1, <1>2, <2>2, <2>3 DEF Loads, Belongs, Live
  <1>. QED
    BY <1>5, <1>6, <1>7 DEF Core, Blank

LEMMA EmptyWhole ==
    ASSUME NEW c, NEW last \in Nat
    PROVE  Whole(c, {}, 0, last)
  BY PageBeforeType DEF Whole, Block

LEMMA ClearCore ==
    ASSUME Core, TypeInv, UNCHANGED len, Clear
    PROVE  Core'
  <1>1. /\ messages' = {} /\ before' = 0 /\ UNCHANGED selected
        /\ views' = [c \in Convs |-> NoView]
        /\ loading' = DropLoads(loading)
    BY DEF Clear
  <1>2. \A t \in Tasks : ~Live(loading'[t])
    BY <1>1, LoadsDropped
  <1>3. \A c \in Convs : views'[c].messages = {} /\ views'[c].before = 0
    BY <1>1 DEF NoView
  <1>4. \A c \in Convs : len[c] \in Nat
    BY TypeParts, Bounds DEF ServedOK, Lengths
  <1>5. selected \in Convs \cup {None}
    BY TypeParts DEF ViewOK, Drafts
  <1>6. /\ selected # None => Whole(selected, messages', before', len[selected])
        /\ \A c \in Convs : Whole(c, views'[c].messages, views'[c].before, len[c])
    BY <1>1, <1>3, <1>4, <1>5, EmptyWhole
  <1>7. Blocks'
    BY <1>1, <1>6 DEF Blocks, Whole, Block
  <1>8. Blank' /\ Loads'
    BY <1>1, <1>2 DEF Blank, Loads, Live
  <1>. QED
    BY <1>7, <1>8 DEF Core

\* The page that a load brought is merged into what is shown.
LEMMA MergeWhole ==
    ASSUME Core, TypeInv, NEW load \in Load, Belongs(load), load.step = "here"
    PROVE  /\ Whole(selected, Merged(load), MergedBefore(load), len[selected])
           /\ \A m \in messages : \E n \in Merged(load) : n[2] >= m[2]
  <1>1. /\ selected \in Convs /\ load.conv = selected /\ selected # None
        /\ messages \in Shown /\ before \in 0..MaxMessages
        /\ len[selected] \in 0..MaxMessages
        /\ load.from \in 0..MaxMessages /\ load.upto \in 0..MaxMessages
    <2>1. selected \in Convs /\ load.conv = selected /\ selected # None
      BY TypeParts DEF Belongs, ViewOK, Drafts
    <2>. QED
      BY <2>1, TypeParts DEF ViewOK, ServedOK, Lengths, Load
  <1>2. Whole(selected, messages, before, len[selected])
    BY <1>1 DEF Core, Blocks
  <1>3. \A m \in messages : m[2] \in Numbers /\ m[2] >= m[2]
    BY <1>1 DEF Shown, Numbers
  <1>4. CASE load.older
    <2>1. load.from = before /\ before \in 1..MaxMessages
      BY <1>1, <1>4, Bounds DEF Belongs
    <2>2. /\ Merged(load) = messages \cup Page(selected, before)
          /\ MergedBefore(load) = PageBefore(before)
      BY <1>1, <1>4, <2>1 DEF Merged, MergedBefore
    <2>3. Whole(selected, messages \cup Page(selected, before), PageBefore(before), len[selected])
      BY <1>1, <1>2, <2>1, OlderMerges
    <2>. QED
      BY <1>3, <2>2, <2>3
  <1>5. CASE ~load.older
    <2>. DEFINE page == Page(selected, load.upto)
    <2>1. /\ before <= PageBefore(load.upto) /\ load.upto <= len[selected]
          /\ \A m \in messages : m[2] <= load.upto
      BY <1>5 DEF Belongs
    <2>2. Whole(selected, page, PageBefore(load.upto), len[selected])
      BY <1>1, <2>1, PageWhole
    <2>3. page \cap messages # {} =>
             Whole(selected, {m \in messages : \A p \in page \cap messages : m[2] < p[2]}
                             \cup page, before, len[selected])
      BY <1>1, <1>2, <2>1, TailMerges
    <2>4. \A m \in messages : \E n \in page : n[2] >= m[2]
      <3>. SUFFICES ASSUME NEW m \in messages PROVE \E n \in page : n[2] >= m[2]
        OBVIOUS
      <3>1. load.upto >= m[2] /\ load.upto > 0 /\ load.upto \in Numbers
        BY <1>1, <1>3, <2>1, Bounds DEF Numbers
      <3>2. PageBefore(load.upto) < load.upto
        BY <3>1, PageBeforeType, Bounds DEF Numbers
      <3>3. <<selected, load.upto>> \in page
        BY <1>1, <3>1, <3>2, PageIs, Bounds
      <3>. QED
        BY <3>1, <3>3
    <2>5. page \subseteq Merged(load)
      BY <1>1, <1>5 DEF Merged
    <2>6. Whole(selected, Merged(load), MergedBefore(load), len[selected])
      <3>. HIDE DEF page
      <3>1. CASE page \cap messages = {}
        <4>1. Merged(load) = page /\ MergedBefore(load) = PageBefore(load.upto)
          BY <1>1, <1>5, <3>1 DEF Merged, MergedBefore, page
        <4>. QED
          BY <2>2, <4>1
      <3>2. CASE page \cap messages # {}
        <4>1. /\ Merged(load) = {m \in messages : \A p \in page \cap messages : m[2] < p[2]}
                                 \cup page
              /\ MergedBefore(load) = before
          BY <1>1, <1>5, <3>2 DEF Merged, MergedBefore, page
        <4>. QED
          BY <2>3, <3>2, <4>1
      <3>. QED
        BY <3>1, <3>2
    <2>. QED
      BY <2>4, <2>5, <2>6
  <1>. QED
    BY <1>4, <1>5

\* Once a load is over its task has none, or loads the tail again.
LEMMA AfterLoadIs ==
    ASSUME TypeInv, NEW t \in Tasks,
           \/ AfterLoad(t, FALSE, FALSE)
           \/ AfterLoad(t, stale, FALSE)
           \/ AfterLoad(t, TRUE, t \in RefreshTasks /\ refreshing[t].step = "loading")
    PROVE  \/ loading' = [loading EXCEPT ![t] = NoLoad]
           \/ ~locked /\ selected \in Convs /\ StartLoad(t, selected, FALSE, 0)
  <1>1. CASE t \in UserTasks
    BY <1>1 DEF AfterLoad
  <1>2. CASE t \notin UserTasks
    <2>1. t \in RefreshTasks
      BY <1>2 DEF Tasks
    <2>2. refreshing[t].step = "restoring" => selected \in Convs
      BY <2>1, TypeParts DEF RefreshesTyped, Refreshes, ViewOK, Drafts
    <2>. QED
      BY <1>2, <2>2 DEF AfterLoad, ViewReady
  <1>. QED
    BY <1>1, <1>2

LEMMA MergeCore ==
    ASSUME Core, TypeInv, NEW t \in Tasks, LoadArrives(t)
    PROVE  Core' /\ Onward
  <1>1. /\ UNCHANGED <<selected, views, len, locked>>
        /\ messages' = Merged(loading[t]) /\ before' = MergedBefore(loading[t])
        /\ loading[t].step = "here"
    BY DEF LoadArrives, served
  <1>2. /\ Live(loading[t]) /\ loading[t] \in Load /\ Belongs(loading[t]) /\ ~locked
        /\ \A u \in Tasks : u # t => ~Live(loading[u])
    BY <1>1, TypeParts DEF Core, Loads, Blank, LoadsTyped, Live
  <1>3. selected # None /\ selected \in Convs
    BY <1>2, TypeParts DEF Belongs, ViewOK, Drafts
  <1>4. /\ Whole(selected, messages', before', len[selected])
        /\ \A m \in messages : \E n \in messages' : n[2] >= m[2]
    BY <1>1, <1>2, MergeWhole
  <1>5. Onward
    <2>1. \A c \in Convs : c # selected => Held(c)' = Held(c)
      BY <1>1 DEF Held
    <2>2. Held(selected) = messages /\ Held(selected)' = messages'
      BY <1>1 DEF Held
    <2>3. \A m \in Held(selected) : \E n \in Held(selected)' : n[2] >= m[2]
      BY <1>4, <2>2
    <2>4. ASSUME NEW c \in Convs, NEW m \in Held(c)
          PROVE  \E n \in Held(c)' : n[2] >= m[2]
      <3>1. CASE c = selected
        <4>1. Held(c)' = Held(selected)'
          BY <1>1, <3>1 DEF Held
        <4>. QED
          BY <2>3, <2>4, <3>1, <4>1
      <3>2. CASE c # selected
        BY <2>1, <2>4, <3>2, TypeParts, HeldIs
      <3>. QED
        BY <3>1, <3>2
    <2>. QED
      BY <2>4 DEF Onward
  <1>6. Blocks'
    BY <1>1, <1>3, <1>4 DEF Core, Blocks, Whole, Block
  <1>7. Loads'
    <2>1. AfterLoad(t, FALSE, FALSE)
      BY DEF LoadArrives
    <2>2. CASE loading' = [loading EXCEPT ![t] = NoLoad]
      <3>1. \A u \in Tasks : ~Live(loading'[u])
        BY <1>2, <2>2, TypeParts, LoadConstants DEF LoadsTyped
      <3>. QED
        BY <3>1 DEF Loads, Live
    <2>3. CASE StartLoad(t, selected, FALSE, 0)
      <3>1. FALSE \in BOOLEAN /\ 0 \in 0..MaxMessages
        BY Bounds
      <3>2. /\ loading'[t] = [step |-> "asked", conv |-> selected, older |-> FALSE,
                              from |-> 0, upto |-> 0]
            /\ \A u \in Tasks : Live(loading'[u]) => u = t
        BY <1>3, <2>3, <3>1, LoadStarts, Zenon
      <3>3. /\ loading'[t].conv = selected /\ ~loading'[t].older
            /\ loading'[t].step # "here"
        BY <3>2
      <3>. QED
        BY <1>1, <1>3, <3>2, <3>3 DEF Loads, Belongs, Live
    <2>4. \/ loading' = [loading EXCEPT ![t] = NoLoad]
          \/ ~locked /\ selected \in Convs /\ StartLoad(t, selected, FALSE, 0)
      BY <2>1, AfterLoadIs, Zenon
    <2>. QED
      BY <2>2, <2>3, <2>4
  <1>8. Blank'
    BY <1>1, <1>2 DEF Blank
  <1>. QED
    BY <1>5, <1>6, <1>7, <1>8 DEF Core

\* A page that is not looked at, or that failed.
LEMMA MissCore ==
    ASSUME Core, TypeInv, NEW t \in Tasks, LoadDropped(t) \/ LoadFails(t)
    PROVE  Core' /\ Onward
  <1>1. UNCHANGED <<shown, len, locked>>
    BY DEF LoadDropped, LoadFails, served
  <1>2. \/ loading' = [loading EXCEPT ![t] = NoLoad]
        \/ ~locked /\ selected \in Convs /\ StartLoad(t, selected, FALSE, 0)
    <2>1. CASE LoadDropped(t)
      <3>1. AfterLoad(t, stale, FALSE)
        BY <2>1 DEF LoadDropped
      <3>. QED
        BY <3>1, AfterLoadIs, Zenon
    <2>2. CASE LoadFails(t)
      <3>1. AfterLoad(t, TRUE, t \in RefreshTasks /\ refreshing[t].step = "loading")
        BY <2>2 DEF LoadFails
      <3>. QED
        BY <3>1, AfterLoadIs, Zenon
    <2>. QED
      BY <2>1, <2>2
  <1>3. Core'
    <2>1. CASE loading' = [loading EXCEPT ![t] = NoLoad]
      <3>1. \A u \in Tasks : Live(loading'[u]) => loading'[u] = loading[u]
        BY <2>1, TypeParts, LoadConstants DEF LoadsTyped
      <3>. QED
        BY <1>1, <3>1, QuietCore
    <2>2. CASE ~locked /\ selected \in Convs /\ StartLoad(t, selected, FALSE, 0)
      BY <1>1, <2>2, StartCore
    <2>. QED
      BY <1>2, <2>1, <2>2
  <1>. QED
    BY <1>1, <1>3, TypeParts, ShownKept

\* The steps that ask for no page and show nothing else.
LEMMA QuietStep ==
    ASSUME Core, TypeInv,
           \/ Type \/ Send \/ NetworkAccepted
           \/ \E c \in Convs : SendSucceeds(c) \/ SendFails(c)
           \/ \E r \in RefreshTasks : \/ AskSnapshot(r) \/ AnswerSnapshot(r)
                                      \/ SnapshotOutdated(r) \/ SnapshotFails(r)
           \/ LockedElsewhere \/ UnlockedElsewhere \/ Disconnected
           \/ AskLock \/ AskUnlock \/ Serve \/ UnlockReply \/ RequestFails
           \/ UNCHANGED vars
    PROVE  Core' /\ Onward
  <1>1. UNCHANGED <<shown, len, loading>> /\ (locked' => locked)
    <2>1. CASE \/ Type \/ Send \/ NetworkAccepted
               \/ \E c \in Convs : SendSucceeds(c) \/ SendFails(c)
      BY <2>1 DEF Type, Send, NetworkAccepted, SendSucceeds, SendFails, served, tasks
    <2>2. CASE \E r \in RefreshTasks : \/ AskSnapshot(r) \/ AnswerSnapshot(r)
                                       \/ SnapshotOutdated(r) \/ SnapshotFails(r)
      <3>1. PICK r \in RefreshTasks : \/ AskSnapshot(r) \/ AnswerSnapshot(r)
                                      \/ SnapshotOutdated(r) \/ SnapshotFails(r)
        BY <2>2
      <3>2. UNCHANGED <<served, locked, shown, loading>>
        BY <3>1 DEF AskSnapshot, AnswerSnapshot, SnapshotOutdated, SnapshotFails
      <3>. QED
        BY <3>2 DEF served
    <2>3. CASE LockedElsewhere \/ UnlockedElsewhere \/ Disconnected \/ AskLock \/ AskUnlock
      BY <2>3 DEF LockedElsewhere, UnlockedElsewhere, Disconnected, AskLock, AskUnlock, tasks
    <2>4. CASE Serve \/ UnlockReply \/ RequestFails
      BY <2>4 DEF Serve, UnlockReply, RequestFails, tasks
    <2>5. CASE UNCHANGED vars
      BY <2>5 DEF vars, served, tasks
    <2>. QED
      BY <2>1, <2>2, <2>3, <2>4, <2>5
  <1>2. \A t \in Tasks : Live(loading'[t]) => loading'[t] = loading[t]
    BY <1>1
  <1>3. ViewOK
    BY TypeParts
  <1>. QED
    BY <1>1, <1>2, <1>3, QuietCore, ShownKept

\* What the person starts.
LEMMA PersonCore ==
    ASSUME Core, TypeInv, NEW t \in UserTasks,
           LoadOlder(t) \/ EditFailed(t) \/ (\E c \in Convs : Select(t, c))
    PROVE  Core' /\ Onward
  <1>. t \in Tasks
    BY DEF Tasks
  <1>1. CASE LoadOlder(t) \/ EditFailed(t)
    <2>1. /\ UNCHANGED <<shown, len, locked>> /\ ~locked /\ selected \in Convs
          /\ \/ StartLoad(t, selected, FALSE, 0)
             \/ before # 0 /\ StartLoad(t, selected, TRUE, before)
      BY <1>1, TypeParts DEF LoadOlder, EditFailed, ViewReady, ViewOK, Drafts, served
    <2>. QED
      BY <2>1, StartCore, ShownKept, TypeParts
  <1>2. CASE \E c \in Convs : Select(t, c)
    <2>1. PICK c \in Convs : Select(t, c)
      BY <1>2
    <2>2. UNCHANGED len /\ ~locked' /\ Switch(c) /\ StartLoad(t, c, FALSE, 0)
      BY <2>1 DEF Select, ViewReady, served
    <2>. QED
      BY <2>2, SwitchCore
  <1>. QED
    BY <1>1, <1>2

\* A snapshot is looked at.
LEMMA LookCore ==
    ASSUME Core, TypeInv, NEW r \in RefreshTasks,
           SnapshotShut(r) \/ SnapshotOfAnother(r) \/ SnapshotRestores(r) \/ SnapshotOpens(r)
    PROVE  Core' /\ (locked' \/ known' # known \/ Onward)
  <1>. r \in Tasks
    BY DEF Tasks
  <1>1. CASE SnapshotShut(r)
    <2>1. locked' /\ UNCHANGED len
      BY <1>1 DEF SnapshotShut, served
    <2>2. CASE locked /\ ~Another(r)
      <3>1. UNCHANGED <<shown, loading>>
        BY <1>1, <2>2 DEF SnapshotShut
      <3>2. \A t \in Tasks : Live(loading'[t]) => loading'[t] = loading[t]
        BY <3>1
      <3>. QED
        BY <2>1, <2>2, <3>1, <3>2, QuietCore
    <2>3. CASE ~(locked /\ ~Another(r))
      <3>1. Clear
        BY <1>1, <2>3 DEF SnapshotShut
      <3>. QED
        BY <2>1, <3>1, ClearCore
    <2>. QED
      BY <2>2, <2>3
  <1>2. CASE SnapshotOfAnother(r)
    <2>1. Clear /\ known' # known /\ UNCHANGED len
      BY <1>2 DEF SnapshotOfAnother, Another, served
    <2>. QED
      BY <2>1, ClearCore
  <1>3. CASE SnapshotRestores(r)
    <2>1. UNCHANGED len /\ ~locked' /\ \E c \in Convs : Switch(c) /\ StartLoad(r, c, FALSE, 0)
      BY <1>3 DEF SnapshotRestores, served
    <2>. QED
      BY <2>1, SwitchCore
  <1>4. CASE SnapshotOpens(r)
    <2>1. UNCHANGED <<shown, len>> /\ ~locked'
      BY <1>4 DEF SnapshotOpens, served
    <2>2. CASE ReloadsTail(seen # refreshing[r].revision)
      <3>1. selected \in Convs /\ StartLoad(r, selected, FALSE, 0)
        BY <1>4, <2>2, TypeParts DEF SnapshotOpens, ReloadsTail, ViewOK, Drafts
      <3>. QED
        BY <2>1, <3>1, StartCore, ShownKept, TypeParts
    <2>3. CASE ~ReloadsTail(seen # refreshing[r].revision)
      <3>1. UNCHANGED loading
        BY <1>4, <2>3 DEF SnapshotOpens
      <3>2. \A t \in Tasks : Live(loading'[t]) => loading'[t] = loading[t]
        BY <3>1
      <3>. QED
        BY <2>1, <3>2, QuietCore, ShownKept, TypeParts
    <2>. QED
      BY <2>2, <2>3
  <1>. QED
    BY <1>1, <1>2, <1>3, <1>4

LEMMA CoreStep ==
    ASSUME Core, TypeInv, TypeInv', [Next]_vars
    PROVE  Core' /\ (locked' \/ known' # known \/ Onward)
  <1>1. CASE \E c \in Convs : Arrive(c)
    <2>1. UNCHANGED shown
      BY <1>1 DEF Arrive
    <2>. QED
      BY <1>1, <2>1, ArriveCore, ShownKept, TypeParts
  <1>2. CASE \E t \in Tasks : AnswerLoad(t)
    <2>1. UNCHANGED shown
      BY <1>2 DEF AnswerLoad
    <2>. QED
      BY <1>2, <2>1, AnswerCore, ShownKept, TypeParts
  <1>3. CASE \E t \in Tasks : LoadArrives(t)
    BY <1>3, MergeCore
  <1>4. CASE \E t \in Tasks : LoadDropped(t) \/ LoadFails(t)
    BY <1>4, MissCore
  <1>5. CASE LockReply
    <2>1. Clear /\ locked' /\ UNCHANGED len
      BY <1>5 DEF LockReply
    <2>. QED
      BY <2>1, ClearCore
  <1>6. CASE \E r \in RefreshTasks : \/ SnapshotShut(r) \/ SnapshotOfAnother(r)
                                     \/ SnapshotRestores(r) \/ SnapshotOpens(r)
    BY <1>6, LookCore
  <1>7. CASE \E t \in UserTasks : LoadOlder(t) \/ EditFailed(t) \/ (\E c \in Convs : Select(t, c))
    BY <1>7, PersonCore
  <1>. QED
    BY <1>1, <1>2, <1>3, <1>4, <1>5, <1>6, <1>7, QuietStep DEF Next, RefreshStep

LEMMA CoreInit == Init => Core
  <1>. SUFFICES ASSUME Init PROVE Core
    OBVIOUS
  <1>1. \A c \in Convs : views[c].messages = {} /\ views[c].before = 0 /\ len[c] \in Nat
    BY Bounds DEF Init, NoView
  <1>2. Blocks
    BY <1>1, EmptyWhole DEF Init, Blocks
  <1>3. Blank /\ Loads
    BY LoadConstants DEF Init, Blank, Loads
  <1>. QED
    BY <1>2, <1>3 DEF Core

Inv == TypeInv /\ Core

LEMMA InvStep ==
    ASSUME Inv, [Next]_vars
    PROVE  Inv' /\ (locked' \/ known' # known \/ Onward)
  BY TypeStep, CoreStep DEF Inv

LEMMA InvAlways == Spec => []Inv
  <1>1. Init => Inv
    BY TypeInit, CoreInit DEF Inv
  <1>2. Inv /\ [Next]_vars => Inv'
    BY InvStep
  <1>. QED
    BY <1>1, <1>2, PTL DEF Spec

-----------------------------------------------------------------------------
(* The theorems.                                                           *)

\* A locked view shows no message and keeps none, whatever was under way
\* (clearPrivateView of Workspace.svelte).
THEOREM LockedBlank == Spec => []LockedIsBlank
  <1>1. Inv => LockedIsBlank
    BY DEF Inv, Core, Blank, LockedIsBlank
  <1>. QED
    BY InvAlways, <1>1, PTL

\* What is shown and what is kept is one unbroken run of the conversation's own
\* messages above its cursor (loadHistory and select of Workspace.svelte).
THEOREM Contiguous == Spec => []LoadedIsContiguous
  <1>1. Inv => LoadedIsContiguous
    <2>1. Block(selected, {}, 0)
      BY DEF Block
    <2>. QED
      BY <2>1 DEF Inv, Core, Blocks, Whole, LoadedIsContiguous
  <1>. QED
    BY InvAlways, <1>1, PTL

\* Until a lock or another service clears the view, no answer takes back
\* a message that is shown (loadHistory's generation and merge).
THEOREM TailOnward == Spec => TailNeverRegresses
  <1>1. Inv /\ [Next]_vars =>
           [\/ locked' \/ known' # known
            \/ \A c \in Convs : \A m \in Held(c) : \E n \in Held(c)' : n[2] >= m[2]]_vars
    BY InvStep DEF Onward
  <1>. QED
    BY InvAlways, <1>1, PTL DEF Spec, TailNeverRegresses

=============================================================================
