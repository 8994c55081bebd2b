-------------------------- MODULE PresentationProofs --------------------------
(***************************************************************************)
(* Theorems about Presentation for any number of windows and any bounds:   *)
(* its type, what a locked session hides and the freshness of every answer.*)
(***************************************************************************)
EXTENDS Presentation, TLAPS

Building == {"refresh", "project", "store"}
Task(v)  == viewers[v].task

-----------------------------------------------------------------------------
(* Type correctness.                                                       *)

\* A step that replaces the task of one request.
LEMMA Replaced ==
    ASSUME viewers \in [Viewers -> Requests], NEW v \in Viewers, NEW task \in TaskSet,
           viewers' = [viewers EXCEPT ![v].task = task]
    PROVE  /\ viewers' \in [Viewers -> Requests]
           /\ Task(v)' = task
           /\ \A u \in Viewers \ {v} : Task(u)' = Task(u)
  BY DEF Requests, Task

LEMMA IdleType == Idle \in TaskSet
  <1>1. /\ [service |-> 0, client |-> 0] \in Versions
        /\ [service |-> 0, client |-> 0, locked |-> FALSE] \in Builds
        /\ [service |-> 0, client |-> 0, lapses |-> 0] \in Sinces
    BY DEF Versions, Builds, Sinces
  <1>2. NoCache \in Snapshots
    BY DEF Snapshots
  <1>3. MaxLapses \in 0..MaxLapses /\ "idle" \in Steps
    BY PresentationAssumption DEF Steps
  <1>. QED
    BY <1>1, <1>2, <1>3 DEF Idle, TaskSet

\* What is shown, built or remembered has the shape it should.
LEMMA PartTypes ==
    ASSUME TypeOK
    PROVE  /\ Shown \in Snapshots
           /\ Deadline \in 0..MaxLapses
           /\ [service |-> version.service, client |-> version.client,
               locked |-> session # "open"] \in Builds
           /\ [service |-> announced.service, client |-> announced.client,
               lapses |-> lapses] \in Sinces
           /\ \A n \in Nat : /\ [service |-> version.service, client |-> n] \in Versions
                             /\ [service |-> n, client |-> version.client] \in Versions
  <1>1. /\ version.service \in Nat /\ version.client \in Nat
        /\ announced.service \in Nat /\ announced.client \in Nat
        /\ content.service \in Nat /\ content.client \in Nat /\ content.active \in BOOLEAN
        /\ lapses \in Nat
    BY PresentationAssumption DEF TypeOK, Versions
  <1>2. Shown \in Snapshots
    BY <1>1 DEF Shown, Hidden, Snapshots
  <1>3. Deadline \in 0..MaxLapses
    BY PresentationAssumption DEF Deadline, TypeOK
  <1>. QED
    BY <1>1, <1>2, <1>3 DEF Builds, Sinces, Versions

LEMMA BegunType ==
    ASSUME TypeOK, NEW task \in TaskSet
    PROVE  /\ Begun(task) \in TaskSet
           /\ Subscribed(task) \in TaskSet /\ Subscribed(task).pc = "attach"
           /\ [Begun(task) EXCEPT !.pc = "snapshot"] \in TaskSet
  <1>1. Begun(task) \in TaskSet
    BY PartTypes DEF Begun, TaskSet
  <1>2. [service |-> version.service, client |-> task.seen.client] \in Versions
    BY PartTypes DEF TaskSet, Versions
  <1>3. Subscribed(task) \in TaskSet /\ Subscribed(task).pc = "attach"
    BY <1>1, <1>2 DEF Subscribed, TaskSet, Steps
  <1>. QED
    BY <1>1, <1>3 DEF TaskSet, Steps

\* A request's record of what it saw is a revision.
LEMMA RevisionType ==
    ASSUME NEW s \in Snapshots
    PROVE  Revision(s) \in {<<>>} \cup (Nat \X Nat \X BOOLEAN)
  BY DEF Revision, Snapshots, NoCache, Hidden

\* Whoever builds holds the session lock.
HolderBuilds ==
    \A v \in Viewers : Task(v).pc \in Building <=> holder = v

\* The holder after a step of one request that kept or released the lock.
LEMMA HolderStep ==
    ASSUME TypeOK, NEW v \in Viewers,
           \A u \in Viewers \ {v} : Task(u)' = Task(u),
           \/ Task(v)'.pc \in Building /\ holder' = v /\ holder \in {v, Nobody}
           \/ Task(v)'.pc \notin Building /\ holder' = Nobody /\ holder \in {v, Nobody}
           \/ Task(v)'.pc \notin Building /\ Task(v).pc \notin Building /\ holder' = holder
    PROVE  HolderBuilds' /\ holder' \in Viewers \cup {Nobody}
  BY PresentationAssumption DEF TypeOK, HolderBuilds, Building, Task

LEMMA TypeInit == Init => TypeOK
  <1>. SUFFICES ASSUME Init PROVE TypeOK
    OBVIOUS
  <1>1. viewers \in [Viewers -> Requests]
    BY IdleType DEF Init, Requests
  <1>2. \A v \in Viewers : viewers[v].task.pc \notin Building /\ holder # v
    BY PresentationAssumption DEF Init, Idle, Building
  <1>3. /\ content \in [service : Nat, client : Nat, active : BOOLEAN]
        /\ lapses \in 0..MaxLapses
        /\ version \in Versions /\ owed \in Versions /\ announced \in Versions
    BY PresentationAssumption DEF Init, Versions
  <1>4. holder = Nobody /\ cache = NoCache /\ unlocks = 0 /\ session = "none" /\ stopped = FALSE
    BY DEF Init
  <1>. QED
    BY <1>1, <1>2, <1>3, <1>4 DEF TypeOK, Building

LEMMA ClientChangeType ==
    ASSUME TypeOK, ChangeClient
    PROVE  content' \in [service : Nat, client : Nat, active : BOOLEAN]
  <1>1. /\ content.service \in Nat /\ content.client + 1 \in Nat
        /\ content \in [service : Nat, client : Nat, active : BOOLEAN]
    BY DEF TypeOK
  <1>2. PICK seen \in BOOLEAN :
           content' = [content EXCEPT !.client = content.client + 1,
                                      !.active = content.active \/ seen]
    BY DEF ChangeClient
  <1>. DEFINE active == content.active \/ seen
  <1>3. active \in BOOLEAN
    OBVIOUS
  <1>4. content' = [service |-> content.service, client |-> content.client + 1,
                    active |-> active]
    BY <1>1, <1>2
  <1>. HIDE DEF active
  <1>. QED
    BY <1>1, <1>3, <1>4

\* The steps of announcements, data and lifecycle touch no request but for
\* what Unlock notes in it.
LEMMA TypeServiceStep ==
    ASSUME TypeOK,
           \/ Invalidate \/ AnnounceClient \/ ChangeService \/ ChangeClient \/ Lapse
           \/ Lock \/ Stop \/ CloseSession
    PROVE  TypeOK'
  <1>1. /\ version' \in Versions /\ owed' \in Versions /\ announced' \in Versions
        /\ content' \in [service : Nat, client : Nat, active : BOOLEAN]
        /\ lapses' \in 0..MaxLapses
    <2>. USE PresentationAssumption DEF TypeOK, Versions, lifecycle, data, watches, Invalidated
    <2>1. CASE Invalidate
      BY <2>1 DEF Invalidate
    <2>2. CASE AnnounceClient
      BY <2>2 DEF AnnounceClient
    <2>3. CASE ChangeService
      BY <2>3 DEF ChangeService
    <2>4. CASE ChangeClient
      <3>1. /\ owed' = [owed EXCEPT !.client = owed.client + 1]
            /\ UNCHANGED <<lapses, version, announced>>
        BY <2>4 DEF ChangeClient
      <3>2. content' \in [service : Nat, client : Nat, active : BOOLEAN]
        BY <2>4, ClientChangeType
      <3>. QED
        BY <3>1, <3>2
    <2>5. CASE Lapse
      <3>1. lapses' \in 0..MaxLapses
        BY <2>5 DEF Lapse
      <3>2. content' \in [service : Nat, client : Nat, active : BOOLEAN]
        <4>1. content' = [content EXCEPT !.active = FALSE]
          BY <2>5 DEF Lapse
        <4>. QED
          BY <4>1
      <3>. QED
        BY <2>5, <3>1, <3>2 DEF Lapse
    <2>6. CASE Lock \/ Stop \/ CloseSession
      BY <2>6 DEF Lock, Stop, CloseSession
    <2>. QED
      BY <2>1, <2>2, <2>3, <2>4, <2>5, <2>6
  <1>2. viewers' = viewers /\ holder' = holder /\ unlocks' = unlocks
    BY DEF Invalidate, AnnounceClient, ChangeService, ChangeClient, Lapse, Lock, Stop,
           CloseSession, Invalidated, lifecycle, data, watches
  <1>3. /\ session' \in {"none", "locked", "open"} /\ stopped' \in BOOLEAN
        /\ cache' \in {cache, NoCache}
    BY DEF TypeOK, Invalidate, AnnounceClient, ChangeService, ChangeClient, Lapse, Lock, Stop,
           CloseSession, Invalidated, lifecycle, data, watches
  <1>. QED
    BY <1>1, <1>2, <1>3 DEF TypeOK

LEMMA TypeUnlock ==
    ASSUME TypeOK, Unlock
    PROVE  TypeOK'
  <1>1. \A v \in Viewers :
           /\ SeenOpen[v] \in Requests
           /\ SeenOpen[v].task.pc = viewers[v].task.pc
    <2>. TAKE v \in Viewers
    <2>. DEFINE saw == viewers[v].task.sawOpen \/ viewers[v].task.pc # "idle"
                task == [viewers[v].task EXCEPT !.sawOpen = saw]
    <2>1. viewers[v] \in Requests /\ viewers[v].task \in TaskSet
      BY DEF TypeOK, Requests
    <2>2. saw \in BOOLEAN
      OBVIOUS
    <2>3. task \in TaskSet /\ task.pc = viewers[v].task.pc
      <3>. HIDE DEF saw
      <3>. QED
        BY <2>1, <2>2 DEF TaskSet
    <2>4. SeenOpen[v] = [viewers[v] EXCEPT !.task = task]
      BY DEF SeenOpen
    <2>. HIDE DEF task
    <2>. QED
      BY <2>1, <2>3, <2>4 DEF Requests
  <1>2. SeenOpen \in [Viewers -> Requests]
    BY <1>1 DEF SeenOpen
  <1>3. /\ session' \in {"none", "locked", "open"} /\ unlocks' \in Nat
        /\ owed' \in Versions
        /\ UNCHANGED <<stopped, holder, content, lapses, version, announced, cache>>
        /\ viewers' = SeenOpen
    BY DEF TypeOK, Unlock, Versions, data
  <1>. QED
    BY <1>1, <1>2, <1>3 DEF TypeOK

\* One step of one request.
LEMMA TypeRequest ==
    ASSUME TypeOK, NEW v \in Viewers,
           \/ \E wait \in BOOLEAN : Ask(v, wait)
           \/ Attach(v) \/ TakeCached(v) \/ Sleep(v) \/ Wake(v) \/ Disconnected(v)
           \/ TimeIsUp(v) \/ Cancel(v)
    PROVE  TypeOK'
  <1>. DEFINE old == viewers[v].task
  <1>0. old \in TaskSet /\ viewers \in [Viewers -> Requests]
    BY DEF TypeOK, Requests
  <1>1. \E task \in TaskSet :
           /\ viewers' = [viewers EXCEPT ![v].task = task]
           /\ task.pc \notin Building
    <2>1. CASE \E wait \in BOOLEAN : Ask(v, wait)
      <3>1. PICK wait \in BOOLEAN : Ask(v, wait)
        BY <2>1
      <3>2. /\ Subscribed(old).pc = "attach"
            /\ [Begun(old) EXCEPT !.pc = "snapshot"].pc = "snapshot"
        BY <1>0, BegunType DEF Subscribed, TaskSet
      <3>. QED
        BY <3>1, <3>2, <1>0, BegunType DEF Ask, Building
    <2>2. CASE Attach(v)
      <3>. DEFINE seen == [service |-> old.seen.service, client |-> version.client]
                  task == [old EXCEPT !.pc = "snapshot", !.attached = (session # "none"),
                                      !.seen = seen]
      <3>1. seen \in Versions
        BY <1>0 DEF TypeOK, TaskSet, Versions
      <3>2. task \in TaskSet /\ task.pc = "snapshot"
        <4>. HIDE DEF seen
        <4>. QED
          BY <3>1, <1>0 DEF TaskSet, Steps
      <3>. QED
        BY <3>2, <2>2 DEF Attach, Building
    <2>3. CASE TakeCached(v)
      <3>. DEFINE task == [old EXCEPT !.pc = "answer", !.result = cache.snapshot,
                                      !.expires = cache.expires]
      <3>1. cache.snapshot \in Snapshots /\ cache.expires \in 0..MaxLapses
        BY <2>3 DEF TakeCached, CacheValid, TypeOK, Entries
      <3>2. task \in TaskSet /\ task.pc = "answer"
        BY <3>1, <1>0 DEF TaskSet, Steps
      <3>. QED
        BY <3>2, <2>3 DEF TakeCached, Building
    <2>4. CASE Sleep(v)
      <3>1. Dozing(old) \in TaskSet /\ Dozing(old).pc = "asleep"
        BY <1>0, IdleType DEF Dozing, TaskSet, Steps
      <3>. QED
        BY <3>1, <2>4 DEF Sleep, Building
    <2>5. CASE Wake(v) \/ (TimeIsUp(v) /\ At(v, "asleep"))
      <3>1. Subscribed(Idle) \in TaskSet /\ Subscribed(Idle).pc = "attach"
        BY IdleType, BegunType
      <3>. QED
        BY <3>1, <2>5 DEF Wake, TimeIsUp, Building, At
    <2>6. CASE Disconnected(v) \/ Cancel(v) \/ (TimeIsUp(v) /\ ~At(v, "asleep"))
      <3>1. Idle.pc = "idle"
        BY DEF Idle
      <3>. QED
        BY <3>1, <2>6, IdleType DEF Disconnected, Cancel, TimeIsUp, Building, At
    <2>. QED
      BY <2>1, <2>2, <2>3, <2>4, <2>5, <2>6
  <1>2. PICK task \in TaskSet : /\ viewers' = [viewers EXCEPT ![v].task = task]
                                /\ task.pc \notin Building
    BY <1>1
  <1>3. /\ viewers' \in [Viewers -> Requests]
        /\ Task(v)' = task
        /\ \A u \in Viewers \ {v} : Task(u)' = Task(u)
    BY <1>0, <1>2, Replaced
  <1>4. /\ UNCHANGED <<lifecycle, data, watches, cache>>
        /\ \/ Task(v).pc \notin Building /\ holder' = holder
           \/ holder' = Nobody /\ holder \in {v, Nobody}
    <2>1. CASE Cancel(v)
      BY <2>1 DEF Cancel, TypeOK, Building, Task
    <2>2. CASE ~Cancel(v)
      BY <2>2 DEF Ask, Attach, TakeCached, Sleep, Wake, Disconnected, TimeIsUp, At, Building, Task
    <2>. QED
      BY <2>1, <2>2
  <1>5. HolderBuilds' /\ holder' \in Viewers \cup {Nobody}
    BY <1>2, <1>3, <1>4, HolderStep DEF TypeOK
  <1>. QED
    BY <1>3, <1>4, <1>5
    DEF TypeOK, HolderBuilds, Building, Task, lifecycle, data, watches

LEMMA TypeBuilder ==
    ASSUME TypeOK, NEW v \in Viewers,
           StartBuild(v) \/ Refresh(v) \/ RefreshFails(v) \/ Project(v) \/ Store(v)
    PROVE  TypeOK'
  <1>. DEFINE old == viewers[v].task
  <1>0. old \in TaskSet /\ viewers \in [Viewers -> Requests]
    BY DEF TypeOK, Requests
  <1>1. \E task \in TaskSet :
           /\ viewers' = [viewers EXCEPT ![v].task = task]
           /\ \/ task.pc \in Building /\ holder' = v /\ holder \in {v, Nobody}
              \/ task.pc \notin Building /\ holder' = Nobody /\ holder \in {v, Nobody}
    <2>0. At(v, "refresh") \/ At(v, "project") \/ At(v, "store") => holder = v
      BY DEF At, TypeOK
    <2>1. CASE StartBuild(v)
      <3>. DEFINE built == [service |-> version.service, client |-> version.client,
                            locked |-> session # "open"]
                  task == [old EXCEPT !.pc = "refresh", !.built = built]
      <3>1. built \in Builds
        BY PartTypes
      <3>2. task \in TaskSet /\ task.pc = "refresh"
        <4>. HIDE DEF built
        <4>. QED
          BY <3>1, <1>0 DEF TaskSet, Steps
      <3>. QED
        BY <3>2, <2>1 DEF StartBuild, Building
    <2>2. CASE Refresh(v)
      <3>. DEFINE task == [old EXCEPT !.pc = "project", !.expires = Deadline]
      <3>1. task \in TaskSet /\ task.pc = "project"
        BY PartTypes, <1>0 DEF TaskSet, Steps
      <3>. QED
        BY <3>1, <2>0, <2>2 DEF Refresh, Building
    <2>3. CASE RefreshFails(v)
      <3>1. Idle.pc = "idle"
        BY DEF Idle
      <3>. QED
        BY <3>1, <2>0, <2>3, IdleType DEF RefreshFails, Building
    <2>4. CASE Project(v)
      <3>. DEFINE task == [old EXCEPT !.pc = "store", !.result = Shown]
      <3>1. task \in TaskSet /\ task.pc = "store"
        BY PartTypes, <1>0 DEF TaskSet, Steps
      <3>. QED
        BY <3>1, <2>0, <2>4 DEF Project, Building
    <2>5. CASE Store(v)
      <3>. DEFINE task == [old EXCEPT !.pc = "answer", !.built = Idle.built]
      <3>1. Idle.built \in Builds
        BY IdleType DEF TaskSet
      <3>2. task \in TaskSet /\ task.pc = "answer"
        BY <3>1, <1>0 DEF TaskSet, Steps
      <3>. QED
        BY <3>2, <2>0, <2>5 DEF Store, Building
    <2>. QED
      BY <2>1, <2>2, <2>3, <2>4, <2>5
  <1>2. PICK task \in TaskSet :
           /\ viewers' = [viewers EXCEPT ![v].task = task]
           /\ \/ task.pc \in Building /\ holder' = v /\ holder \in {v, Nobody}
              \/ task.pc \notin Building /\ holder' = Nobody /\ holder \in {v, Nobody}
    BY <1>1
  <1>3. /\ viewers' \in [Viewers -> Requests]
        /\ Task(v)' = task
        /\ \A u \in Viewers \ {v} : Task(u)' = Task(u)
    BY <1>0, <1>2, Replaced
  <1>4. /\ UNCHANGED <<lifecycle, data, watches>>
        /\ cache' = cache \/ cache' \in Entries
    <2>1. CASE Store(v)
      <3>1. Entry(old, old.built) \in Entries
        BY <1>0 DEF Entry, Entries, TaskSet
      <3>. QED
        BY <2>1, <3>1 DEF Store
    <2>2. CASE ~Store(v)
      BY <2>2 DEF StartBuild, Refresh, RefreshFails, Project
    <2>. QED
      BY <2>1, <2>2
  <1>5. HolderBuilds' /\ holder' \in Viewers \cup {Nobody}
    BY <1>2, <1>3, HolderStep
  <1>. QED
    BY <1>3, <1>4, <1>5
    DEF TypeOK, HolderBuilds, Building, Task, lifecycle, data, watches

LEMMA TypeAnswer ==
    ASSUME TypeOK, NEW v \in Viewers, Answer(v)
    PROVE  TypeOK'
  <1>1. viewers[v].task.result \in Snapshots
    BY DEF TypeOK, Requests, TaskSet
  <1>2. [task |-> Idle, known |-> Revision(viewers[v].task.result)] \in Requests
    BY <1>1, IdleType, RevisionType DEF Requests
  <1>3. /\ viewers' \in [Viewers -> Requests]
        /\ Task(v)' = Idle
        /\ \A u \in Viewers \ {v} : Task(u)' = Task(u)
    BY <1>2 DEF Answer, TypeOK, Task
  <1>4. UNCHANGED <<lifecycle, holder, data, watches, cache>> /\ Task(v).pc = "answer"
    BY DEF Answer, At, Task
  <1>5. HolderBuilds' /\ holder' \in Viewers \cup {Nobody}
    BY <1>3, <1>4, HolderStep DEF Idle, Building
  <1>. QED
    BY <1>3, <1>4, <1>5
    DEF TypeOK, HolderBuilds, Building, Task, lifecycle, data, watches

LEMMA TypeStep == TypeOK /\ [Next]_vars => TypeOK'
  <1>. SUFFICES ASSUME TypeOK, [Next]_vars PROVE TypeOK'
    OBVIOUS
  <1>1. CASE UNCHANGED vars
    BY <1>1 DEF vars, lifecycle, data, watches, TypeOK
  <1>2. CASE Next
    BY <1>2, TypeServiceStep, TypeUnlock, TypeRequest, TypeBuilder, TypeAnswer
    DEF Next, Advance
  <1>. QED
    BY <1>1, <1>2

\* The variables always have their type, and whoever holds the session lock is
\* building a snapshot (presentation_snapshot; a cancelled builder lets it go).
THEOREM TypeCorrect == Spec => []TypeOK
  BY TypeInit, TypeStep, PTL DEF Spec

-----------------------------------------------------------------------------
(* What a step of a request leaves in its task.                            *)

LEMMA Others ==
    ASSUME TypeOK, NEW v \in Viewers, NEW task,
           viewers' = [viewers EXCEPT ![v].task = task]
    PROVE  Task(v)' = task /\ \A u \in Viewers \ {v} : Task(u)' = Task(u)
  BY DEF TypeOK, Requests, Task

Alone(v) == \A u \in Viewers \ {v} : Task(u)' = Task(u)

LEMMA TaskTyped ==
    ASSUME TypeOK, NEW v \in Viewers
    PROVE  Task(v) \in TaskSet
  BY DEF TypeOK, Requests, Task

\* A request that begins, again or for the first time.
LEMMA AfterBegin ==
    ASSUME TypeOK, NEW v \in Viewers,
           \/ \E wait \in BOOLEAN : Ask(v, wait)
           \/ Wake(v)
           \/ TimeIsUp(v) /\ At(v, "asleep")
    PROVE  /\ Alone(v)
           /\ Task(v)'.pc \in {"attach", "snapshot"}
           /\ Task(v)'.since = [service |-> announced.service, client |-> announced.client,
                               lapses |-> lapses]
           /\ Task(v)'.sawOpen = (session = "open")
  <1>1. \A task \in TaskSet :
           /\ Begun(task).since = [service |-> announced.service,
                                   client |-> announced.client, lapses |-> lapses]
           /\ Begun(task).sawOpen = (session = "open")
           /\ Begun(task) \in TaskSet
    BY BegunType DEF Begun, TaskSet
  <1>2. \A task \in TaskSet :
           \A next \in {Subscribed(task), [Begun(task) EXCEPT !.pc = "snapshot"]} :
               /\ next.pc \in {"attach", "snapshot"}
               /\ next.since = Begun(task).since
               /\ next.sawOpen = Begun(task).sawOpen
    BY <1>1 DEF Subscribed, TaskSet
  <1>3. \E task \in TaskSet :
           \E next \in {Subscribed(task), [Begun(task) EXCEPT !.pc = "snapshot"]} :
               viewers' = [viewers EXCEPT ![v].task = next]
    BY IdleType, TaskTyped DEF Ask, Wake, TimeIsUp, At, Task
  <1>4. PICK task \in TaskSet :
           \E next \in {Subscribed(task), [Begun(task) EXCEPT !.pc = "snapshot"]} :
               viewers' = [viewers EXCEPT ![v].task = next]
    BY <1>3
  <1>. PICK next \in {Subscribed(task), [Begun(task) EXCEPT !.pc = "snapshot"]} :
               viewers' = [viewers EXCEPT ![v].task = next]
    BY <1>4
  <1>5. Task(v)' = next /\ Alone(v)
    BY Others DEF Alone
  <1>. QED
    BY <1>1, <1>2, <1>5

LEMMA AfterAttach ==
    ASSUME TypeOK, NEW v \in Viewers, Attach(v)
    PROVE  /\ Alone(v)
           /\ Task(v)'.pc = "snapshot"
           /\ Task(v)'.since = Task(v).since
           /\ Task(v)'.sawOpen = Task(v).sawOpen
           /\ Task(v).pc = "attach"
  <1>1. /\ Task(v)' = [Task(v) EXCEPT !.pc = "snapshot", !.attached = (session # "none"),
                                   !.seen = [service |-> Task(v).seen.service,
                                             client |-> version.client]]
        /\ Alone(v) /\ Task(v).pc = "attach"
    BY Others DEF Attach, Alone, At, Task
  <1>. QED
    BY <1>1, TaskTyped DEF TaskSet

LEMMA AfterCached ==
    ASSUME TypeOK, NEW v \in Viewers, TakeCached(v)
    PROVE  /\ Alone(v)
           /\ Task(v)'.pc = "answer"
           /\ Task(v)'.result = cache.snapshot
           /\ Task(v)'.since = Task(v).since
           /\ Task(v)'.sawOpen = Task(v).sawOpen
           /\ Task(v).pc = "snapshot"
  <1>1. /\ Task(v)' = [Task(v) EXCEPT !.pc = "answer", !.result = cache.snapshot,
                                   !.expires = cache.expires]
        /\ Alone(v) /\ Task(v).pc = "snapshot"
    BY Others DEF TakeCached, Alone, At, Task
  <1>. QED
    BY <1>1, TaskTyped DEF TaskSet

LEMMA AfterStartBuild ==
    ASSUME TypeOK, NEW v \in Viewers, StartBuild(v)
    PROVE  /\ Alone(v)
           /\ Task(v)'.pc = "refresh"
           /\ Task(v)'.built.service = version.service
           /\ Task(v)'.built.client = version.client
           /\ Task(v)'.since = Task(v).since
           /\ Task(v)'.sawOpen = Task(v).sawOpen
           /\ Task(v).pc = "snapshot"
  <1>1. /\ Task(v)' = [Task(v) EXCEPT !.pc = "refresh",
                        !.built = [service |-> version.service, client |-> version.client,
                                   locked |-> session # "open"]]
        /\ Alone(v) /\ Task(v).pc = "snapshot"
    BY Others DEF StartBuild, Alone, At, Task
  <1>. QED
    BY <1>1, TaskTyped DEF TaskSet

LEMMA AfterRefresh ==
    ASSUME TypeOK, NEW v \in Viewers, Refresh(v)
    PROVE  /\ Alone(v)
           /\ Task(v)'.pc = "project"
           /\ Task(v)'.expires = Deadline
           /\ Task(v)'.built = Task(v).built
           /\ Task(v)'.since = Task(v).since
           /\ Task(v)'.sawOpen = Task(v).sawOpen
           /\ Task(v).pc = "refresh"
  <1>1. /\ Task(v)' = [Task(v) EXCEPT !.pc = "project", !.expires = Deadline]
        /\ Alone(v) /\ Task(v).pc = "refresh"
    BY Others DEF Refresh, Alone, At, Task
  <1>. QED
    BY <1>1, TaskTyped DEF TaskSet

LEMMA AfterProject ==
    ASSUME TypeOK, NEW v \in Viewers, Project(v)
    PROVE  /\ Alone(v)
           /\ Task(v)'.pc = "store"
           /\ Task(v)'.result = Shown
           /\ Task(v)'.expires = Task(v).expires
           /\ Task(v)'.built = Task(v).built
           /\ Task(v)'.since = Task(v).since
           /\ Task(v)'.sawOpen = Task(v).sawOpen
           /\ Task(v).pc = "project"
  <1>1. /\ Task(v)' = [Task(v) EXCEPT !.pc = "store", !.result = Shown]
        /\ Alone(v) /\ Task(v).pc = "project"
    BY Others DEF Project, Alone, At, Task
  <1>. QED
    BY <1>1, TaskTyped DEF TaskSet

LEMMA AfterStore ==
    ASSUME TypeOK, NEW v \in Viewers, Store(v)
    PROVE  /\ Alone(v)
           /\ Task(v)'.pc = "answer"
           /\ Task(v)'.result = Task(v).result
           /\ Task(v)'.since = Task(v).since
           /\ Task(v)'.sawOpen = Task(v).sawOpen
           /\ Task(v).pc = "store"
  <1>1. /\ Task(v)' = [Task(v) EXCEPT !.pc = "answer", !.built = Idle.built]
        /\ Alone(v) /\ Task(v).pc = "store"
    BY Others DEF Store, Alone, At, Task
  <1>. QED
    BY <1>1, TaskTyped DEF TaskSet

\* A request that ends or goes to sleep.
LEMMA AfterEnd ==
    ASSUME TypeOK, NEW v \in Viewers,
           \/ RefreshFails(v) \/ Answer(v) \/ Sleep(v) \/ Disconnected(v) \/ Cancel(v)
           \/ TimeIsUp(v) /\ ~At(v, "asleep")
    PROVE  /\ Alone(v)
           /\ Task(v)'.pc \in {"idle", "asleep"}
           /\ Task(v)'.since = [service |-> 0, client |-> 0, lapses |-> 0]
  <1>0. Idle.pc = "idle" /\ Idle.since = [service |-> 0, client |-> 0, lapses |-> 0]
    BY DEF Idle
  <1>1. CASE Answer(v)
    <2>1. /\ viewers \in [Viewers -> Requests]
          /\ viewers' = [viewers EXCEPT ![v] =
                           [task |-> Idle, known |-> Revision(viewers[v].task.result)]]
      BY <1>1 DEF Answer, TypeOK
    <2>2. Task(v)' = Idle /\ Alone(v)
      BY <2>1 DEF Alone, Task
    <2>. QED
      BY <1>0, <2>2
  <1>2. CASE Sleep(v)
    <2>1. Task(v)' = Dozing(Task(v)) /\ Alone(v)
      BY <1>2, Others DEF Sleep, Alone, Task
    <2>2. Dozing(Task(v)).pc = "asleep" /\ Dozing(Task(v)).since = Idle.since
      BY DEF Dozing, Idle
    <2>. QED
      BY <1>0, <2>1, <2>2
  <1>3. CASE ~Answer(v) /\ ~Sleep(v)
    <2>1. viewers' = [viewers EXCEPT ![v].task = Idle]
      BY <1>3 DEF RefreshFails, Disconnected, Cancel, TimeIsUp, At
    <2>. QED
      BY <1>0, <2>1, Others DEF Alone
  <1>. QED
    BY <1>1, <1>2, <1>3

-----------------------------------------------------------------------------
(* What a locked session hides.                                            *)

Hides(v) ==
    /\ Task(v).pc \notin {"idle", "asleep"} /\ session = "open" => Task(v).sawOpen
    /\ Task(v).pc = "store" /\ Task(v).result.shown = "open" => session = "open"
    /\ Task(v).pc = "answer" /\ ~Task(v).sawOpen => Task(v).result.shown # "open"

HideInv ==
    /\ session # "open" => cache = NoCache \/ cache.snapshot.shown # "open"
    /\ \A v \in Viewers : Hides(v)

LEMMA HideInit == Init => HideInv
  BY DEF Init, HideInv, Hides, Idle, Task

LEMMA HideService ==
    ASSUME TypeOK, HideInv,
           \/ Invalidate \/ AnnounceClient \/ ChangeService \/ ChangeClient \/ Lapse
           \/ Lock \/ Stop \/ CloseSession
    PROVE  HideInv'
  <1>1. \A v \in Viewers : Task(v)' = Task(v)
    BY DEF Invalidate, AnnounceClient, ChangeService, ChangeClient, Lapse, Lock, Stop,
           CloseSession, Invalidated, Task
  <1>2. CASE session' = session
    <2>1. cache' = cache \/ cache' = NoCache
      BY DEF Invalidate, AnnounceClient, ChangeService, ChangeClient, Lapse, Lock, Stop,
             CloseSession, Invalidated
    <2>. QED
      BY <1>1, <1>2, <2>1 DEF HideInv, Hides
  <1>3. CASE session' # session
    <2>1. Lock \/ CloseSession
      BY <1>3 DEF Invalidate, AnnounceClient, ChangeService, ChangeClient, Lapse, Stop,
                  lifecycle
    <2>2. cache' = NoCache /\ session' # "open" /\ holder = Nobody
      BY <2>1 DEF Lock, CloseSession, Invalidated
    <2>3. \A v \in Viewers : Task(v).pc # "store"
      BY <2>2, PresentationAssumption DEF TypeOK, Task
    <2>. QED
      BY <1>1, <2>2, <2>3 DEF HideInv, Hides
  <1>. QED
    BY <1>2, <1>3

LEMMA HideUnlock ==
    ASSUME TypeOK, HideInv, Unlock
    PROVE  HideInv'
  <1>1. \A v \in Viewers :
           /\ Task(v)'.pc = Task(v).pc
           /\ Task(v)'.result = Task(v).result
           /\ Task(v)'.sawOpen = (Task(v).sawOpen \/ Task(v).pc # "idle")
    <2>. TAKE v \in Viewers
    <2>1. viewers' = SeenOpen
      BY DEF Unlock
    <2>2. Task(v)' = [Task(v) EXCEPT !.sawOpen = Task(v).sawOpen \/ Task(v).pc # "idle"]
      BY <2>1 DEF SeenOpen, Task, TypeOK, Requests
    <2>. QED
      BY <2>2, TaskTyped DEF TaskSet
  <1>2. session' = "open" /\ cache' = cache
    BY DEF Unlock
  <1>. QED
    BY <1>1, <1>2 DEF HideInv, Hides

LEMMA HideRequest ==
    ASSUME TypeOK, HideInv, NEW v \in Viewers,
           (\E wait \in BOOLEAN : Ask(v, wait)) \/ Advance(v) \/ TimeIsUp(v) \/ Cancel(v)
    PROVE  HideInv'
  <1>0. UNCHANGED session
    BY DEF Ask, Advance, Attach, TakeCached, StartBuild, Refresh, RefreshFails, Project, Store,
           Answer, Sleep, Wake, Disconnected, TimeIsUp, Cancel, lifecycle
  <1>1. Hides(v)' /\ Alone(v)
    <2>1. CASE \/ \E wait \in BOOLEAN : Ask(v, wait)
               \/ Wake(v) \/ (TimeIsUp(v) /\ At(v, "asleep"))
      BY <2>1, <1>0, AfterBegin DEF Hides
    <2>2. CASE Attach(v)
      BY <2>2, <1>0, AfterAttach DEF Hides, HideInv
    <2>3. CASE TakeCached(v)
      BY <2>3, <1>0, AfterCached DEF Hides, HideInv, TakeCached, CacheValid
    <2>4. CASE StartBuild(v)
      BY <2>4, <1>0, AfterStartBuild DEF Hides, HideInv
    <2>5. CASE Refresh(v)
      BY <2>5, <1>0, AfterRefresh DEF Hides, HideInv
    <2>6. CASE Project(v)
      BY <2>6, <1>0, AfterProject DEF Hides, HideInv, Shown, Hidden
    <2>7. CASE Store(v)
      BY <2>7, <1>0, AfterStore DEF Hides, HideInv
    <2>8. CASE \/ RefreshFails(v) \/ Answer(v) \/ Sleep(v) \/ Disconnected(v) \/ Cancel(v)
               \/ TimeIsUp(v) /\ ~At(v, "asleep")
      BY <2>8, AfterEnd DEF Hides
    <2>. QED
      BY <2>1, <2>2, <2>3, <2>4, <2>5, <2>6, <2>7, <2>8 DEF Advance
  <1>2. \A u \in Viewers : Hides(u)'
    BY <1>0, <1>1 DEF HideInv, Hides, Alone
  <1>3. session # "open" => cache' = NoCache \/ cache'.snapshot.shown # "open"
    <2>1. CASE Store(v)
      BY <2>1, AfterStore DEF Store, Entry, HideInv, Hides, Task
    <2>2. CASE ~Store(v)
      <3>1. cache' = cache
        BY <2>2 DEF Ask, Advance, Attach, TakeCached, StartBuild, Refresh, RefreshFails,
                    Project, Answer, Sleep, Wake, Disconnected, TimeIsUp, Cancel
      <3>. QED
        BY <3>1 DEF HideInv
    <2>. QED
      BY <2>1, <2>2
  <1>. QED
    BY <1>0, <1>2, <1>3 DEF HideInv

LEMMA HideStep == TypeOK /\ HideInv /\ [Next]_vars => HideInv'
  <1>. SUFFICES ASSUME TypeOK, HideInv, [Next]_vars PROVE HideInv'
    OBVIOUS
  <1>1. CASE UNCHANGED vars
    BY <1>1 DEF vars, lifecycle, HideInv, Hides, Task
  <1>2. CASE Next
    BY <1>2, HideService, HideUnlock, HideRequest DEF Next
  <1>. QED
    BY <1>1, <1>2

\* A locked or closed session keeps nothing unlocked in the cache and shows none
\* to a request that began after (presentation_snapshot).
THEOREM LockHides == Spec => []LockHidesContent
  <1>1. HideInv => LockHidesContent
    BY DEF HideInv, Hides, LockHidesContent, At, Task
  <1>. QED
    BY <1>1, TypeInit, TypeStep, HideInit, HideStep, PTL DEF Spec

-----------------------------------------------------------------------------
(* How fresh an answer is.                                                 *)

\* The versions of a build are never ahead of the watches.
Behind(built) == built.service <= version.service /\ built.client <= version.client

Current(built, expires) ==
    /\ built.service = version.service /\ built.client = version.client
    /\ expires >= lapses

\* A snapshot that may still be served holds everything announced; if it shows a
\* presence, its deadline or an announcement still to come will end it.
Fits(s, built, expires) ==
    s.shown = "open" /\ Current(built, expires) =>
        /\ s.service >= announced.service
        /\ s.client >= announced.client
        /\ s.active => s.lapses >= lapses /\ (expires <= lapses \/ owed.client > 0)

\* The same of the state after a step, for a build the step does not change.
BehindThen(built) == built.service <= version'.service /\ built.client <= version'.client

FitsThen(s, built, expires) ==
    /\ s.shown = "open"
    /\ built.service = version'.service /\ built.client = version'.client
    /\ expires >= lapses'
    => /\ s.service >= announced'.service
       /\ s.client >= announced'.client
       /\ s.active => s.lapses >= lapses' /\ (expires <= lapses' \/ owed'.client > 0)

\* Between the deadline and the projection a member may be seen, but that will
\* be announced.
Bounded(t) ==
    session = "open" /\ content.active /\ t.built.client = version.client =>
        t.expires <= lapses \/ owed.client > 0

FreshRequest(t) ==
    /\ t.since.service <= announced.service /\ t.since.client <= announced.client
    /\ t.since.lapses <= lapses
    /\ t.pc \in Building => Behind(t.built)
    /\ t.pc = "project" => Bounded(t)
    /\ t.pc = "store" => Fits(t.result, t.built, t.expires) /\ Covers(t.result, t.since)
    /\ t.pc = "answer" => Covers(t.result, t.since)

FreshInv ==
    /\ content.service >= announced.service /\ content.client >= announced.client
    /\ cache # NoCache =>
          Behind(cache.built) /\ Fits(cache.snapshot, cache.built, cache.expires)
    /\ \A v \in Viewers : FreshRequest(Task(v))

LEMMA FreshInit == Init => FreshInv
  <1>. SUFFICES ASSUME Init PROVE FreshInv
    OBVIOUS
  <1>1. \A v \in Viewers : Task(v) = Idle
    BY DEF Init, Task
  <1>2. FreshRequest(Idle)
    BY PresentationAssumption DEF Init, FreshRequest, Idle, Building
  <1>. QED
    BY <1>1, <1>2 DEF Init, FreshInv

\* What the service's own steps do to the counters.
LEMMA Counters ==
    ASSUME TypeOK,
           \/ Invalidate \/ AnnounceClient \/ ChangeService \/ ChangeClient \/ Lapse
           \/ Unlock \/ Lock \/ Stop \/ CloseSession
    PROVE  /\ \/ version'.service = version.service /\ announced'.service = announced.service
              \/ version'.service = version.service + 1
                 /\ announced'.service = content.service
           /\ \/ version'.client = version.client /\ announced'.client = announced.client
                 /\ owed'.client >= owed.client
              \/ version'.client = version.client + 1 /\ announced'.client = content.client
           /\ content'.service >= content.service /\ content'.client >= content.client
           /\ \/ lapses' = lapses
              \/ lapses' = lapses + 1 /\ owed.client = 0 /\ ~content'.active
           /\ \/ content'.active => content.active
              \/ owed'.client > 0 /\ version'.client = version.client
           /\ cache' = cache \/ cache' = NoCache
  <1>. USE DEF TypeOK, Versions, lifecycle, data, watches, Invalidated
  <1>1. CASE Invalidate
    BY <1>1 DEF Invalidate
  <1>2. CASE AnnounceClient
    BY <1>2 DEF AnnounceClient
  <1>3. CASE ChangeService
    BY <1>3 DEF ChangeService
  <1>4. CASE ChangeClient
    <2>1. /\ owed' = [owed EXCEPT !.client = owed.client + 1]
          /\ UNCHANGED <<lapses, version, announced, cache>>
          /\ \E active : content' = [content EXCEPT !.client = content.client + 1,
                                                    !.active = active]
      BY <1>4 DEF ChangeClient
    <2>2. PICK active : content' = [content EXCEPT !.client = content.client + 1,
                                                   !.active = active]
      BY <2>1
    <2>3. owed'.client > 0 /\ owed'.client >= owed.client
      BY <2>1
    <2>4. content'.service >= content.service /\ content'.client >= content.client
      BY <2>2
    <2>. QED
      BY <2>1, <2>3, <2>4
  <1>5. CASE Lapse
    BY <1>5, PresentationAssumption DEF Lapse
  <1>6. CASE Lock \/ Stop \/ CloseSession
    BY <1>6 DEF Lock, Stop, CloseSession
  <1>7. CASE Unlock
    BY <1>7 DEF Unlock
  <1>. QED
    BY <1>1, <1>2, <1>3, <1>4, <1>5, <1>6, <1>7

\* A step of the service keeps what it found fresh.
LEMMA FreshService ==
    ASSUME TypeOK, FreshInv,
           \/ Invalidate \/ AnnounceClient \/ ChangeService \/ ChangeClient \/ Lapse
           \/ Unlock \/ Lock \/ Stop \/ CloseSession
    PROVE  FreshInv'
  <1>0. /\ version.service \in Nat /\ version.client \in Nat
        /\ announced.service \in Nat /\ announced.client \in Nat
        /\ content.service \in Nat /\ content.client \in Nat
        /\ owed.client \in Nat /\ owed'.client \in Nat /\ lapses \in Nat
        /\ content'.service \in Nat /\ content'.client \in Nat
    <2>1. TypeOK'
      BY TypeServiceStep, TypeUnlock
    <2>. QED
      BY <2>1, PresentationAssumption DEF TypeOK, Versions
  <1>1. ASSUME NEW s \in Snapshots, NEW built \in Builds, NEW expires \in 0..MaxLapses,
               Behind(built)
        PROVE  /\ BehindThen(built)
               /\ Fits(s, built, expires) => FitsThen(s, built, expires)
    <2>1. BehindThen(built)
      BY <1>0, <1>1, Counters DEF Behind, BehindThen, Builds
    <2>2. ASSUME Fits(s, built, expires), s.shown = "open",
                 built.service = version'.service, built.client = version'.client,
                 expires >= lapses'
          PROVE  /\ Current(built, expires)
                 /\ announced'.service = announced.service
                 /\ announced'.client = announced.client
                 /\ owed'.client >= owed.client
      BY <1>0, <1>1, <2>2, Counters, PresentationAssumption DEF Behind, Current, Builds
    <2>3. ASSUME Fits(s, built, expires), s.shown = "open",
                 built.service = version'.service, built.client = version'.client,
                 expires >= lapses', s.active
          PROVE  s.lapses >= lapses' /\ (expires <= lapses' \/ owed'.client > 0)
      <3>1. lapses' = lapses
        BY <1>0, <2>2, <2>3, Counters, PresentationAssumption DEF Fits, Current
      <3>. QED
        BY <1>0, <2>2, <2>3, <3>1 DEF Fits
    <2>. QED
      BY <2>1, <2>2, <2>3 DEF Fits, FitsThen
  <1>2. \A v \in Viewers :
           /\ Task(v)'.pc = Task(v).pc /\ Task(v)'.since = Task(v).since
           /\ Task(v)'.built = Task(v).built /\ Task(v)'.expires = Task(v).expires
           /\ Task(v)'.result = Task(v).result
    <2>1. CASE Unlock
      <3>. TAKE v \in Viewers
      <3>1. Task(v)' = [Task(v) EXCEPT !.sawOpen = Task(v).sawOpen \/ Task(v).pc # "idle"]
        BY <2>1 DEF Unlock, SeenOpen, Task, TypeOK, Requests
      <3>. QED
        BY <3>1, TaskTyped DEF TaskSet
    <2>2. CASE ~Unlock
      BY <2>2 DEF Invalidate, AnnounceClient, ChangeService, ChangeClient, Lapse, Lock, Stop,
             CloseSession, Invalidated, Task
    <2>. QED
      BY <2>1, <2>2
  <1>3. ASSUME NEW v \in Viewers PROVE FreshRequest(Task(v))'
    <2>. DEFINE t == Task(v)
    <2>1. /\ t.result \in Snapshots /\ t.built \in Builds /\ t.expires \in 0..MaxLapses
          /\ t.since \in Sinces /\ FreshRequest(t)
      BY TaskTyped DEF TaskSet, FreshInv
    <2>2. /\ t.since.service <= announced'.service /\ t.since.client <= announced'.client
          /\ t.since.lapses <= lapses'
      BY <1>0, <2>1, Counters DEF FreshRequest, FreshInv, Sinces
    <2>3. t.pc \in Building => BehindThen(t.built)
      BY <1>1, <2>1 DEF FreshRequest
    <2>4. t.pc = "store" => FitsThen(t.result, t.built, t.expires)
      BY <1>1, <2>1 DEF FreshRequest, Building
    <2>5. ASSUME t.pc = "project", session' = "open", content'.active,
                 t.built.client = version'.client
          PROVE  t.expires <= lapses' \/ owed'.client > 0
      <3>1. session = "open"
        <4>1. holder = v
          BY <2>5 DEF TypeOK, Task
        <4>. QED
          BY <4>1, <2>5, PresentationAssumption
          DEF Invalidate, AnnounceClient, ChangeService, ChangeClient, Lapse, Unlock, Lock,
              Stop, CloseSession, lifecycle
      <3>2. t.built.client <= version.client
        BY <2>1, <2>5 DEF FreshRequest, Behind, Building
      <3>3. version'.client = version.client /\ owed'.client >= owed.client
        BY <1>0, <2>1, <2>5, <3>2, Counters DEF Builds
      <3>4. CASE content.active
        <4>1. t.expires <= lapses \/ owed.client > 0
          BY <2>1, <2>5, <3>1, <3>3, <3>4 DEF FreshRequest, Bounded
        <4>. QED
          BY <1>0, <2>1, <3>3, <4>1, Counters, PresentationAssumption
      <3>5. CASE ~content.active
        BY <2>5, <3>5, Counters
      <3>. QED
        BY <3>4, <3>5
    <2>6. t.pc \in {"store", "answer"} => Covers(t.result, t.since)
      BY <2>1 DEF FreshRequest
    <2>. QED
      BY <1>2, <2>2, <2>3, <2>4, <2>5, <2>6 
      DEF FreshRequest, Bounded, Behind, BehindThen, Fits, FitsThen, Current, Covers
  <1>4. cache' # NoCache =>
           Behind(cache.built)' /\ Fits(cache.snapshot, cache.built, cache.expires)'
    <2>1. SUFFICES ASSUME cache' # NoCache
                   PROVE  Behind(cache.built)' /\ Fits(cache.snapshot, cache.built, cache.expires)'
      OBVIOUS
    <2>2. cache' = cache /\ cache \in Entries
      BY <2>1, Counters DEF TypeOK
    <2>3. /\ cache.snapshot \in Snapshots /\ cache.built \in Builds
          /\ cache.expires \in 0..MaxLapses
      BY <2>2 DEF Entries
    <2>4. Behind(cache.built) /\ Fits(cache.snapshot, cache.built, cache.expires)
      BY <2>1, <2>2 DEF FreshInv
    <2>. QED
      BY <1>1, <2>2, <2>3, <2>4 DEF Behind, BehindThen, Fits, FitsThen, Current
  <1>5. content'.service >= announced'.service /\ content'.client >= announced'.client
    BY <1>0, Counters DEF FreshInv
  <1>. QED
    BY <1>3, <1>4, <1>5 DEF FreshInv

LEMMA FreshRequestStep ==
    ASSUME TypeOK, FreshInv, NEW v \in Viewers,
           (\E wait \in BOOLEAN : Ask(v, wait)) \/ Advance(v) \/ TimeIsUp(v) \/ Cancel(v)
    PROVE  FreshInv'
  <1>0. UNCHANGED <<session, data, watches>>
    BY DEF Ask, Advance, Attach, TakeCached, StartBuild, Refresh, RefreshFails, Project, Store,
           Answer, Sleep, Wake, Disconnected, TimeIsUp, Cancel, lifecycle
  <1>. DEFINE t == Task(v)
  <1>1. /\ version.service \in Nat /\ version.client \in Nat
        /\ announced.service \in Nat /\ announced.client \in Nat
        /\ content.service \in Nat /\ content.client \in Nat
        /\ owed.client \in Nat /\ lapses \in Nat
    BY PresentationAssumption DEF TypeOK, Versions
  <1>2. /\ t \in TaskSet /\ t.since \in Sinces /\ t.built \in Builds
        /\ t.expires \in 0..MaxLapses /\ t.result \in Snapshots
        /\ FreshRequest(t)
    BY TaskTyped DEF TaskSet, FreshInv
  <1>3. FreshRequest(t)' /\ Alone(v)
    <2>. USE <1>0, <1>1, <1>2 DEF data, watches
    <2>1. CASE \/ \E wait \in BOOLEAN : Ask(v, wait)
               \/ Wake(v) \/ (TimeIsUp(v) /\ At(v, "asleep"))
      BY <2>1, AfterBegin DEF FreshRequest, Building
    <2>2. CASE Attach(v)
      BY <2>2, AfterAttach DEF FreshRequest, Building
    <2>3. CASE TakeCached(v)
      <3>1. /\ cache \in Entries /\ Current(cache.built, cache.expires)
            /\ cache.snapshot \in Snapshots
            /\ Fits(cache.snapshot, cache.built, cache.expires)
        BY <2>3, PresentationAssumption
        DEF TakeCached, CacheValid, Current, TypeOK, Entries, FreshInv
      <3>2. Covers(cache.snapshot, t.since)
        <4>1. SUFFICES ASSUME cache.snapshot.shown = "open" PROVE Covers(cache.snapshot, t.since)
          BY DEF Covers
        <4>2. /\ cache.snapshot.service \in Nat /\ cache.snapshot.client \in Nat
              /\ cache.snapshot.lapses \in Nat
          BY <3>1, <4>1 DEF Snapshots, NoCache, Hidden
        <4>. QED
          BY <3>1, <4>1, <4>2 DEF Fits, Covers, FreshRequest, Sinces
      <3>. QED
        BY <2>3, <3>2, AfterCached DEF FreshRequest, Building
    <2>4. CASE StartBuild(v)
      BY <2>4, AfterStartBuild DEF FreshRequest, Building, Behind
    <2>5. CASE Refresh(v)
      <3>1. Deadline = IF session = "open" /\ content.active THEN lapses ELSE MaxLapses
        BY DEF Deadline
      <3>. QED
        BY <2>5, <3>1, AfterRefresh DEF FreshRequest, Building, Behind, Bounded
    <2>6. CASE Project(v)
      <3>1. Covers(Shown, t.since)
        BY DEF Covers, Shown, Hidden, FreshRequest, FreshInv, Sinces
      <3>2. Fits(Shown, t.built, t.expires)
        <4>1. CASE session = "open"
          <5>1. /\ Shown.service = content.service /\ Shown.client = content.client
                /\ Shown.active = content.active /\ Shown.lapses = lapses
            BY <4>1 DEF Shown
          <5>2. Bounded(t)
            BY <2>6, AfterProject DEF FreshRequest
          <5>. QED
            BY <4>1, <5>1, <5>2 DEF Fits, Current, Bounded, FreshInv
        <4>2. CASE session # "open"
          BY <4>2 DEF Fits, Shown, Hidden
        <4>. QED
          BY <4>1, <4>2
      <3>. QED
        BY <2>6, <3>1, <3>2, AfterProject
        DEF FreshRequest, Building, Behind, Fits, Current, Covers
    <2>7. CASE Store(v)
      BY <2>7, AfterStore DEF FreshRequest, Building, Covers
    <2>8. CASE \/ RefreshFails(v) \/ Answer(v) \/ Sleep(v) \/ Disconnected(v) \/ Cancel(v)
               \/ TimeIsUp(v) /\ ~At(v, "asleep")
      BY <2>8, AfterEnd DEF FreshRequest, Building
    <2>. QED
      BY <2>1, <2>2, <2>3, <2>4, <2>5, <2>6, <2>7, <2>8 DEF Advance
  <1>4. ASSUME NEW u \in Viewers PROVE FreshRequest(Task(u))'
    <2>1. CASE u = v
      BY <1>3, <2>1
    <2>2. CASE u # v
      BY <1>0, <1>3, <2>2
      DEF Alone, FreshInv, FreshRequest, Behind, Bounded, Fits, Current, Covers, data, watches
    <2>. QED
      BY <2>1, <2>2
  <1>5. cache' # NoCache =>
           Behind(cache.built)' /\ Fits(cache.snapshot, cache.built, cache.expires)'
    <2>1. CASE Store(v)
      <3>1. /\ t.pc = "store" /\ Behind(t.built) /\ Fits(t.result, t.built, t.expires)
            /\ cache'.built = t.built /\ cache'.snapshot = t.result
            /\ cache'.expires = t.expires
        BY <2>1, <1>2, AfterStore DEF Store, Entry, Task, FreshRequest, Building
      <3>. QED
        BY <1>0, <3>1 DEF Behind, Fits, Current, data, watches
    <2>2. CASE ~Store(v)
      <3>1. cache' = cache
        BY <2>2 DEF Ask, Advance, Attach, TakeCached, StartBuild, Refresh, RefreshFails,
                    Project, Answer, Sleep, Wake, Disconnected, TimeIsUp, Cancel
      <3>. QED
        BY <1>0, <3>1 DEF FreshInv, Behind, Fits, Current, data, watches
    <2>. QED
      BY <2>1, <2>2
  <1>. QED
    BY <1>0, <1>4, <1>5 DEF FreshInv, data, watches

LEMMA FreshStep == TypeOK /\ FreshInv /\ [Next]_vars => FreshInv'
  <1>. SUFFICES ASSUME TypeOK, FreshInv, [Next]_vars PROVE FreshInv'
    OBVIOUS
  <1>1. CASE UNCHANGED vars
    BY <1>1 DEF vars, lifecycle, data, watches, FreshInv, FreshRequest, Behind, Bounded, Fits,
                Current, Covers, Task
  <1>2. CASE Next
    BY <1>2, FreshService, FreshRequestStep DEF Next
  <1>. QED
    BY <1>1, <1>2

\* Every answer holds what was announced before its request began
\* (presentation_snapshot, wait_for_changes).
THEOREM AnswersFresh == Spec => []AnswersAreFresh
  <1>1. FreshInv => AnswersAreFresh
    BY DEF FreshInv, FreshRequest, AnswersAreFresh, At, Task
  <1>. QED
    BY <1>1, TypeInit, TypeStep, FreshInit, FreshStep, PTL DEF Spec

=============================================================================
