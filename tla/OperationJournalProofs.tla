----------------------- MODULE OperationJournalProofs -----------------------
(***************************************************************************)
(* Theorems about OperationJournal for every set of identifiers, contents  *)
(* and callers and every retention time: type correctness, execution at    *)
(* most once, the durability of what was executed, and the quiescence of a *)
(* paused instance.                                                        *)
(***************************************************************************)
EXTENDS OperationJournal, FiniteSetTheorems, TLAPS

-----------------------------------------------------------------------------
(* The inductive invariant.                                                *)

Holds(ops, id, at) == Present(ops[id]) /\ ops[id].at = at

\* The record of an admission is in the file, and in memory while there is a
\* session, until it expires.
Kept(id, at) ==
    \/ Expired(at)
    \/ Holds(disk, id, at) /\ (session # "none" => Holds(mem, id, at))

\* The operation is admitted and its protocol call is still to come.
Unsent(t) == Admitted(t) /\ t.pc \in {"spawned", "entered", "executing"}

TasksKept == \A c \in Callers : Admitted(tasks[c]) => Kept(tasks[c].id, tasks[c].at)

EffectsKept == \A e \in effects : Kept(e.id, e.at)

\* Two admissions of one identifier in flight are a retention time apart, and
\* so is an admission whose call is to come from every call that was made.
TasksApart ==
    \A c, d \in Callers :
        c # d /\ Admitted(tasks[c]) /\ Admitted(tasks[d]) /\ tasks[c].id = tasks[d].id
            => Apart(tasks[c].at, tasks[d].at)

EffectsApart ==
    \A c \in Callers, e \in effects :
        Unsent(tasks[c]) /\ e.id = tasks[c].id => Apart(e.at, tasks[c].at)

\* A completion saves one of the two known outcomes.
CompletesKnown ==
    \A c \in Callers : Step(c, "completing") => tasks[c].outcome \in Known

GuardedCallers == {c \in Callers : Guarded(tasks[c])}

\* The gate counts the handlers.
CountsGuards == requests = Cardinality(GuardedCallers)

TypeInv == TypeOK /\ CompletesKnown /\ CountsGuards

\* Every request carries the digest of its contents.
HaveContents == \A c \in Callers : ~Step(c, "idle") => tasks[c].digest \in Contents

OnceInv == TasksKept /\ EffectsKept /\ TasksApart /\ EffectsApart /\ HaveContents

\* The gate names every worker, unless the clock jumps.
NamesWorkers ==
    \A c \in Callers : Admitted(tasks[c]) /\ Rpc(c) => tasks[c].id \in operations

Timely ==
    \A c \in Callers :
        Admitted(tasks[c]) => tasks[c].at <= now /\ now < tasks[c].at + Retention

\* Only a worker is outside handle_mode and yet at work.
ViaRpc == \A c \in Callers : tasks[c].pc \in {"spawned", "completing"} => Rpc(c)

GateInv == NamesWorkers /\ Timely /\ ViaRpc /\ PausedIsQuiescent

-----------------------------------------------------------------------------
(* Facts about the operators of the model.                                 *)

\* Defaults and record updates stay within the types.
LEMMA DefaultTypes == Idle \in Tasks /\ Absent \in Records /\ EmptyJournal \in [Ids -> Records]
<1>1. (CHOOSE id \in Ids : TRUE) \in Ids
  BY JournalAssumption
<1>2. 0 \in Times
  BY JournalAssumption DEF Times
<1>3. Absent \in Records
  BY <1>2 DEF Absent, Records
<1> QED
  BY <1>1, <1>2, <1>3 DEF Idle, Tasks, EmptyJournal

\* A candidate journal is a journal: pruning and the insertion of a record.
LEMMA CandidateTypes ==
    ASSUME mem \in [Ids -> Records], now \in Times,
           NEW id \in Ids, NEW d \in Contents \cup {NoContent}, NEW b \in BOOLEAN
    PROVE  /\ Retain(mem) \in [Ids -> Records]
           /\ [Retain(mem) EXCEPT ![id] = Admission(d, b)] \in [Ids -> Records]
<1>1. Retain(mem) \in [Ids -> Records]
  BY DefaultTypes DEF Retain
<1>2. Admission(d, b) \in Records
  BY DEF Admission, Records
<1> QED
  BY <1>1, <1>2

\* Recording an outcome in a record, on either dialect.
LEMMA OutcomeTypes ==
    ASSUME mem \in [Ids -> Records], tasks \in [Callers -> Tasks], NEW c \in Callers
    PROVE  /\ WithResponse(c) \in [Ids -> Records]
           /\ tasks[c].outcome \in Known => WithResult(c) \in [Ids -> Records]
<1>1. tasks[c] \in Tasks
  OBVIOUS
<1>2. tasks[c].id \in Ids /\ tasks[c].outcome \in Outcomes \cup {"none"}
  BY <1>1 DEF Tasks
<1>3. \A r \in Records : [r EXCEPT !.response = tasks[c].outcome] \in Records
  BY <1>2 DEF Records
<1>4. tasks[c].outcome \in Known =>
          \A r \in Records : [r EXCEPT !.result = tasks[c].outcome] \in Records
  BY DEF Records
<1> QED
  BY <1>2, <1>3, <1>4 DEF WithResponse, WithResult

\* When one task changes, the number of guarded callers changes with it.
LEMMA GuardCount ==
    ASSUME tasks \in [Callers -> Tasks], NEW c \in Callers, NEW t \in Tasks,
           tasks' = [tasks EXCEPT ![c] = t]
    PROVE  /\ Cardinality(GuardedCallers) \in Nat
           /\ Guarded(tasks[c]) => Cardinality(GuardedCallers) > 0
           /\ Guarded(t) /\ ~Guarded(tasks[c]) =>
                 Cardinality(GuardedCallers') = Cardinality(GuardedCallers) + 1
           /\ ~Guarded(t) /\ Guarded(tasks[c]) =>
                 Cardinality(GuardedCallers') = Cardinality(GuardedCallers) - 1
           /\ (Guarded(t) <=> Guarded(tasks[c])) =>
                 Cardinality(GuardedCallers') = Cardinality(GuardedCallers)
<1>1. IsFiniteSet(GuardedCallers)
  BY FS_Subset, JournalAssumption DEF GuardedCallers
<1>2. Cardinality(GuardedCallers) \in Nat
  BY <1>1, FS_CardinalityType
<1>3. Guarded(tasks[c]) => Cardinality(GuardedCallers) > 0
  <2> SUFFICES ASSUME Guarded(tasks[c]) PROVE Cardinality(GuardedCallers) # 0
    BY <1>2
  <2> c \in GuardedCallers
    BY DEF GuardedCallers
  <2> QED
    BY <1>1, FS_EmptySet
<1>4. CASE Guarded(t) /\ ~Guarded(tasks[c])
  <2>1. GuardedCallers' = GuardedCallers \cup {c} /\ c \notin GuardedCallers
    BY <1>4 DEF GuardedCallers, Guarded
  <2> QED
    BY <1>1, <1>2, <1>3, <1>4, <2>1, FS_AddElement
<1>5. CASE ~Guarded(t) /\ Guarded(tasks[c])
  <2>1. GuardedCallers' = GuardedCallers \ {c} /\ c \in GuardedCallers
    BY <1>5 DEF GuardedCallers, Guarded
  <2> QED
    BY <1>1, <1>2, <1>3, <1>5, <2>1, FS_RemoveElement
<1>6. CASE Guarded(t) <=> Guarded(tasks[c])
  <2>1. GuardedCallers' = GuardedCallers
    BY <1>6 DEF GuardedCallers, Guarded
  <2> QED
    BY <1>2, <1>3, <1>6, <2>1
<1> QED
  BY <1>4, <1>5, <1>6

-----------------------------------------------------------------------------
(* Type correctness.  GateTypes is what a change of tasks and gate must    *)
(* preserve; the lemmas are named for the change.                          *)

GateTypes ==
    /\ tasks \in [Callers -> Tasks]
    /\ requests \in Nat
    /\ operations \subseteq Ids
    /\ CompletesKnown
    /\ CountsGuards

LEMMA EndTypes ==
    ASSUME GateTypes, NEW c \in Callers, End(c)
    PROVE  GateTypes'
<1>1. tasks' = [tasks EXCEPT ![c] = Idle] /\ Idle \in Tasks /\ ~Guarded(Idle)
  BY DefaultTypes DEF End, Idle, Guarded
<1>2. tasks' \in [Callers -> Tasks]
  BY <1>1 DEF GateTypes
<1>3. CountsGuards' /\ requests' \in Nat
  <2>1. CASE Guarded(tasks[c])
    <3>1. /\ Cardinality(GuardedCallers) \in Nat
          /\ Cardinality(GuardedCallers) > 0
          /\ Cardinality(GuardedCallers') = Cardinality(GuardedCallers) - 1
      BY <1>1, <2>1, GuardCount DEF GateTypes
    <3> QED
      BY <2>1, <3>1 DEF GateTypes, CountsGuards, End
  <2>2. CASE ~Guarded(tasks[c])
    <3>1. Cardinality(GuardedCallers') = Cardinality(GuardedCallers)
      BY <1>1, <2>2, GuardCount DEF GateTypes
    <3> QED
      BY <2>2, <3>1 DEF GateTypes, CountsGuards, End
  <2> QED
    BY <2>1, <2>2
<1>4. CompletesKnown'
  BY <1>1 DEF GateTypes, CompletesKnown, Step, Idle
<1>5. operations' \subseteq Ids
  BY DEF End, GateTypes
<1> QED
  BY <1>2, <1>3, <1>4, <1>5 DEF GateTypes

\* A task takes another place without passing the door of handle_mode.
LEMMA MoveTypes ==
    ASSUME GateTypes, NEW c \in Callers, NEW t \in Tasks,
           tasks' = [tasks EXCEPT ![c] = t], Guarded(t) <=> Guarded(tasks[c]),
           t.pc = "completing" => t.outcome \in Known,
           UNCHANGED requests, operations' \subseteq Ids
    PROVE  GateTypes'
<1>1. tasks' \in [Callers -> Tasks]
  BY DEF GateTypes
<1>2. CountsGuards'
  <2>1. Cardinality(GuardedCallers') = Cardinality(GuardedCallers)
    BY GuardCount DEF GateTypes
  <2> QED
    BY <2>1 DEF GateTypes, CountsGuards
<1>3. CompletesKnown'
  BY DEF GateTypes, CompletesKnown, Step
<1> QED
  BY <1>1, <1>2, <1>3 DEF GateTypes

LEMMA EnterTypes ==
    ASSUME GateTypes, NEW c \in Callers, NEW t \in Tasks,
           tasks' = [tasks EXCEPT ![c] = t], t.pc = "entered", ~Guarded(tasks[c]),
           requests' = requests + 1, UNCHANGED operations
    PROVE  GateTypes'
<1>1. tasks' \in [Callers -> Tasks] /\ Guarded(t)
  BY DEF GateTypes, Guarded
<1>2. CountsGuards' /\ requests' \in Nat
  <2>1. /\ Cardinality(GuardedCallers) \in Nat
        /\ Cardinality(GuardedCallers') = Cardinality(GuardedCallers) + 1
    BY <1>1, GuardCount DEF GateTypes
  <2> QED
    BY <2>1 DEF GateTypes, CountsGuards
<1>3. CompletesKnown'
  BY DEF GateTypes, CompletesKnown, Step
<1> QED
  BY <1>1, <1>2, <1>3 DEF GateTypes

LEMMA AwaitTypes ==
    ASSUME GateTypes, NEW c \in Callers, Guarded(tasks[c]),
           NEW outcome \in Known, AwaitCompletion(c, outcome)
    PROVE  GateTypes'
<1>0. tasks[c] \in Tasks
  BY DEF GateTypes
<1>a. [tasks[c] EXCEPT !.pc = "completing", !.outcome = outcome] \in Tasks
  BY <1>0 DEF Tasks, Outcomes
<1>1. PICK t \in Tasks : t = [tasks[c] EXCEPT !.pc = "completing", !.outcome = outcome]
  BY <1>a
<1>b. t.pc = "completing" /\ t.outcome = outcome
  BY <1>0, <1>1 DEF Tasks
<1>2. tasks' = [tasks EXCEPT ![c] = t]
  BY <1>1 DEF AwaitCompletion, GateTypes
<1>3. tasks' \in [Callers -> Tasks] /\ ~Guarded(t)
  BY <1>b, <1>2 DEF GateTypes, Guarded
<1>4. CountsGuards' /\ requests' \in Nat
  <2>1. /\ Cardinality(GuardedCallers) \in Nat
        /\ Cardinality(GuardedCallers) > 0
        /\ Cardinality(GuardedCallers') = Cardinality(GuardedCallers) - 1
    BY <1>2, <1>3, GuardCount DEF GateTypes
  <2> QED
    BY <2>1 DEF GateTypes, CountsGuards, AwaitCompletion
<1>5. CompletesKnown'
  BY <1>b, <1>2 DEF GateTypes, CompletesKnown, Step
<1> QED
  BY <1>3, <1>4, <1>5 DEF GateTypes, AwaitCompletion

\* What the clients are told has the type of an outcome.
ToldType == told \subseteq [id : Ids, at : Times, outcome : Known \cup {"refused"}]

LEMMA ReturnTypes ==
    ASSUME GateTypes, ToldType, NEW c \in Callers, Guarded(tasks[c]),
           NEW at \in Times, NEW outcome, Return(c, at, outcome)
    PROVE  GateTypes' /\ ToldType'
<1>1. CASE Rpc(c) /\ outcome \in Known
  BY <1>1, AwaitTypes DEF Return, ToldType
<1>2. CASE Rpc(c) /\ outcome \notin Known
  BY <1>2, EndTypes DEF Return, ToldType
<1>3. CASE ~Rpc(c)
  <2>1. tasks[c].id \in Ids
    BY DEF GateTypes, Tasks
  <2> QED
    BY <1>3, <2>1, EndTypes DEF Return, ToldType, Tell
<1> QED
  BY <1>1, <1>2, <1>3

LEMMA ReturnErrTypes ==
    ASSUME GateTypes, ToldType, NEW c \in Callers, NEW at \in Times, ReturnErr(c, at)
    PROVE  GateTypes' /\ ToldType'
<1>1. tasks[c].id \in Ids
  BY DEF GateTypes, Tasks
<1> QED
  BY <1>1, EndTypes DEF ReturnErr, ToldType, Tell

OtherTypes ==
    /\ session \in {"none", "open", "locked"}
    /\ mem \in [Ids -> Records]
    /\ disk \in [Ids -> Records]
    /\ paused \in BOOLEAN
    /\ stopped \in BOOLEAN
    /\ now \in Times
    /\ effects \subseteq [id : Ids, at : Times]

LEMMA TypeParts == TypeInv <=> GateTypes /\ ToldType /\ OtherTypes
BY DEF TypeInv, TypeOK, GateTypes, ToldType, OtherTypes

LEMMA TypeInit == Init => TypeInv
<1> SUFFICES ASSUME Init PROVE TypeInv
  OBVIOUS
<1>1. \A c \in Callers : tasks[c] = Idle /\ Idle.pc = "idle"
  BY DEF Init, Idle
<1>2. GuardedCallers = {}
  BY <1>1 DEF GuardedCallers, Guarded
<1>3. CountsGuards
  BY <1>2, FS_EmptySet DEF CountsGuards, Init
<1>4. CompletesKnown
  BY <1>1 DEF CompletesKnown, Step
<1>5. TypeOK
  <2>1. 0 \in Times /\ [c \in Callers |-> Idle] \in [Callers -> Tasks]
    BY DefaultTypes, JournalAssumption DEF Times
  <2>2. disk \in [Ids -> Records] /\ mem \in [Ids -> Records]
    BY DefaultTypes DEF Init
  <2>3. effects \subseteq [id : Ids, at : Times]
    BY DEF Init
  <2>4. told \subseteq [id : Ids, at : Times, outcome : Known \cup {"refused"}]
    BY DEF Init
  <2> QED
    BY <2>1, <2>2, <2>3, <2>4 DEF Init, TypeOK
<1> QED
  BY <1>3, <1>4, <1>5 DEF TypeInv

\* Saving a candidate leaves a journal in the file, whatever the outcome.
LEMMA SaveTypes ==
    ASSUME disk \in [Ids -> Records], NEW candidate \in [Ids -> Records],
           SaveFails(candidate)
    PROVE  disk' \in [Ids -> Records]
BY DEF SaveFails

LEMMA TypeStep == TypeInv /\ [Next]_vars => TypeInv'
<1> SUFFICES ASSUME GateTypes, ToldType, OtherTypes, [Next]_vars
             PROVE  (GateTypes /\ ToldType /\ OtherTypes)'
  BY TypeParts DEF TypeInv, TypeOK, GateTypes, ToldType, OtherTypes
<1> USE DEF journal, gate
<1>1. \A c \in Callers : tasks[c] \in Tasks
  BY DEF GateTypes
<1>2. mem \in [Ids -> Records] /\ disk \in [Ids -> Records] /\ now \in Times
  BY DEF OtherTypes
<1>3. ASSUME NEW c \in Callers, NEW id \in Ids, NEW d \in Contents, Submit(c, id, d)
      PROVE  (GateTypes /\ ToldType /\ OtherTypes)'
  <2>0. [Idle EXCEPT !.pc = "entered", !.id = id, !.digest = d] \in Tasks
    BY DefaultTypes DEF Tasks
  <2>1. PICK t \in Tasks : t = [Idle EXCEPT !.pc = "entered", !.id = id, !.digest = d]
    BY <2>0
  <2>2. ~Guarded(tasks[c]) /\ tasks' = [tasks EXCEPT ![c] = t] /\ t.pc = "entered"
    BY <1>3, <2>1, DefaultTypes DEF Submit, Step, Guarded, Tasks
  <2>3. GateTypes'
    BY <1>3, <2>1, <2>2, EnterTypes DEF Submit
  <2> QED
    BY <1>3, <2>3 DEF Submit, ToldType, OtherTypes
<1>4. ASSUME NEW c \in Callers, NEW id \in Ids, NEW d \in Contents, RpcAdmit(c, id, d)
      PROVE  (GateTypes /\ ToldType /\ OtherTypes)'
  <2>0. [Idle EXCEPT !.pc = "spawned", !.via = "rpc", !.id = id, !.digest = d,
                     !.at = now] \in Tasks
    BY <1>2, DefaultTypes DEF Tasks
  <2>1. PICK t \in Tasks : t = [Idle EXCEPT !.pc = "spawned", !.via = "rpc", !.id = id,
                                            !.digest = d, !.at = now]
    BY <2>0
  <2>2. t.pc = "spawned" /\ tasks' = [tasks EXCEPT ![c] = t]
    BY <1>4, <2>1, DefaultTypes DEF RpcAdmit, Tasks
  <2>a. ~Guarded(t) /\ ~Guarded(tasks[c])
    BY <1>4, <2>2 DEF RpcAdmit, RpcMayAdmit, Step, Guarded
  <2>3. GateTypes'
    BY <1>4, <2>a, <2>2, MoveTypes DEF RpcAdmit, GateTypes
  <2>4. RpcCandidate(id, d) \in [Ids -> Records]
    BY <1>2, CandidateTypes DEF RpcCandidate
  <2> QED
    BY <1>4, <2>3, <2>4 DEF RpcAdmit, ToldType, OtherTypes
<1>5. ASSUME NEW c \in Callers, NEW id \in Ids, NEW d \in Contents, RpcAdmitFails(c, id, d)
      PROVE  (GateTypes /\ ToldType /\ OtherTypes)'
  <2>1. RpcCandidate(id, d) \in [Ids -> Records]
    BY <1>2, CandidateTypes DEF RpcCandidate
  <2>2. disk' \in [Ids -> Records]
    BY <1>2, <1>5, <2>1, SaveTypes DEF RpcAdmitFails
  <2> QED
    BY <1>5, <2>2 DEF RpcAdmitFails, ToldType, OtherTypes, GateTypes, CompletesKnown,
          CountsGuards, GuardedCallers, Step
<1>6. ASSUME NEW id \in Ids, RpcRead(id) PROVE (GateTypes /\ ToldType /\ OtherTypes)'
  <2>1. mem[id].at \in Times
    BY <1>2 DEF Records
  <2>2. ToldType'
    BY <1>6, <2>1 DEF RpcRead, ToldType
  <2> QED
    BY <1>6, <2>2 DEF RpcRead, OtherTypes, GateTypes, CompletesKnown,
          CountsGuards, GuardedCallers, Step
<1>7. ASSUME NEW c \in Callers, EnterAdmitted(c) PROVE (GateTypes /\ ToldType /\ OtherTypes)'
  <2>1. CASE paused
    BY <1>7, <2>1, EndTypes DEF EnterAdmitted, ToldType, OtherTypes
  <2>2. CASE ~paused
    <3>1. [tasks[c] EXCEPT !.pc = "entered"] \in Tasks
      BY <1>1 DEF Tasks
    <3>2. PICK t \in Tasks : t = [tasks[c] EXCEPT !.pc = "entered"]
      BY <3>1
    <3>3. t.pc = "entered" /\ ~Guarded(tasks[c]) /\ tasks' = [tasks EXCEPT ![c] = t]
      BY <1>1, <1>7, <2>2, <3>2 DEF EnterAdmitted, Step, Guarded, Tasks, GateTypes
    <3>4. GateTypes'
      BY <1>7, <2>2, <3>3, EnterTypes DEF EnterAdmitted
    <3> QED
      BY <1>7, <3>4 DEF EnterAdmitted, ToldType, OtherTypes
  <2> QED
    BY <2>1, <2>2
<1>8. ASSUME NEW c \in Callers, ReplyLocked(c) PROVE (GateTypes /\ ToldType /\ OtherTypes)'
  <2>1. Guarded(tasks[c])
    BY <1>8 DEF ReplyLocked, Locked, Step, Guarded
  <2>2. GateTypes'
    BY <1>8, <2>1, EndTypes, AwaitTypes DEF ReplyLocked, Known
  <2> QED
    BY <1>8, <2>2 DEF ReplyLocked, ToldType, OtherTypes
<1>9. ASSUME NEW c \in Callers, ReplyRecorded(c) PROVE (GateTypes /\ ToldType /\ OtherTypes)'
  <2>1. Guarded(tasks[c])
    BY <1>9 DEF ReplyRecorded, Locked, Step, Guarded
  <2>2. Record(c).at \in Times
    BY <1>1, <1>2 DEF Record, Records, Tasks
  <2>3. GateTypes' /\ ToldType'
    BY <1>9, <2>1, <2>2, ReturnTypes DEF ReplyRecorded
  <2> QED
    BY <1>9, <2>3 DEF ReplyRecorded, OtherTypes
<1>10. ASSUME NEW c \in Callers, Refuse(c) \/ RecordOutcomePanics(c)
       PROVE  (GateTypes /\ ToldType /\ OtherTypes)'
  BY <1>10, EndTypes DEF Refuse, RecordOutcomePanics, ToldType, OtherTypes
<1>11. ASSUME NEW c \in Callers, RefuseFull(c) PROVE (GateTypes /\ ToldType /\ OtherTypes)'
  <2>1. Retain(mem) \in [Ids -> Records]
    BY <1>2, DefaultTypes DEF Retain
  <2> QED
    BY <1>11, <2>1, EndTypes DEF RefuseFull, ToldType, OtherTypes
<1>12. ASSUME NEW c \in Callers
       PROVE  LegacyCandidate(c) \in [Ids -> Records]
  BY <1>1, <1>2, CandidateTypes DEF LegacyCandidate, Tasks
<1>13. ASSUME NEW c \in Callers, AdmitLegacy(c) PROVE (GateTypes /\ ToldType /\ OtherTypes)'
  <2>1. [tasks[c] EXCEPT !.pc = "executing", !.at = now] \in Tasks
    BY <1>1, <1>2 DEF Tasks
  <2>2. PICK t \in Tasks : t = [tasks[c] EXCEPT !.pc = "executing", !.at = now]
    BY <2>1
  <2>3. t.pc = "executing" /\ tasks' = [tasks EXCEPT ![c] = t]
    BY <1>1, <1>13, <2>2 DEF AdmitLegacy, Tasks, GateTypes
  <2>4. Guarded(t) /\ Guarded(tasks[c])
    BY <1>13, <2>3 DEF AdmitLegacy, LegacyMayAdmit, Locked, Step, Guarded
  <2>5. UNCHANGED requests /\ operations' \subseteq Ids
    BY <1>13 DEF AdmitLegacy, GateTypes
  <2>6. GateTypes'
    BY <2>3, <2>4, <2>5, MoveTypes
  <2> QED
    BY <1>12, <1>13, <2>6 DEF AdmitLegacy, ToldType, OtherTypes
<1>14. ASSUME NEW c \in Callers, AdmitLegacyFails(c)
       PROVE  (GateTypes /\ ToldType /\ OtherTypes)'
  <2>1. GateTypes' /\ ToldType'
    BY <1>2, <1>14, ReturnErrTypes DEF AdmitLegacyFails
  <2>2. disk' \in [Ids -> Records]
    BY <1>2, <1>12, <1>14, SaveTypes DEF AdmitLegacyFails
  <2> QED
    BY <1>12, <1>14, <2>1, <2>2 DEF AdmitLegacyFails, OtherTypes
<1>15. ASSUME NEW c \in Callers, StartWorker(c) PROVE (GateTypes /\ ToldType /\ OtherTypes)'
  <2>1. [tasks[c] EXCEPT !.pc = "executing"] \in Tasks
    BY <1>1 DEF Tasks
  <2>2. PICK t \in Tasks : t = [tasks[c] EXCEPT !.pc = "executing"]
    BY <2>1
  <2>3. t.pc = "executing" /\ tasks' = [tasks EXCEPT ![c] = t]
    BY <1>1, <1>15, <2>2 DEF StartWorker, Tasks, GateTypes
  <2>4. Guarded(t) /\ Guarded(tasks[c])
    BY <1>15, <2>3 DEF StartWorker, WorkerMayStart, Locked, Step, Guarded
  <2>5. UNCHANGED requests /\ operations' \subseteq Ids
    BY <1>15 DEF StartWorker, GateTypes
  <2>6. GateTypes'
    BY <2>3, <2>4, <2>5, MoveTypes
  <2> QED
    BY <1>15, <2>6 DEF StartWorker, ToldType, OtherTypes
<1>16. ASSUME NEW c \in Callers, StartWorkerFails(c)
       PROVE  (GateTypes /\ ToldType /\ OtherTypes)'
  <2>0. tasks[c].at \in Times
    BY <1>1 DEF Tasks
  <2>1. GateTypes' /\ ToldType'
    BY <1>16, <2>0, ReturnErrTypes DEF StartWorkerFails
  <2>2. disk' \in [Ids -> Records]
    BY <1>2, <1>16, SaveTypes DEF StartWorkerFails
  <2> QED
    BY <1>16, <2>1, <2>2 DEF StartWorkerFails, OtherTypes
<1>17. ASSUME NEW c \in Callers, NEW outcome \in Outcomes, Executed(c, outcome)
       PROVE  GateTypes' /\ ToldType' /\ (Effect(c) \subseteq [id : Ids, at : Times])
  <2>1. [tasks[c] EXCEPT !.pc = "executed", !.outcome = outcome] \in Tasks
    BY <1>1 DEF Tasks
  <2>2. PICK t \in Tasks : t = [tasks[c] EXCEPT !.pc = "executed", !.outcome = outcome]
    BY <2>1
  <2>3. t.pc = "executed" /\ tasks' = [tasks EXCEPT ![c] = t]
    BY <1>1, <1>17, <2>2 DEF Executed, Tasks, GateTypes
  <2>4. Guarded(t) /\ Guarded(tasks[c])
    BY <1>17, <2>3 DEF Executed, Step, Guarded
  <2>5. UNCHANGED requests /\ operations' \subseteq Ids
    BY <1>17 DEF Executed, GateTypes
  <2>6. GateTypes'
    BY <2>3, <2>4, <2>5, MoveTypes
  <2> QED
    BY <1>1, <1>17, <2>6 DEF Executed, ToldType, OtherTypes, Effect, Tasks
<1>18. ASSUME NEW c \in Callers, Reject(c) \/ Execute(c) \/ ExecuteFails(c)
       PROVE  (GateTypes /\ ToldType /\ OtherTypes)'
  <2>1. PICK outcome \in Outcomes : Executed(c, outcome)
    BY <1>18 DEF Reject, Execute, ExecuteFails, Outcomes, Known
  <2>2. effects' \subseteq [id : Ids, at : Times]
    BY <1>17, <1>18, <2>1 DEF Reject, Execute, ExecuteFails, OtherTypes
  <2> QED
    BY <1>17, <2>1, <2>2 DEF Executed, OtherTypes
<1>19. ASSUME NEW c \in Callers, SaveClient(c) PROVE (GateTypes /\ ToldType /\ OtherTypes)'
  <2>1. [tasks[c] EXCEPT !.pc = "recording"] \in Tasks
    BY <1>1 DEF Tasks
  <2>2. PICK t \in Tasks : t = [tasks[c] EXCEPT !.pc = "recording"]
    BY <2>1
  <2>3. t.pc = "recording" /\ tasks' = [tasks EXCEPT ![c] = t]
    BY <1>1, <1>19, <2>2 DEF SaveClient, Tasks, GateTypes
  <2>4. Guarded(t) /\ Guarded(tasks[c])
    BY <1>19, <2>3 DEF SaveClient, Step, Guarded
  <2>5. UNCHANGED requests /\ operations' \subseteq Ids
    BY <1>19 DEF SaveClient, GateTypes
  <2>6. GateTypes'
    BY <2>3, <2>4, <2>5, MoveTypes
  <2> QED
    BY <1>19, <2>6 DEF SaveClient, ToldType, OtherTypes
<1>20. ASSUME NEW c \in Callers, SaveClientFails(c) \/ RecordOutcomeFails(c)
       PROVE  (GateTypes /\ ToldType /\ OtherTypes)'
  <2>0. tasks[c].at \in Times
    BY <1>1 DEF Tasks
  <2>1. GateTypes' /\ ToldType'
    BY <1>20, <2>0, ReturnErrTypes DEF SaveClientFails, RecordOutcomeFails
  <2>2. WithResponse(c) \in [Ids -> Records]
    BY <1>2, OutcomeTypes DEF GateTypes
  <2>3. disk' \in [Ids -> Records]
    BY <1>2, <1>20, <2>2, SaveTypes DEF SaveClientFails, RecordOutcomeFails
  <2> QED
    BY <1>20, <2>1, <2>3 DEF SaveClientFails, RecordOutcomeFails, OtherTypes
<1>21. ASSUME NEW c \in Callers, RecordOutcome(c)
       PROVE  (GateTypes /\ ToldType /\ OtherTypes)'
  <2>1. tasks[c].at \in Times /\ Guarded(tasks[c])
    BY <1>1, <1>21 DEF Tasks, RecordOutcome, Step, Guarded
  <2>2. PICK outcome : outcome = tasks[c].outcome
    OBVIOUS
  <2>3. PICK at \in Times : at = tasks[c].at
    BY <2>1
  <2>4. GateTypes' /\ ToldType'
    BY <1>21, <2>1, <2>2, <2>3, ReturnTypes DEF RecordOutcome
  <2>5. WithResponse(c) \in [Ids -> Records]
    BY <1>2, OutcomeTypes DEF GateTypes
  <2> QED
    BY <1>21, <2>4, <2>5 DEF RecordOutcome, OtherTypes
<1>22. ASSUME NEW c \in Callers, Complete(c) \/ CompleteFails(c)
       PROVE  (GateTypes /\ ToldType /\ OtherTypes)'
  <2>1. tasks[c].outcome \in Known
    BY <1>22 DEF Complete, CompleteFails, GateTypes, CompletesKnown
  <2>2. WithResult(c) \in [Ids -> Records]
    BY <1>2, <2>1, OutcomeTypes DEF GateTypes
  <2>3. disk' \in [Ids -> Records]
    BY <1>2, <1>22, <2>2, SaveTypes DEF Complete, CompleteFails
  <2>4. GateTypes'
    BY <1>22, EndTypes DEF Complete, CompleteFails
  <2> QED
    BY <1>22, <2>2, <2>3, <2>4 DEF Complete, CompleteFails, ToldType, OtherTypes
<1>23. ASSUME NEW c \in Callers, Cancel(c) PROVE (GateTypes /\ ToldType /\ OtherTypes)'
  <2>1. effects' \subseteq [id : Ids, at : Times]
    BY <1>1, <1>23 DEF Cancel, Effect, Tasks, OtherTypes
  <2> QED
    BY <1>23, <2>1, EndTypes DEF Cancel, ToldType, OtherTypes
<1>24. ASSUME \/ Unlock \/ Lock \/ Persist \/ Disconnect \/ CloseSession
              \/ Pause \/ Resume \/ Tick \/ UNCHANGED vars
       PROVE  (GateTypes /\ ToldType /\ OtherTypes)'
  <2>1. UNCHANGED <<tasks, requests, operations, told>>
    BY <1>24 DEF Unlock, Lock, Persist, Disconnect, CloseSession, Pause, Resume, Tick, vars
  <2>2. GateTypes' /\ ToldType'
    BY <2>1 DEF GateTypes, ToldType, CompletesKnown, CountsGuards, GuardedCallers, Step
  <2>3. OtherTypes'
    <3>1. CASE Unlock \/ Lock \/ Persist \/ CloseSession
      BY <1>2, <3>1, DefaultTypes, SaveTypes
         DEF Unlock, Lock, Persist, CloseSession, OtherTypes
    <3>2. CASE Tick
      BY <3>2, JournalAssumption DEF Tick, OtherTypes, Times
    <3>3. CASE Disconnect \/ Pause \/ Resume \/ UNCHANGED vars
      BY <3>3 DEF Disconnect, Pause, Resume, vars, OtherTypes
    <3> QED
      BY <1>24, <3>1, <3>2, <3>3
  <2> QED
    BY <2>2, <2>3
<1>25. ASSUME Crash PROVE (GateTypes /\ ToldType /\ OtherTypes)'
  <2>1. \A c \in Callers : tasks'[c] = Idle /\ Idle.pc = "idle"
    BY <1>25 DEF Crash, Idle
  <2>2. GuardedCallers' = {}
    BY <2>1 DEF GuardedCallers, Guarded
  <2>3. GateTypes'
    BY <1>25, <2>1, <2>2, DefaultTypes, FS_EmptySet
       DEF Crash, GateTypes, CompletesKnown, CountsGuards, Step
  <2> QED
    BY <1>25, <2>3, DefaultTypes DEF Crash, ToldType, OtherTypes
<1> QED
  BY <1>3, <1>4, <1>5, <1>6, <1>7, <1>8, <1>9, <1>10, <1>11, <1>13, <1>14, <1>15, <1>16,
     <1>18, <1>19, <1>20, <1>21, <1>22, <1>23, <1>24, <1>25 DEF Next, Arrive, Advance

\* Every variable keeps its type for all constants: in particular the gate never
\* drops a RequestGuard it did not hand out, and only known outcomes are saved
\* as typed results.
THEOREM TypeCorrect == Spec => []TypeOK
<1>1. TypeInv => TypeOK
  BY DEF TypeInv
<1> QED
  BY <1>1, TypeInit, TypeStep, PTL DEF Spec

-----------------------------------------------------------------------------
(* At most once.  An admission that is Kept stays Kept whatever is saved,  *)
(* because every candidate preserves what memory holds.                    *)

Keeps == \A id \in Ids, at \in Times : Kept(id, at) => Kept(id, at)'

Preserves(candidate) ==
    \A id \in Ids, at \in Times :
        Holds(mem, id, at) /\ ~Expired(at) => Holds(candidate, id, at)

LEMMA RetainPreserves == Preserves(Retain(mem))
BY DEF Preserves, Holds, Retain, Live

\* A new record may only replace one that has expired.
LEMMA AdmissionPreserves ==
    ASSUME NEW id \in Ids, NEW d \in Contents, NEW b \in BOOLEAN, ~Live(mem[id])
    PROVE  /\ Preserves([Retain(mem) EXCEPT ![id] = Admission(d, b)])
           /\ Holds([Retain(mem) EXCEPT ![id] = Admission(d, b)], id, now)
<1>1. Admission(d, b).digest = d /\ Admission(d, b).at = now
  BY DEF Admission
<1>2. [Retain(mem) EXCEPT ![id] = Admission(d, b)][id] = Admission(d, b)
  BY DEF Retain
<1>3. Holds([Retain(mem) EXCEPT ![id] = Admission(d, b)], id, now)
  BY <1>1, <1>2, JournalAssumption DEF Holds, Present
<1>4. \A i \in Ids \ {id} :
          [Retain(mem) EXCEPT ![id] = Admission(d, b)][i] = Retain(mem)[i]
  BY DEF Retain
<1> QED
  BY <1>3, <1>4, RetainPreserves DEF Preserves, Holds, Live

LEMMA OutcomePreserves ==
    ASSUME TypeInv, NEW c \in Callers
    PROVE  Preserves(WithResponse(c)) /\ Preserves(WithResult(c))
<1>1. mem \in [Ids -> Records]
  BY DEF TypeInv, TypeOK
<1>2. \A r \in Records : /\ [r EXCEPT !.response = tasks[c].outcome].digest = r.digest
                         /\ [r EXCEPT !.response = tasks[c].outcome].at = r.at
                         /\ [r EXCEPT !.result = tasks[c].outcome].digest = r.digest
                         /\ [r EXCEPT !.result = tasks[c].outcome].at = r.at
  BY DEF Records
<1>3. \A id \in Ids : /\ WithResponse(c)[id].digest = mem[id].digest
                      /\ WithResponse(c)[id].at = mem[id].at
                      /\ WithResult(c)[id].digest = mem[id].digest
                      /\ WithResult(c)[id].at = mem[id].at
  BY <1>1, <1>2 DEF WithResponse, WithResult
<1> QED
  BY <1>3 DEF Preserves, Holds, Present

\* Whatever part of a save takes place.
LEMMA SaveKeeps ==
    ASSUME session # "none", NEW candidate, Preserves(candidate),
           disk' = disk \/ disk' = candidate \/ disk' = mem,
           mem' = mem \/ mem' = candidate, UNCHANGED now
    PROVE  Keeps
<1> SUFFICES ASSUME NEW id \in Ids, NEW at \in Times, Kept(id, at), ~Expired(at)
             PROVE  Kept(id, at)'
  BY DEF Keeps, Kept, Expired
<1>1. Holds(mem, id, at) /\ Holds(disk, id, at)
  BY DEF Kept
<1>2. Holds(candidate, id, at)
  BY <1>1 DEF Preserves
<1>3. Holds(mem, id, at)' /\ Holds(disk, id, at)'
  BY <1>1, <1>2 DEF Holds
<1> QED
  BY <1>3 DEF Kept

\* No task of the next state is a new admission.
NoAdmission ==
    \A c \in Callers :
        /\ Admitted(tasks[c])' =>
             Admitted(tasks[c]) /\ tasks'[c].id = tasks[c].id /\ tasks'[c].at = tasks[c].at
        /\ Unsent(tasks[c])' => Unsent(tasks[c])
        /\ ~Step(c, "idle")' =>
             \/ tasks'[c].digest \in Contents
             \/ ~Step(c, "idle") /\ tasks'[c].digest = tasks[c].digest

LEMMA TaskTypes ==
    ASSUME TypeInv, NEW c \in Callers
    PROVE  tasks[c] \in Tasks /\ tasks[c].id \in Ids /\ tasks[c].at \in Times
BY DEF TypeInv, TypeOK, Tasks

LEMMA EffectTypes ==
    ASSUME TypeInv, NEW e \in effects
    PROVE  e.id \in Ids /\ e.at \in Times
BY DEF TypeInv, TypeOK

\* A step that admits nothing and calls nothing.
LEMMA OnceQuiet ==
    ASSUME TypeInv, OnceInv, Keeps, NoAdmission, UNCHANGED effects
    PROVE  OnceInv'
<1>1. TasksKept'
  BY TaskTypes DEF OnceInv, TasksKept, Keeps, NoAdmission
<1>2. EffectsKept'
  BY EffectTypes DEF OnceInv, EffectsKept, Keeps
<1>3. TasksApart'
  BY DEF OnceInv, TasksApart, NoAdmission, Apart
<1>4. EffectsApart'
  <2> SUFFICES ASSUME NEW c \in Callers, NEW e \in effects, Unsent(tasks[c])', e.id = tasks'[c].id
               PROVE  Apart(e.at, tasks'[c].at)
    BY DEF EffectsApart, Apart
  <2>1. Unsent(tasks[c]) /\ Admitted(tasks[c])'
    BY DEF NoAdmission, Unsent
  <2> QED
    BY <2>1 DEF OnceInv, EffectsApart, NoAdmission
<1>5. HaveContents'
  BY DEF OnceInv, HaveContents, NoAdmission, Step
<1> QED
  BY <1>1, <1>2, <1>3, <1>4, <1>5 DEF OnceInv

\* A step that makes a protocol call, which leaves its task with none to make.
LEMMA OnceCall ==
    ASSUME TypeInv, OnceInv, Keeps, NoAdmission,
           NEW c \in Callers, Unsent(tasks[c]), ~Unsent(tasks[c])', effects' = Effect(c)
    PROVE  OnceInv'
<1>0. Admitted(tasks[c])
  BY DEF Unsent
<1>1. TasksKept'
  BY TaskTypes DEF OnceInv, TasksKept, Keeps, NoAdmission
<1>2. EffectsKept'
  <2>1. \A id \in Ids, at \in Times :
            id = tasks[c].id /\ at = tasks[c].at => Kept(id, at)'
    BY <1>0 DEF OnceInv, TasksKept, Keeps
  <2>2. \A e \in effects : Kept(e.id, e.at)'
    BY EffectTypes DEF OnceInv, EffectsKept, Keeps
  <2>3. \A e \in effects' : e \in effects \/ (e.id = tasks[c].id /\ e.at = tasks[c].at)
    BY DEF Effect
  <2> SUFFICES ASSUME NEW e \in effects' PROVE Kept(e.id, e.at)'
    BY DEF EffectsKept
  <2>4. CASE e \in effects
    BY <2>2, <2>4
  <2>5. CASE e.id = tasks[c].id /\ e.at = tasks[c].at
    BY <2>1, <2>5, TaskTypes
  <2> QED
    BY <2>3, <2>4, <2>5
<1>3. TasksApart'
  BY DEF OnceInv, TasksApart, NoAdmission, Apart
<1>4. EffectsApart'
  <2> SUFFICES ASSUME NEW d \in Callers, NEW e \in effects', Unsent(tasks[d])', e.id = tasks'[d].id
               PROVE  Apart(e.at, tasks'[d].at)
    BY DEF EffectsApart, Apart
  <2>1. /\ Unsent(tasks[d]) /\ Admitted(tasks[d]) /\ c # d
        /\ tasks'[d].id = tasks[d].id /\ tasks'[d].at = tasks[d].at
    BY DEF NoAdmission, Unsent
  <2>2. e \in effects \/ (e.id = tasks[c].id /\ e.at = tasks[c].at)
    BY DEF Effect
  <2>3. CASE e \in effects
    BY <2>1, <2>3 DEF OnceInv, EffectsApart
  <2>4. CASE e.id = tasks[c].id /\ e.at = tasks[c].at
    BY <1>0, <2>1, <2>4 DEF OnceInv, TasksApart
  <2> QED
    BY <2>2, <2>3, <2>4
<1>5. HaveContents'
  BY DEF OnceInv, HaveContents, NoAdmission, Step
<1> QED
  BY <1>1, <1>2, <1>3, <1>4, <1>5 DEF OnceInv

\* A step that admits one operation whose earlier admissions have expired.
LEMMA OnceAdmit ==
    ASSUME TypeInv, OnceInv, Keeps, UNCHANGED <<effects, now>>,
           NEW c \in Callers, NEW t \in Tasks, tasks' = [tasks EXCEPT ![c] = t],
           ~Admitted(tasks[c]), t.at = now, t.digest \in Contents,
           \A at \in Times : Kept(t.id, at) => Expired(at),
           Kept(t.id, now)'
    PROVE  OnceInv'
<1>0. /\ tasks'[c] = t
      /\ \A d \in Callers \ {c} : tasks'[d] = tasks[d]
      /\ now \in Nat /\ Retention \in Nat
  BY JournalAssumption DEF TypeInv, TypeOK, Times
<1>1. TasksKept'
  <2> SUFFICES ASSUME NEW d \in Callers, Admitted(tasks[d])'
               PROVE  Kept(tasks[d].id, tasks[d].at)'
    BY DEF TasksKept
  <2>1. CASE d = c
    BY <1>0, <2>1
  <2>2. CASE d # c
    <3>1. Admitted(tasks[d]) /\ tasks'[d] = tasks[d]
      BY <1>0, <2>2 DEF Admitted
    <3>2. \A id \in Ids, at \in Times :
              id = tasks[d].id /\ at = tasks[d].at => Kept(id, at)'
      BY <3>1 DEF OnceInv, TasksKept, Keeps
    <3> QED
      BY <3>1, <3>2, TaskTypes
  <2> QED
    BY <2>1, <2>2
<1>2. EffectsKept'
  BY EffectTypes DEF OnceInv, EffectsKept, Keeps
<1>3. \A d \in Callers \ {c} :
          Admitted(tasks[d]) /\ tasks[d].id = t.id
              => Apart(tasks[d].at, t.at) /\ Apart(t.at, tasks[d].at)
  BY <1>0, TaskTypes DEF OnceInv, TasksKept, Expired, Apart
<1>4. TasksApart'
  BY <1>0, <1>3 DEF OnceInv, TasksApart, Admitted, Apart
<1>5. \A e \in effects : e.id = t.id => Apart(e.at, t.at)
  BY <1>0, EffectTypes DEF OnceInv, EffectsKept, Expired, Apart
<1>6. EffectsApart'
  <2> SUFFICES ASSUME NEW d \in Callers, NEW e \in effects, Unsent(tasks'[d]), e.id = tasks'[d].id
               PROVE  Apart(e.at, tasks'[d].at)
    BY DEF EffectsApart, Apart, Unsent, Admitted
  <2>1. CASE d = c
    BY <1>0, <1>5, <2>1
  <2>2. CASE d # c
    BY <1>0, <2>2 DEF OnceInv, EffectsApart
  <2> QED
    BY <2>1, <2>2
<1>7. HaveContents'
  BY <1>0 DEF OnceInv, HaveContents, Step
<1> QED
  BY <1>1, <1>2, <1>4, <1>6, <1>7 DEF OnceInv

LEMMA OnceInit == Init => OnceInv
<1> SUFFICES ASSUME Init PROVE OnceInv
  OBVIOUS
<1>1. \A c \in Callers : tasks[c].pc = "idle"
  BY DEF Init, Idle
<1> QED
  BY <1>1 DEF Init, OnceInv, TasksKept, EffectsKept, TasksApart, EffectsApart,
              HaveContents, Admitted, Unsent, Step

LEMMA EndAdmitsNone ==
    ASSUME TypeInv, NEW c \in Callers, End(c)
    PROVE  NoAdmission /\ ~Unsent(tasks[c])'
<1>1. /\ tasks'[c] = Idle /\ Idle.pc = "idle"
      /\ \A d \in Callers \ {c} : tasks'[d] = tasks[d]
  BY DEF End, TypeInv, TypeOK, Idle
<1> QED
  BY <1>1 DEF NoAdmission, Admitted, Unsent, Step

LEMMA MoveAdmitsNone ==
    ASSUME TypeInv, NEW c \in Callers, NEW t \in Tasks, tasks' = [tasks EXCEPT ![c] = t],
           Admitted(t) => Admitted(tasks[c]) /\ t.id = tasks[c].id /\ t.at = tasks[c].at,
           Unsent(t) => Unsent(tasks[c]),
           t.digest \in Contents \/ (~Step(c, "idle") /\ t.digest = tasks[c].digest)
    PROVE  NoAdmission /\ (Unsent(tasks[c])' <=> Unsent(t))
<1>1. tasks'[c] = t /\ \A d \in Callers \ {c} : tasks'[d] = tasks[d]
  BY DEF TypeInv, TypeOK
<1> QED
  BY <1>1 DEF NoAdmission, Admitted, Unsent, Step

LEMMA AwaitAdmitsNone ==
    ASSUME TypeInv, NEW c \in Callers, NEW outcome \in Known, Rpc(c), ~Step(c, "idle"),
           AwaitCompletion(c, outcome)
    PROVE  NoAdmission
<1>1. [tasks[c] EXCEPT !.pc = "completing", !.outcome = outcome] \in Tasks
  BY TaskTypes DEF Tasks, Outcomes
<1>2. PICK t \in Tasks : t = [tasks[c] EXCEPT !.pc = "completing", !.outcome = outcome]
  BY <1>1
<1>3. /\ tasks' = [tasks EXCEPT ![c] = t]
      /\ t.pc = "completing" /\ t.id = tasks[c].id /\ t.at = tasks[c].at
      /\ t.digest = tasks[c].digest
  BY <1>2, TaskTypes DEF AwaitCompletion, TypeInv, TypeOK, Tasks
<1> QED
  BY <1>3, MoveAdmitsNone DEF Admitted, Unsent, Rpc, Step

LEMMA ExecutedAdmitsNone ==
    ASSUME TypeInv, NEW c \in Callers, NEW outcome \in Outcomes, Executed(c, outcome)
    PROVE  NoAdmission /\ ~Unsent(tasks[c])'
<1>1. [tasks[c] EXCEPT !.pc = "executed", !.outcome = outcome] \in Tasks
  BY TaskTypes DEF Tasks
<1>2. PICK t \in Tasks : t = [tasks[c] EXCEPT !.pc = "executed", !.outcome = outcome]
  BY <1>1
<1>3. /\ tasks' = [tasks EXCEPT ![c] = t] /\ tasks[c].pc = "executing"
      /\ t.pc = "executed" /\ t.id = tasks[c].id /\ t.at = tasks[c].at
      /\ t.digest = tasks[c].digest
  BY <1>2, TaskTypes DEF Executed, Step, TypeInv, TypeOK, Tasks
<1> QED
  BY <1>3, MoveAdmitsNone DEF Admitted, Unsent, Step

LEMMA ReturnAdmitsNone ==
    ASSUME TypeInv, NEW c \in Callers, NEW at, NEW outcome, ~Step(c, "idle"),
           Return(c, at, outcome)
    PROVE  NoAdmission
<1>1. CASE Rpc(c) /\ outcome \in Known
  BY <1>1, AwaitAdmitsNone DEF Return
<1>2. CASE ~(Rpc(c) /\ outcome \in Known)
  BY <1>2, EndAdmitsNone DEF Return
<1> QED
  BY <1>1, <1>2

LEMMA StutterAdmitsNone ==
    ASSUME UNCHANGED tasks
    PROVE  NoAdmission
BY DEF NoAdmission, Admitted, Unsent, Step

LEMMA StutterKeeps ==
    ASSUME UNCHANGED <<journal, now>>
    PROVE  Keeps
BY DEF Keeps, Kept, Holds, Expired, journal

LEMMA MemPreserves == Preserves(mem)
BY DEF Preserves

LEMMA OnceStep == TypeInv /\ OnceInv /\ [Next]_vars => OnceInv'
<1> SUFFICES ASSUME TypeInv, OnceInv, [Next]_vars PROVE OnceInv'
  OBVIOUS
<1> USE DEF journal, gate
<1>1. ASSUME NEW c \in Callers, NEW id \in Ids, NEW d \in Contents, Submit(c, id, d)
      PROVE  OnceInv'
  <2>0. [Idle EXCEPT !.pc = "entered", !.id = id, !.digest = d] \in Tasks
    BY DefaultTypes DEF Tasks
  <2>1. PICK t \in Tasks : t = [Idle EXCEPT !.pc = "entered", !.id = id, !.digest = d]
    BY <2>0
  <2>2. /\ tasks' = [tasks EXCEPT ![c] = t]
        /\ t.pc = "entered" /\ t.via = "legacy" /\ t.digest = d
    BY <1>1, <2>1 DEF Submit, Idle
  <2>3. ~Admitted(t)
    BY <2>2 DEF Admitted
  <2>4. NoAdmission
    BY <2>2, <2>3, MoveAdmitsNone DEF Unsent
  <2> QED
    BY <1>1, <2>4, StutterKeeps, OnceQuiet DEF Submit
<1>2. ASSUME NEW c \in Callers, NEW id \in Ids, NEW d \in Contents, RpcAdmit(c, id, d)
      PROVE  OnceInv'
  <2>0. [Idle EXCEPT !.pc = "spawned", !.via = "rpc", !.id = id, !.digest = d,
                     !.at = now] \in Tasks
    BY DefaultTypes DEF Tasks, TypeInv, TypeOK
  <2>1. PICK t \in Tasks : t = [Idle EXCEPT !.pc = "spawned", !.via = "rpc", !.id = id,
                                            !.digest = d, !.at = now]
    BY <2>0
  <2>2. /\ tasks' = [tasks EXCEPT ![c] = t]
        /\ t.id = id /\ t.at = now /\ t.digest = d
    BY <1>2, <2>1, DefaultTypes DEF RpcAdmit, Tasks
  <2>3. ~Admitted(tasks[c]) /\ session = "open" /\ ~Live(mem[id])
    BY <1>2 DEF RpcAdmit, RpcMayAdmit, Admitted, Step
  <2>4. Preserves(RpcCandidate(id, d)) /\ Holds(RpcCandidate(id, d), id, now)
    BY <2>3, AdmissionPreserves DEF RpcCandidate
  <2>5. Keeps
    BY <1>2, <2>3, <2>4, SaveKeeps DEF RpcAdmit
  <2>6. \A at \in Times : Kept(id, at) => Expired(at)
    BY <2>3 DEF Kept, Holds, Live
  <2>7. Kept(id, now)'
    BY <1>2, <2>4 DEF RpcAdmit, Kept, Holds
  <2> QED
    BY <1>2, <2>2, <2>3, <2>5, <2>6, <2>7, OnceAdmit DEF RpcAdmit
<1>3. ASSUME NEW c \in Callers, NEW id \in Ids, NEW d \in Contents, RpcAdmitFails(c, id, d)
      PROVE  OnceInv'
  <2>1. Preserves(RpcCandidate(id, d)) /\ session # "none"
    BY <1>3, AdmissionPreserves DEF RpcCandidate, RpcAdmitFails, RpcMayAdmit
  <2>2. Keeps
    BY <1>3, <2>1, SaveKeeps DEF RpcAdmitFails, SaveFails
  <2> QED
    BY <1>3, <2>2, StutterAdmitsNone, OnceQuiet DEF RpcAdmitFails
<1>4. ASSUME NEW id \in Ids, RpcRead(id) PROVE OnceInv'
  BY <1>4, StutterAdmitsNone, StutterKeeps, OnceQuiet DEF RpcRead
<1>5. ASSUME NEW c \in Callers, EnterAdmitted(c) PROVE OnceInv'
  <2>1. CASE paused
    BY <1>5, <2>1, EndAdmitsNone, StutterKeeps, OnceQuiet DEF EnterAdmitted
  <2>2. CASE ~paused
    <3>1. [tasks[c] EXCEPT !.pc = "entered"] \in Tasks
      BY TaskTypes DEF Tasks
    <3>2. PICK t \in Tasks : t = [tasks[c] EXCEPT !.pc = "entered"]
      BY <3>1
    <3>3. /\ tasks' = [tasks EXCEPT ![c] = t] /\ tasks[c].pc = "spawned"
          /\ t.pc = "entered" /\ t.id = tasks[c].id /\ t.at = tasks[c].at
          /\ t.digest = tasks[c].digest
      BY <1>5, <2>2, <3>2, TaskTypes DEF EnterAdmitted, Step, Tasks
    <3>4. NoAdmission
      BY <3>3, MoveAdmitsNone DEF Admitted, Unsent, Step
    <3> QED
      BY <1>5, <3>4, StutterKeeps, OnceQuiet DEF EnterAdmitted
  <2> QED
    BY <2>1, <2>2
<1>6. ASSUME NEW c \in Callers, ReplyLocked(c) PROVE OnceInv'
  <2>1. NoAdmission
    BY <1>6, EndAdmitsNone, AwaitAdmitsNone DEF ReplyLocked, Locked, Step, Known
  <2> QED
    BY <1>6, <2>1, StutterKeeps, OnceQuiet DEF ReplyLocked
<1>7. ASSUME NEW c \in Callers, ReplyRecorded(c) PROVE OnceInv'
  <2>1. NoAdmission
    BY <1>7, ReturnAdmitsNone DEF ReplyRecorded, Locked, Step
  <2> QED
    BY <1>7, <2>1, StutterKeeps, OnceQuiet DEF ReplyRecorded
<1>8. ASSUME NEW c \in Callers, Refuse(c) \/ RecordOutcomePanics(c) PROVE OnceInv'
  BY <1>8, EndAdmitsNone, StutterKeeps, OnceQuiet DEF Refuse, RecordOutcomePanics
<1>9. ASSUME NEW c \in Callers, RefuseFull(c) PROVE OnceInv'
  <2>1. Keeps
    BY <1>9, RetainPreserves, SaveKeeps DEF RefuseFull, LegacyMayAdmit
  <2> QED
    BY <1>9, <2>1, EndAdmitsNone, OnceQuiet DEF RefuseFull
<1>10. ASSUME NEW c \in Callers, LegacyMayAdmit(c)
       PROVE  /\ session = "open" /\ ~Live(mem[tasks[c].id])
              /\ Preserves(LegacyCandidate(c))
              /\ Holds(LegacyCandidate(c), tasks[c].id, now)
  <2>1. session = "open" /\ ~Live(mem[tasks[c].id]) /\ tasks[c].digest \in Contents
    BY <1>10 DEF LegacyMayAdmit, Locked, Record, Live, Step, OnceInv, HaveContents
  <2> QED
    BY <2>1, TaskTypes, AdmissionPreserves DEF LegacyCandidate
<1>11. ASSUME NEW c \in Callers, AdmitLegacy(c) PROVE OnceInv'
  <2>0. [tasks[c] EXCEPT !.pc = "executing", !.at = now] \in Tasks
    BY TaskTypes DEF Tasks, TypeInv, TypeOK
  <2>1. PICK t \in Tasks : t = [tasks[c] EXCEPT !.pc = "executing", !.at = now]
    BY <2>0
  <2>2. /\ tasks' = [tasks EXCEPT ![c] = t]
        /\ t.id = tasks[c].id /\ t.at = now /\ t.digest = tasks[c].digest
    BY <1>11, <2>1, TaskTypes DEF AdmitLegacy, Tasks, TypeInv, TypeOK
  <2>3. LegacyMayAdmit(c) /\ ~Admitted(tasks[c]) /\ t.digest \in Contents
    BY <1>11, <2>2 DEF AdmitLegacy, LegacyMayAdmit, Locked, Admitted, Step, Rpc,
                       OnceInv, HaveContents
  <2>4. Keeps
    BY <1>10, <1>11, <2>3, SaveKeeps DEF AdmitLegacy
  <2>5. \A at \in Times : Kept(t.id, at) => Expired(at)
    BY <1>10, <2>2, <2>3 DEF Kept, Holds, Live
  <2>6. Kept(t.id, now)'
    BY <1>10, <1>11, <2>2, <2>3 DEF AdmitLegacy, Kept, Holds
  <2> QED
    BY <1>11, <2>2, <2>3, <2>4, <2>5, <2>6, OnceAdmit DEF AdmitLegacy
<1>12. ASSUME NEW c \in Callers, AdmitLegacyFails(c) PROVE OnceInv'
  <2>1. Keeps
    BY <1>10, <1>12, SaveKeeps DEF AdmitLegacyFails, SaveFails
  <2> QED
    BY <1>12, <2>1, EndAdmitsNone, OnceQuiet DEF AdmitLegacyFails, ReturnErr
<1>13. ASSUME NEW c \in Callers, StartWorker(c) PROVE OnceInv'
  <2>0. [tasks[c] EXCEPT !.pc = "executing"] \in Tasks
    BY TaskTypes DEF Tasks
  <2>1. PICK t \in Tasks : t = [tasks[c] EXCEPT !.pc = "executing"]
    BY <2>0
  <2>2. /\ tasks' = [tasks EXCEPT ![c] = t] /\ tasks[c].pc = "entered" /\ tasks[c].via = "rpc"
        /\ t.pc = "executing" /\ t.id = tasks[c].id /\ t.at = tasks[c].at
        /\ t.digest = tasks[c].digest
    BY <1>13, <2>1, TaskTypes DEF StartWorker, WorkerMayStart, Locked, Step, Rpc, Tasks
  <2>3. NoAdmission
    BY <2>2, MoveAdmitsNone DEF Admitted, Unsent, Step
  <2>4. Keeps
    BY <1>13, MemPreserves, SaveKeeps DEF StartWorker, WorkerMayStart
  <2> QED
    BY <1>13, <2>3, <2>4, OnceQuiet DEF StartWorker
<1>14. ASSUME NEW c \in Callers, StartWorkerFails(c) PROVE OnceInv'
  <2>1. Keeps
    BY <1>14, MemPreserves, SaveKeeps DEF StartWorkerFails, WorkerMayStart, SaveFails
  <2> QED
    BY <1>14, <2>1, EndAdmitsNone, OnceQuiet DEF StartWorkerFails, ReturnErr
<1>15. ASSUME NEW c \in Callers, Reject(c) \/ Execute(c) \/ ExecuteFails(c) PROVE OnceInv'
  <2>1. PICK outcome \in Outcomes : Executed(c, outcome)
    BY <1>15 DEF Reject, Execute, ExecuteFails, Outcomes, Known
  <2>2. Unsent(tasks[c]) /\ Keeps
    BY <2>1, StutterKeeps DEF Executed, Step, Unsent, Admitted
  <2>3. NoAdmission /\ ~Unsent(tasks[c])'
    BY <2>1, ExecutedAdmitsNone
  <2>4. UNCHANGED effects \/ effects' = Effect(c)
    BY <1>15 DEF Reject, Execute, ExecuteFails
  <2> QED
    BY <2>2, <2>3, <2>4, OnceQuiet, OnceCall
<1>16. ASSUME NEW c \in Callers, SaveClient(c) PROVE OnceInv'
  <2>0. [tasks[c] EXCEPT !.pc = "recording"] \in Tasks
    BY TaskTypes DEF Tasks
  <2>1. PICK t \in Tasks : t = [tasks[c] EXCEPT !.pc = "recording"]
    BY <2>0
  <2>2. /\ tasks' = [tasks EXCEPT ![c] = t] /\ tasks[c].pc = "executed"
        /\ t.pc = "recording" /\ t.id = tasks[c].id /\ t.at = tasks[c].at
        /\ t.digest = tasks[c].digest
    BY <1>16, <2>1, TaskTypes DEF SaveClient, Step, Tasks
  <2>3. NoAdmission
    BY <2>2, MoveAdmitsNone DEF Admitted, Unsent, Step
  <2> QED
    BY <1>16, <2>3, StutterKeeps, OnceQuiet DEF SaveClient
<1>17. ASSUME NEW c \in Callers, SaveClientFails(c) PROVE OnceInv'
  BY <1>17, EndAdmitsNone, StutterKeeps, OnceQuiet DEF SaveClientFails, ReturnErr
<1>18. ASSUME NEW c \in Callers, RecordOutcome(c) PROVE OnceInv'
  <2>1. Keeps
    BY <1>18, OutcomePreserves, SaveKeeps DEF RecordOutcome
  <2>2. NoAdmission
    BY <1>18, ReturnAdmitsNone DEF RecordOutcome, Step
  <2> QED
    BY <1>18, <2>1, <2>2, OnceQuiet DEF RecordOutcome
<1>19. ASSUME NEW c \in Callers, RecordOutcomeFails(c) PROVE OnceInv'
  <2>1. Keeps
    BY <1>19, OutcomePreserves, SaveKeeps, StutterKeeps DEF RecordOutcomeFails, SaveFails
  <2> QED
    BY <1>19, <2>1, EndAdmitsNone, OnceQuiet DEF RecordOutcomeFails, ReturnErr
<1>20. ASSUME NEW c \in Callers, Complete(c) \/ CompleteFails(c) PROVE OnceInv'
  <2>1. Keeps
    BY <1>20, OutcomePreserves, SaveKeeps, StutterKeeps
       DEF Complete, CompleteFails, MayComplete, SaveFails
  <2> QED
    BY <1>20, <2>1, EndAdmitsNone, OnceQuiet DEF Complete, CompleteFails
<1>21. ASSUME NEW c \in Callers, Cancel(c) PROVE OnceInv'
  <2>1. Keeps /\ NoAdmission /\ ~Unsent(tasks[c])'
    BY <1>21, StutterKeeps, EndAdmitsNone DEF Cancel
  <2>2. UNCHANGED effects \/ (effects' = Effect(c) /\ Unsent(tasks[c]))
    BY <1>21 DEF Cancel, Step, Unsent, Admitted
  <2> QED
    BY <2>1, <2>2, OnceQuiet, OnceCall
<1>22. ASSUME Unlock PROVE OnceInv'
  <2>1. Keeps
    BY <1>22 DEF Unlock, Keeps, Kept, Holds, Expired
  <2> QED
    BY <1>22, <2>1, StutterAdmitsNone, OnceQuiet DEF Unlock
<1>23. ASSUME Lock \/ Persist PROVE OnceInv'
  <2>1. Keeps
    BY <1>23, MemPreserves, SaveKeeps DEF Lock, Persist
  <2> QED
    BY <1>23, <2>1, StutterAdmitsNone, OnceQuiet DEF Lock, Persist
<1>24. ASSUME CloseSession PROVE OnceInv'
  <2>1. Keeps
    BY <1>24 DEF CloseSession, SaveFails, Keeps, Kept, Holds, Expired
  <2> QED
    BY <1>24, <2>1, StutterAdmitsNone, OnceQuiet DEF CloseSession
<1>25. ASSUME Disconnect \/ Pause \/ Resume \/ UNCHANGED vars PROVE OnceInv'
  <2>1. UNCHANGED <<journal, now, tasks, effects>>
    BY <1>25 DEF Disconnect, Pause, Resume, vars
  <2> QED
    BY <2>1, StutterKeeps, StutterAdmitsNone, OnceQuiet
<1>26. ASSUME Crash PROVE OnceInv'
  <2>1. Keeps
    BY <1>26 DEF Crash, Keeps, Kept, Holds, Expired
  <2>2. \A c \in Callers : tasks'[c].pc = "idle"
    BY <1>26 DEF Crash, Idle
  <2>3. NoAdmission
    BY <2>2 DEF NoAdmission, Admitted, Unsent, Step
  <2> QED
    BY <1>26, <2>1, <2>3, OnceQuiet DEF Crash
<1>27. ASSUME Tick PROVE OnceInv'
  <2>1. now \in Nat /\ now' = now + 1 /\ Retention \in Nat /\ Times \subseteq Nat
    BY <1>27, JournalAssumption DEF Tick, TypeInv, TypeOK, Times
  <2>2. \A at \in Times : Expired(at) => Expired(at)'
    BY <2>1 DEF Expired
  <2>3. Keeps
    BY <1>27, <2>2 DEF Tick, Keeps, Kept, Holds
  <2> QED
    BY <1>27, <2>3, StutterAdmitsNone, OnceQuiet DEF Tick
<1> QED
  BY <1>1, <1>2, <1>3, <1>4, <1>5, <1>6, <1>7, <1>8, <1>9, <1>11, <1>12, <1>13, <1>14, <1>15,
     <1>16, <1>17, <1>18, <1>19, <1>20, <1>21, <1>22, <1>23, <1>24, <1>25, <1>26, <1>27
     DEF Next, Arrive, Advance

\* No operation is executed twice within the retention time, whatever the
\* retries, duplicates, save failures and crashes, even if the clock jumps.
THEOREM OnceCorrect == Spec => []AtMostOnce
<1>1. OnceInv => AtMostOnce
  BY DEF OnceInv, EffectsApart, AtMostOnce, Unsent, Admitted, Step
<1> QED
  BY <1>1, TypeInit, TypeStep, OnceInit, OnceStep, PTL DEF Spec

\* Every call that was made is found in the file until its record expires.
THEOREM EffectsJournalled == Spec => []EffectIsJournalled
<1>1. OnceInv => EffectIsJournalled
  BY DEF OnceInv, EffectsKept, Kept, Holds, EffectIsJournalled
<1> QED
  BY <1>1, TypeInit, TypeStep, OnceInit, OnceStep, PTL DEF Spec

-----------------------------------------------------------------------------
(* Quiescence of a paused instance, when no operation outlives its record. *)

\* Two workers never share a name in the gate: their admissions would be a
\* retention time apart, and both are younger than that.
LEMMA WorkersDiffer ==
    ASSUME TypeInv, OnceInv, GateInv, NEW c \in Callers, NEW d \in Callers, c # d,
           Admitted(tasks[c]), Admitted(tasks[d])
    PROVE  tasks[c].id # tasks[d].id
<1>1. /\ tasks[c].at \in Nat /\ tasks[d].at \in Nat /\ now \in Nat
      /\ Retention \in Nat
  BY TaskTypes, JournalAssumption DEF Times, TypeInv, TypeOK
<1>2. /\ tasks[c].at <= now /\ now < tasks[c].at + Retention
      /\ tasks[d].at <= now /\ now < tasks[d].at + Retention
  BY DEF GateInv, Timely
<1>3. ~Apart(tasks[c].at, tasks[d].at)
  BY <1>1, <1>2 DEF Apart
<1> QED
  BY <1>3 DEF OnceInv, TasksApart

LEMMA GateEnd ==
    ASSUME TypeInv, OnceInv, GateInv, NEW c \in Callers, ~Step(c, "idle"), End(c),
           UNCHANGED <<paused, now>>
    PROVE  GateInv'
<1>1. /\ tasks'[c] = Idle /\ Idle.pc = "idle"
      /\ \A d \in Callers \ {c} : tasks'[d] = tasks[d]
  BY DEF End, TypeInv, TypeOK, Idle
<1>2. \A d \in Callers : Admitted(tasks'[d]) => d # c /\ Admitted(tasks[d])
  BY <1>1 DEF Admitted
<1>3. NamesWorkers'
  <2> SUFFICES ASSUME NEW d \in Callers, Admitted(tasks'[d]), tasks'[d].via = "rpc"
               PROVE  tasks'[d].id \in operations'
    BY DEF NamesWorkers, Admitted, Rpc
  <2>1. /\ d # c /\ tasks'[d] = tasks[d] /\ Admitted(tasks[d])
        /\ tasks[d].id \in operations
    BY <1>1, <1>2 DEF GateInv, NamesWorkers, Rpc
  <2>2. CASE Rpc(c)
    <3>1. Admitted(tasks[c])
      BY <2>2 DEF Admitted, Step, Rpc
    <3> QED
      BY <2>1, <2>2, <3>1, WorkersDiffer DEF End
  <2>3. CASE ~Rpc(c)
    BY <2>1, <2>3 DEF End
  <2> QED
    BY <2>2, <2>3
<1>4. Timely'
  BY <1>1, <1>2 DEF GateInv, Timely, Admitted
<1>5. ViaRpc'
  BY <1>1 DEF GateInv, ViaRpc, Rpc
<1>6. PausedIsQuiescent'
  BY DEF GateInv, PausedIsQuiescent
<1> QED
  BY <1>3, <1>4, <1>5, <1>6 DEF GateInv

\* A task goes on: the same operation, in another place.
LEMMA GateMove ==
    ASSUME TypeInv, GateInv, NEW c \in Callers, NEW t \in Tasks, ~Step(c, "idle"),
           tasks' = [tasks EXCEPT ![c] = t], UNCHANGED <<paused, operations, now>>,
           t.via = tasks[c].via, t.id = tasks[c].id,
           \/ Admitted(tasks[c]) /\ t.at = tasks[c].at
           \/ tasks[c].via = "legacy" /\ t.at = now,
           t.pc \in {"spawned", "completing"} => t.via = "rpc"
    PROVE  GateInv'
<1>1. /\ tasks'[c] = t
      /\ \A d \in Callers \ {c} : tasks'[d] = tasks[d]
      /\ now \in Nat /\ Retention \in Nat \ {0}
  BY JournalAssumption DEF TypeInv, TypeOK, Times
<1>2. NamesWorkers'
  <2> SUFFICES ASSUME NEW d \in Callers, Admitted(tasks'[d]), tasks'[d].via = "rpc"
               PROVE  tasks'[d].id \in operations'
    BY DEF NamesWorkers, Admitted, Rpc
  <2> QED
    BY <1>1 DEF GateInv, NamesWorkers, Rpc
<1>3. Timely'
  BY <1>1 DEF GateInv, Timely, Admitted
<1>4. ViaRpc'
  BY <1>1 DEF GateInv, ViaRpc, Rpc
<1>5. PausedIsQuiescent'
  BY DEF GateInv, PausedIsQuiescent
<1> QED
  BY <1>2, <1>3, <1>4, <1>5 DEF GateInv

LEMMA GateStutter ==
    ASSUME GateInv, UNCHANGED <<tasks, paused, operations, now>>
    PROVE  GateInv'
BY DEF GateInv, NamesWorkers, Timely, ViaRpc, PausedIsQuiescent, Admitted, Rpc, Step

LEMMA GateAwait ==
    ASSUME TypeInv, GateInv, NEW c \in Callers, NEW outcome \in Known, Rpc(c),
           ~Step(c, "idle"), AwaitCompletion(c, outcome), UNCHANGED <<paused, now>>
    PROVE  GateInv'
<1>1. [tasks[c] EXCEPT !.pc = "completing", !.outcome = outcome] \in Tasks
  BY TaskTypes DEF Tasks, Outcomes
<1>2. PICK t \in Tasks : t = [tasks[c] EXCEPT !.pc = "completing", !.outcome = outcome]
  BY <1>1
<1>3. /\ tasks' = [tasks EXCEPT ![c] = t]
      /\ t.id = tasks[c].id /\ t.at = tasks[c].at /\ t.via = tasks[c].via
  BY <1>2, TaskTypes DEF AwaitCompletion, TypeInv, TypeOK, Tasks
<1>4. Admitted(tasks[c]) /\ t.via = "rpc"
  BY <1>3 DEF Admitted, Rpc, Step
<1> QED
  BY <1>3, <1>4, GateMove DEF AwaitCompletion

LEMMA GateReturn ==
    ASSUME TypeInv, OnceInv, GateInv, NEW c \in Callers, ~Step(c, "idle"),
           NEW at, NEW outcome, Return(c, at, outcome), UNCHANGED <<paused, now>>
    PROVE  GateInv'
<1>1. CASE Rpc(c) /\ outcome \in Known
  BY <1>1, GateAwait DEF Return
<1>2. CASE ~(Rpc(c) /\ outcome \in Known)
  BY <1>2, GateEnd DEF Return
<1> QED
  BY <1>1, <1>2

LEMMA GateInit == Init => GateInv
<1> SUFFICES ASSUME Init PROVE GateInv
  OBVIOUS
<1>1. \A c \in Callers : tasks[c].pc = "idle"
  BY DEF Init, Idle
<1> QED
  BY <1>1 DEF Init, GateInv, NamesWorkers, Timely, ViaRpc, PausedIsQuiescent, Admitted, Step

LEMMA GateStep ==
    TypeInv /\ OnceInv /\ GateInv /\ ~OutliveRetention /\ [Next]_vars => GateInv'
<1> SUFFICES ASSUME TypeInv, OnceInv, GateInv, ~OutliveRetention, [Next]_vars
             PROVE  GateInv'
  OBVIOUS
<1> USE DEF journal, gate
<1>1. ASSUME NEW c \in Callers, NEW id \in Ids, NEW d \in Contents, Submit(c, id, d)
      PROVE  GateInv'
  <2>1. /\ tasks'[c].via = "legacy" /\ tasks'[c].pc = "entered"
        /\ \A e \in Callers \ {c} : tasks'[e] = tasks[e]
    BY <1>1 DEF Submit, TypeInv, TypeOK, Idle
  <2>2. \A e \in Callers : Admitted(tasks'[e]) => e # c
    BY <2>1 DEF Admitted
  <2> QED
    BY <1>1, <2>1, <2>2
       DEF Submit, GateInv, NamesWorkers, Timely, ViaRpc, PausedIsQuiescent, Admitted, Rpc
<1>2. ASSUME NEW c \in Callers, NEW id \in Ids, NEW d \in Contents, RpcAdmit(c, id, d)
      PROVE  GateInv'
  <2>1. /\ tasks'[c].via = "rpc" /\ tasks'[c].id = id /\ tasks'[c].at = now
        /\ \A e \in Callers \ {c} : tasks'[e] = tasks[e]
    BY <1>2 DEF RpcAdmit, TypeInv, TypeOK, Idle
  <2>2. now \in Nat /\ Retention \in Nat \ {0}
    BY JournalAssumption DEF TypeInv, TypeOK, Times
  <2> QED
    BY <1>2, <2>1, <2>2
       DEF RpcAdmit, RpcMayAdmit, GateInv, NamesWorkers, Timely, ViaRpc,
           PausedIsQuiescent, Admitted, Rpc
<1>3. ASSUME \/ \E c \in Callers, id \in Ids, d \in Contents : RpcAdmitFails(c, id, d)
             \/ \E id \in Ids : RpcRead(id)
             \/ Unlock \/ Lock \/ Persist \/ Disconnect \/ CloseSession \/ UNCHANGED vars
      PROVE  GateInv'
  BY <1>3, GateStutter DEF RpcAdmitFails, RpcRead, Unlock, Lock, Persist, Disconnect,
                           CloseSession, vars
<1>4. ASSUME NEW c \in Callers, EnterAdmitted(c) PROVE GateInv'
  <2>1. ~paused /\ tasks[c].pc = "spawned" /\ tasks[c].via = "rpc"
    BY <1>4 DEF EnterAdmitted, Step, GateInv, PausedIsQuiescent, ViaRpc, Rpc
  <2>2. [tasks[c] EXCEPT !.pc = "entered"] \in Tasks
    BY TaskTypes DEF Tasks
  <2>3. PICK t \in Tasks : t = [tasks[c] EXCEPT !.pc = "entered"]
    BY <2>2
  <2>4. /\ tasks' = [tasks EXCEPT ![c] = t] /\ t.pc = "entered"
        /\ t.via = tasks[c].via /\ t.id = tasks[c].id /\ t.at = tasks[c].at
    BY <1>4, <2>1, <2>3, TaskTypes DEF EnterAdmitted, Tasks
  <2> QED
    BY <1>4, <2>1, <2>4, GateMove DEF EnterAdmitted, Admitted, Step
<1>5. ASSUME NEW c \in Callers, ReplyLocked(c) PROVE GateInv'
  BY <1>5, GateEnd, GateAwait DEF ReplyLocked, Locked, Step, Known
<1>6. ASSUME NEW c \in Callers, ReplyRecorded(c) \/ RecordOutcome(c) PROVE GateInv'
  BY <1>6, GateReturn DEF ReplyRecorded, RecordOutcome, Locked, Step
<1>7. ASSUME NEW c \in Callers,
             \/ Refuse(c) \/ RefuseFull(c) \/ RecordOutcomePanics(c)
             \/ Complete(c) \/ CompleteFails(c) \/ Cancel(c)
      PROVE  GateInv'
  BY <1>7, GateEnd DEF Refuse, RefuseFull, RecordOutcomePanics, Complete, CompleteFails,
                       Cancel, Guarded, LegacyMayAdmit, Locked, Step
<1>8. ASSUME NEW c \in Callers,
             \/ AdmitLegacyFails(c) \/ StartWorkerFails(c)
             \/ SaveClientFails(c) \/ RecordOutcomeFails(c)
      PROVE  GateInv'
  BY <1>8, GateEnd DEF AdmitLegacyFails, StartWorkerFails, SaveClientFails,
                       RecordOutcomeFails, ReturnErr, LegacyMayAdmit, WorkerMayStart,
                       Locked, Step
<1>9. ASSUME NEW c \in Callers, AdmitLegacy(c) PROVE GateInv'
  <2>1. [tasks[c] EXCEPT !.pc = "executing", !.at = now] \in Tasks
    BY TaskTypes DEF Tasks, TypeInv, TypeOK
  <2>2. PICK t \in Tasks : t = [tasks[c] EXCEPT !.pc = "executing", !.at = now]
    BY <2>1
  <2>3. /\ tasks' = [tasks EXCEPT ![c] = t] /\ t.pc = "executing"
        /\ t.via = tasks[c].via /\ t.id = tasks[c].id /\ t.at = now
    BY <1>9, <2>2, TaskTypes DEF AdmitLegacy, Tasks, TypeInv, TypeOK
  <2>4. tasks[c].via = "legacy" /\ ~Step(c, "idle")
    BY <1>9, TaskTypes DEF AdmitLegacy, LegacyMayAdmit, Locked, Step, Rpc, Tasks
  <2> QED
    BY <1>9, <2>3, <2>4, GateMove DEF AdmitLegacy
<1>10. ASSUME NEW c \in Callers, NEW pc \in {"executing", "recording"},
              UNCHANGED <<gate, now>>, tasks' = [tasks EXCEPT ![c].pc = pc],
              Admitted(tasks[c])
       PROVE  GateInv'
  <2>1. [tasks[c] EXCEPT !.pc = pc] \in Tasks
    BY TaskTypes DEF Tasks
  <2>2. PICK t \in Tasks : t = [tasks[c] EXCEPT !.pc = pc]
    BY <2>1
  <2>3. /\ tasks' = [tasks EXCEPT ![c] = t] /\ t.pc = pc
        /\ t.via = tasks[c].via /\ t.id = tasks[c].id /\ t.at = tasks[c].at
    BY <1>10, <2>2, TaskTypes DEF Tasks, TypeInv, TypeOK
  <2>4. ~Step(c, "idle")
    BY <1>10 DEF Admitted, Step
  <2> QED
    BY <1>10, <2>3, <2>4, GateMove
<1>11. ASSUME NEW c \in Callers, StartWorker(c) \/ SaveClient(c) PROVE GateInv'
  <2>1. Admitted(tasks[c])
    BY <1>11 DEF StartWorker, WorkerMayStart, SaveClient, Locked, Step, Rpc, Admitted
  <2> QED
    BY <1>10, <1>11, <2>1 DEF StartWorker, SaveClient
<1>12. ASSUME NEW c \in Callers, Reject(c) \/ Execute(c) \/ ExecuteFails(c) PROVE GateInv'
  <2>1. PICK outcome \in Outcomes : Executed(c, outcome)
    BY <1>12 DEF Reject, Execute, ExecuteFails, Outcomes, Known
  <2>2. [tasks[c] EXCEPT !.pc = "executed", !.outcome = outcome] \in Tasks
    BY TaskTypes DEF Tasks
  <2>3. PICK t \in Tasks : t = [tasks[c] EXCEPT !.pc = "executed", !.outcome = outcome]
    BY <2>2
  <2>4. /\ tasks' = [tasks EXCEPT ![c] = t] /\ t.pc = "executed"
        /\ t.via = tasks[c].via /\ t.id = tasks[c].id /\ t.at = tasks[c].at
    BY <2>1, <2>3, TaskTypes DEF Executed, Tasks, TypeInv, TypeOK
  <2>5. Admitted(tasks[c]) /\ ~Step(c, "idle")
    BY <2>1 DEF Executed, Step, Admitted
  <2> QED
    BY <2>1, <2>4, <2>5, GateMove DEF Executed
<1>13. ASSUME Pause PROVE GateInv'
  <2>1. \A c \in Callers : ~Guarded(tasks[c])
    <3>1. IsFiniteSet(GuardedCallers) /\ Cardinality(GuardedCallers) = 0
      BY <1>13, FS_Subset, JournalAssumption
         DEF Pause, GuardedCallers, TypeInv, CountsGuards
    <3> QED
      BY <3>1, FS_EmptySet DEF GuardedCallers
  <2>2. \A c \in Callers : ~(Admitted(tasks[c]) /\ Rpc(c))
    BY <1>13 DEF Pause, GateInv, NamesWorkers
  <2>3. \A c \in Callers : Step(c, "idle")
    <3> TAKE c \in Callers
    <3>1. tasks[c].pc \in {"idle", "spawned", "entered", "executing", "executed",
                           "recording", "completing"}
      BY TaskTypes DEF Tasks
    <3> QED
      BY <2>1, <2>2, <3>1 DEF Guarded, GateInv, ViaRpc, Admitted, Rpc, Step
  <2> QED
    BY <1>13, <2>3 DEF Pause, GateInv, NamesWorkers, Timely, ViaRpc, PausedIsQuiescent,
                       Admitted, Rpc, Step
<1>14. ASSUME Resume PROVE GateInv'
  BY <1>14 DEF Resume, GateInv, NamesWorkers, Timely, ViaRpc, PausedIsQuiescent,
               Admitted, Rpc, Step
<1>15. ASSUME Crash PROVE GateInv'
  <2>1. \A c \in Callers : tasks'[c].pc = "idle"
    BY <1>15 DEF Crash, Idle
  <2> QED
    BY <2>1 DEF GateInv, NamesWorkers, Timely, ViaRpc, PausedIsQuiescent, Admitted, Rpc, Step
<1>16. ASSUME Tick PROVE GateInv'
  <2>1. now \in Nat /\ now' = now + 1
    BY <1>16 DEF Tick, TypeInv, TypeOK, Times
  <2>2. \A c \in Callers : tasks[c].at \in Nat
    BY TaskTypes DEF Times
  <2>3. Timely'
    BY <1>16, <2>1, <2>2 DEF Tick, GateInv, Timely, Admitted
  <2> QED
    BY <1>16, <2>3 DEF Tick, GateInv, NamesWorkers, ViaRpc, PausedIsQuiescent,
                       Admitted, Rpc, Step
<1> QED
  BY <1>1, <1>2, <1>3, <1>4, <1>5, <1>6, <1>7, <1>8, <1>9, <1>11, <1>12, <1>13, <1>14,
     <1>15, <1>16 DEF Next, Arrive, Advance

\* An instance paused for an update has nothing left to do, unless the wall clock
\* passes the expiry of a running operation: then two workers may share a name.
THEOREM QuiescentWhenPaused == ~OutliveRetention => (Spec => []PausedIsQuiescent)
<1> SUFFICES ASSUME ~OutliveRetention PROVE Spec => []PausedIsQuiescent
  OBVIOUS
<1>1. GateInv => PausedIsQuiescent
  BY DEF GateInv
<1>2. TypeInv /\ OnceInv /\ GateInv /\ [Next]_vars => GateInv'
  BY GateStep
<1> QED
  BY <1>1, <1>2, TypeInit, TypeStep, OnceInit, OnceStep, GateInit, PTL DEF Spec

-----------------------------------------------------------------------------
(* What is answered is true and stays, when no operation outlives its      *)
(* record.                                                                 *)

\* The record is of this admission and shows the outcome on some dialect.
Answers(r, at, outcome) == Present(r) /\ r.at = at /\ outcome \in {r.response, r.result}

\* The outcome is written down somewhere, be it in a file ahead of memory.
Says(id, at, outcome) ==
    \/ Answers(disk[id], at, outcome)
    \/ session # "none" /\ Answers(mem[id], at, outcome)

\* It is in the file, and in memory while there is a session, until it expires.
Sure(id, at, outcome) ==
    \/ Expired(at)
    \/ /\ Answers(disk[id], at, outcome)
       /\ session # "none" => Answers(mem[id], at, outcome)

Truthful(id, at, outcome) ==
    /\ outcome = "applied" => [id |-> id, at |-> at] \in effects
    /\ outcome = "rejected" => [id |-> id, at |-> at] \notin effects

\* The operation's outcome is still to be written, or is known to its task.
Pending(t) == Admitted(t) /\ t.pc # "completing"
Decided(t) == t.pc \in {"executed", "recording", "completing"}

\* Nobody has an answer for the admission.
Clean(id, at) ==
    \A outcome \in Known :
        ~Says(id, at, outcome) /\ [id |-> id, at |-> at, outcome |-> outcome] \notin told

Unanswered ==
    \A c \in Callers : Pending(tasks[c]) => Clean(tasks[c].id, tasks[c].at)

OutcomesTrue ==
    \A c \in Callers :
        Decided(tasks[c]) => Truthful(tasks[c].id, tasks[c].at, tasks[c].outcome)

RecordsTrue ==
    \A id \in Ids, at \in Times, outcome \in Known :
        Says(id, at, outcome) => Truthful(id, at, outcome)

ToldTrue == \A o \in told : Truthful(o.id, o.at, o.outcome)

ToldSure == \A o \in told : o.outcome \in Known => Sure(o.id, o.at, o.outcome)

\* Memory shows no answer that the file has not.
MemorySure ==
    \A id \in Ids, at \in Times, outcome \in Known :
        session # "none" /\ Answers(mem[id], at, outcome) => Sure(id, at, outcome)

AnswerInv ==
    Unanswered /\ OutcomesTrue /\ RecordsTrue /\ ToldTrue /\ ToldSure /\ MemorySure

\* What is known of a step, apart from its effects.  The answer of a task is
\* its own when it leaves the operation with it.
Own(id, at, outcome) ==
    \E c \in Callers :
        /\ Decided(tasks[c]) /\ ~Pending(tasks'[c])
        /\ tasks[c].id = id /\ tasks[c].at = at /\ tasks[c].outcome = outcome

QuietTasks ==
    \A c \in Callers :
        /\ Pending(tasks'[c]) =>
             \/ Pending(tasks[c]) /\ tasks'[c].id = tasks[c].id /\ tasks'[c].at = tasks[c].at
             \/ Clean(tasks[c].id, tasks[c].at)'
        /\ Decided(tasks'[c]) => Truthful(tasks'[c].id, tasks'[c].at, tasks'[c].outcome)

Silent ==
    \A id \in Ids, at \in Times, outcome \in Known :
        Says(id, at, outcome)' => Says(id, at, outcome) \/ Own(id, at, outcome)

Faithful ==
    \A id \in Ids, at \in Times, outcome \in Known :
        Sure(id, at, outcome) => Sure(id, at, outcome)'

Tells ==
    \A o \in told' :
        \/ o \in told \/ o.outcome \notin Known
        \/ /\ Says(o.id, o.at, o.outcome) \/ Own(o.id, o.at, o.outcome)
           /\ Sure(o.id, o.at, o.outcome)'

LEMMA ToldTypes ==
    ASSUME TypeInv, NEW o \in told
    PROVE  /\ o.id \in Ids /\ o.at \in Times
           /\ o = [id |-> o.id, at |-> o.at, outcome |-> o.outcome]
BY DEF TypeInv, TypeOK

LEMMA DecidedAdmitted ==
    ASSUME TypeInv, GateInv, NEW c \in Callers, Decided(tasks[c])
    PROVE  Admitted(tasks[c])
BY DEF Decided, Admitted

\* A task that is pending does not share its operation with one that leaves it.
LEMMA PendingIsNotOwn ==
    ASSUME TypeInv, OnceInv, GateInv, NEW d \in Callers,
           Pending(tasks[d]), Pending(tasks'[d]), NEW at, NEW outcome
    PROVE  ~Own(tasks[d].id, at, outcome)
<1> SUFFICES ASSUME NEW c \in Callers, Decided(tasks[c]), ~Pending(tasks'[c]),
                    tasks[c].id = tasks[d].id
             PROVE  FALSE
  BY DEF Own
<1>1. c # d /\ Admitted(tasks[c]) /\ Admitted(tasks[d])
  BY DecidedAdmitted DEF Pending
<1> QED
  BY <1>1, WorkersDiffer

\* A step without a protocol call.
LEMMA AnswerKept ==
    ASSUME TypeInv, TypeInv', OnceInv, GateInv, AnswerInv, UNCHANGED effects,
           QuietTasks, Silent, Faithful, MemorySure', Tells
    PROVE  AnswerInv'
<1>1. \A id, at, outcome : Truthful(id, at, outcome)' <=> Truthful(id, at, outcome)
  BY DEF Truthful
<1>2. \A id \in Ids, at \in Times, outcome \in Known :
          Own(id, at, outcome) => Truthful(id, at, outcome)
  BY DEF Own, AnswerInv, OutcomesTrue
<1>3. RecordsTrue'
  BY <1>1, <1>2 DEF RecordsTrue, Silent, AnswerInv
<1>4. OutcomesTrue'
  BY <1>1 DEF OutcomesTrue, QuietTasks, Decided
<1>5. \A o \in told' : o.id \in Ids /\ o.at \in Times
                       /\ o = [id |-> o.id, at |-> o.at, outcome |-> o.outcome]
  BY DEF TypeInv, TypeOK
<1>6. ToldTrue'
  <2> SUFFICES ASSUME NEW o \in told' PROVE Truthful(o.id, o.at, o.outcome)
    BY <1>1 DEF ToldTrue
  <2>1. CASE o \in told
    BY <2>1 DEF AnswerInv, ToldTrue
  <2>2. CASE o.outcome \notin Known
    BY <2>2 DEF Truthful, Known
  <2>3. CASE o.outcome \in Known /\ (Says(o.id, o.at, o.outcome) \/ Own(o.id, o.at, o.outcome))
    BY <1>2, <1>5, <2>3 DEF AnswerInv, RecordsTrue
  <2> QED
    BY <2>1, <2>2, <2>3 DEF Tells
<1>7. ToldSure'
  <2> SUFFICES ASSUME NEW o \in told', o.outcome \in Known PROVE Sure(o.id, o.at, o.outcome)'
    BY DEF ToldSure
  <2>1. CASE o \in told
    <3>1. Sure(o.id, o.at, o.outcome)
      BY <2>1 DEF AnswerInv, ToldSure
    <3>2. \A id \in Ids, at \in Times, outcome \in Known :
              id = o.id /\ at = o.at /\ outcome = o.outcome => Sure(id, at, outcome)'
      BY <3>1 DEF Faithful
    <3> QED
      BY <1>5, <3>2
  <2> QED
    BY <2>1 DEF Tells
<1>8. Unanswered'
  <2> SUFFICES ASSUME NEW d \in Callers, Pending(tasks'[d])
               PROVE  Clean(tasks[d].id, tasks[d].at)'
    BY DEF Unanswered, Pending, Admitted
  <2>1. CASE Pending(tasks[d]) /\ tasks'[d].id = tasks[d].id /\ tasks'[d].at = tasks[d].at
    <3> SUFFICES ASSUME NEW outcome \in Known
                 PROVE  /\ ~Says(tasks[d].id, tasks[d].at, outcome)'
                        /\ [id |-> tasks[d].id, at |-> tasks[d].at, outcome |-> outcome] \notin told'
      BY <2>1 DEF Clean
    <3>1. /\ ~Says(tasks[d].id, tasks[d].at, outcome)
          /\ [id |-> tasks[d].id, at |-> tasks[d].at, outcome |-> outcome] \notin told
      BY <2>1 DEF AnswerInv, Unanswered, Clean
    <3>2. ~Own(tasks[d].id, tasks[d].at, outcome)
      BY <2>1, PendingIsNotOwn
    <3>3. \A id \in Ids, at \in Times :
              id = tasks[d].id /\ at = tasks[d].at => ~Says(id, at, outcome)'
      BY <3>1, <3>2 DEF Silent
    <3>4. ~Says(tasks[d].id, tasks[d].at, outcome)'
      BY <2>1, <3>3, TaskTypes DEF Says
    <3>5. [id |-> tasks[d].id, at |-> tasks[d].at, outcome |-> outcome] \notin told'
      BY <3>1, <3>2 DEF Tells
    <3> QED
      BY <3>4, <3>5
  <2> QED
    BY <2>1 DEF QuietTasks
<1> QED
  BY <1>3, <1>4, <1>6, <1>7, <1>8 DEF AnswerInv

\* A protocol call: its operation had no answer, and has none of "rejected".
LEMMA AnswerCall ==
    ASSUME TypeInv, OnceInv, GateInv, AnswerInv, NEW c \in Callers,
           UNCHANGED <<journal, now, told>>, effects' = Effect(c), Pending(tasks[c]),
           \A d \in Callers :
               /\ Pending(tasks'[d]) => Pending(tasks[d]) /\ tasks'[d].id = tasks[d].id
                                        /\ tasks'[d].at = tasks[d].at
               /\ Decided(tasks'[d]) =>
                    \/ d # c /\ tasks'[d] = tasks[d]
                    \/ /\ tasks'[d].outcome # "rejected"
                       /\ [id |-> tasks'[d].id, at |-> tasks'[d].at] \in effects'
    PROVE  AnswerInv'
<1> DEFINE this(id, at) == id = tasks[c].id /\ at = tasks[c].at
<1>1. \A id, at, outcome : Truthful(id, at, outcome) /\ ~this(id, at) => Truthful(id, at, outcome)'
  BY DEF Truthful, Effect
<1>2. \A id, at, outcome : /\ Says(id, at, outcome)' <=> Says(id, at, outcome)
                           /\ Sure(id, at, outcome)' <=> Sure(id, at, outcome)
  BY DEF Says, Sure, Answers, Expired, journal
<1>3. Unanswered'
  BY <1>2 DEF AnswerInv, Unanswered, Clean, Pending, Admitted
<1>4. OutcomesTrue'
  <2> SUFFICES ASSUME NEW d \in Callers, Decided(tasks'[d])
               PROVE  Truthful(tasks[d].id, tasks[d].at, tasks[d].outcome)'
    BY DEF OutcomesTrue, Decided
  <2>1. CASE d # c /\ tasks'[d] = tasks[d]
    <3>1. Decided(tasks[d]) /\ Admitted(tasks[d]) /\ Admitted(tasks[c])
      BY <2>1, DecidedAdmitted DEF Pending
    <3>2. tasks[d].id # tasks[c].id
      BY <2>1, <3>1, WorkersDiffer
    <3>3. Truthful(tasks[d].id, tasks[d].at, tasks[d].outcome)
      BY <3>1 DEF AnswerInv, OutcomesTrue
    <3> QED
      BY <1>1, <2>1, <3>2, <3>3 DEF Truthful
  <2>2. CASE tasks'[d].outcome # "rejected"
             /\ [id |-> tasks'[d].id, at |-> tasks'[d].at] \in effects'
    BY <2>2 DEF Truthful
  <2> QED
    BY <2>1, <2>2
<1>5. \A id \in Ids, at \in Times, outcome \in Known : Says(id, at, outcome) => ~this(id, at)
  BY DEF AnswerInv, Unanswered, Clean
<1>6. RecordsTrue'
  BY <1>1, <1>2, <1>5 DEF AnswerInv, RecordsTrue
<1>7. ToldTrue'
  <2> SUFFICES ASSUME NEW o \in told PROVE Truthful(o.id, o.at, o.outcome)'
    BY DEF ToldTrue
  <2>1. CASE o.outcome \in Known
    <3>1. ~this(o.id, o.at)
      BY <2>1, ToldTypes DEF AnswerInv, Unanswered, Clean
    <3> QED
      BY <1>1, <3>1 DEF AnswerInv, ToldTrue
  <2>2. CASE o.outcome \notin Known
    BY <2>2 DEF Truthful, Known
  <2> QED
    BY <2>1, <2>2
<1>8. ToldSure' /\ MemorySure'
  BY <1>2 DEF AnswerInv, ToldSure, MemorySure, Answers, journal
<1> QED
  BY <1>3, <1>4, <1>6, <1>7, <1>8 DEF AnswerInv

-----------------------------------------------------------------------------
(* What a step does to the archive.                                        *)

\* The candidate shows what memory shows, and it shows nothing else but what
\* a task knows of itself.
Retells(candidate) ==
    \A id \in Ids, at \in Times, outcome \in Known :
        Answers(mem[id], at, outcome) /\ ~Expired(at) => Answers(candidate[id], at, outcome)

AddsNone(candidate) ==
    \A id \in Ids, at \in Times, outcome \in Known :
        Answers(candidate[id], at, outcome) => Answers(mem[id], at, outcome)

AddsOwn(candidate) ==
    \A id \in Ids, at \in Times, outcome \in Known :
        Answers(candidate[id], at, outcome) =>
            Answers(mem[id], at, outcome) \/ Own(id, at, outcome)

AnswersKept == Silent /\ Faithful /\ MemorySure'

\* Whatever part of a save takes place: an outcome is in memory only if the
\* save returned.
LEMMA SaveAnswers ==
    ASSUME MemorySure, session # "none", session' # "none", UNCHANGED now,
           NEW candidate, Retells(candidate), AddsOwn(candidate),
           disk' = disk \/ disk' = candidate \/ disk' = mem,
           mem' = mem \/ mem' = candidate,
           disk' = candidate \/ mem' = mem \/ AddsNone(candidate)
    PROVE  AnswersKept
<1>1. Silent
  BY DEF Silent, Says, AddsOwn
<1>2. Faithful
  BY DEF Faithful, Sure, Retells, Expired
<1>3. MemorySure'
  <2> SUFFICES ASSUME NEW id \in Ids, NEW at \in Times, NEW outcome \in Known,
                      Answers(mem'[id], at, outcome), ~Expired(at)
               PROVE  Answers(disk'[id], at, outcome)
    BY DEF MemorySure, Sure, Expired
  <2>1. CASE Answers(mem[id], at, outcome)
    BY <2>1 DEF MemorySure, Sure, Retells
  <2>2. CASE ~Answers(mem[id], at, outcome)
    BY <2>2 DEF AddsNone
  <2> QED
    BY <2>1, <2>2
<1> QED
  BY <1>1, <1>2, <1>3 DEF AnswersKept

LEMMA StutterAnswers ==
    ASSUME MemorySure, UNCHANGED <<journal, now>>
    PROVE  AnswersKept
BY DEF MemorySure, AnswersKept, Silent, Faithful, Says, Sure, Answers, Expired, journal

LEMMA NoneIsOwn == ASSUME NEW candidate, AddsNone(candidate) PROVE AddsOwn(candidate)
BY DEF AddsNone, AddsOwn

LEMMA MemRetells == Retells(mem) /\ AddsNone(mem)
BY DEF Retells, AddsNone

LEMMA RetainRetells == Retells(Retain(mem)) /\ AddsNone(Retain(mem))
BY DEF Retells, AddsNone, Answers, Retain, Live, Present, Absent

\* A new record has no answer and takes the place of one that has expired.
LEMMA AdmissionRetells ==
    ASSUME NEW id \in Ids, NEW d \in Contents, NEW b \in BOOLEAN, ~Live(mem[id]),
           NEW candidate, candidate = [Retain(mem) EXCEPT ![id] = Admission(d, b)]
    PROVE  /\ Retells(candidate) /\ AddsNone(candidate)
           /\ \A at \in Times, outcome \in Known : ~Answers(candidate[id], at, outcome)
<1>1. Admission(d, b).response = "none" /\ Admission(d, b).result = "none"
  BY DEF Admission
<1>2. candidate[id] = Admission(d, b)
  BY DEF Retain
<1>3. \A i \in Ids \ {id} : candidate[i] = Retain(mem)[i]
  BY DEF Retain
<1>4. \A at \in Times, outcome \in Known : ~Answers(candidate[id], at, outcome)
  BY <1>1, <1>2 DEF Answers, Known
<1>5. \A at \in Times, outcome \in Known :
          Answers(mem[id], at, outcome) => Expired(at)
  BY DEF Answers, Live
<1>6. Retells(candidate)
  BY <1>3, <1>5, RetainRetells DEF Retells
<1>7. AddsNone(candidate)
  BY <1>3, <1>4, RetainRetells DEF AddsNone
<1> QED
  BY <1>4, <1>6, <1>7

\* An admission that has not finished has its record in memory.
LEMMA RecordIsHeld ==
    ASSUME TypeInv, OnceInv, GateInv, session # "none", NEW c \in Callers, Admitted(tasks[c])
    PROVE  Holds(mem, tasks[c].id, tasks[c].at) /\ ~Expired(tasks[c].at)
<1>1. tasks[c].at \in Nat /\ now \in Nat /\ Retention \in Nat
  BY TaskTypes, JournalAssumption DEF TypeInv, TypeOK, Times
<1>2. ~Expired(tasks[c].at)
  BY <1>1 DEF GateInv, Timely, Expired
<1> QED
  BY <1>2 DEF OnceInv, TasksKept, Kept

LEMMA ResponseRetells ==
    ASSUME TypeInv, OnceInv, GateInv, AnswerInv, session # "none",
           NEW c \in Callers, Step(c, "recording"), ~Pending(tasks'[c])
    PROVE  Retells(WithResponse(c)) /\ AddsOwn(WithResponse(c))
<1> DEFINE k == tasks[c].id
           r == [mem[k] EXCEPT !.response = tasks[c].outcome]
<1>1. Pending(tasks[c]) /\ Decided(tasks[c])
  BY DEF Pending, Decided, Admitted, Step
<1>2. mem \in [Ids -> Records] /\ k \in Ids /\ mem[k] \in Records
  BY TaskTypes DEF TypeInv, TypeOK
<1>3. /\ r.response = tasks[c].outcome /\ r.result = mem[k].result
      /\ r.at = mem[k].at /\ r.digest = mem[k].digest
  BY <1>2 DEF Records
<1>4. WithResponse(c) = [mem EXCEPT ![k] = r]
  BY <1>2 DEF WithResponse
<1> HIDE DEF r
<1>5. WithResponse(c)[k] = r /\ \A i \in Ids \ {k} : WithResponse(c)[i] = mem[i]
  BY <1>2, <1>4
<1>6. mem[k].at = tasks[c].at
  BY <1>1, RecordIsHeld DEF Holds, Pending
<1>7. \A outcome \in Known : ~Answers(mem[k], tasks[c].at, outcome)
  BY <1>1 DEF AnswerInv, Unanswered, Clean, Says
<1>8. Retells(WithResponse(c))
  BY <1>5, <1>6, <1>7 DEF Retells, Answers
<1>9. \A at \in Times, outcome \in Known :
          Answers(r, at, outcome) => Answers(mem[k], at, outcome) \/ Own(k, at, outcome)
  BY <1>1, <1>3, <1>6 DEF Answers, Own, Present
<1> QED
  BY <1>5, <1>8, <1>9 DEF AddsOwn

LEMMA ResultRetells ==
    ASSUME TypeInv, OnceInv, GateInv, AnswerInv, NEW c \in Callers,
           Step(c, "completing"), MayComplete(c), ~Pending(tasks'[c])
    PROVE  Retells(WithResult(c)) /\ AddsOwn(WithResult(c))
<1> DEFINE k == tasks[c].id
           r == [mem[k] EXCEPT !.result = tasks[c].outcome]
<1>1. Admitted(tasks[c]) /\ Decided(tasks[c])
  BY DEF Decided, Admitted, Step
<1>2. mem \in [Ids -> Records] /\ k \in Ids /\ mem[k] \in Records
  BY TaskTypes DEF TypeInv, TypeOK
<1>3. /\ r.result = tasks[c].outcome /\ r.response = mem[k].response
      /\ r.at = mem[k].at /\ r.digest = mem[k].digest
  BY <1>2 DEF Records
<1>4. WithResult(c) = [mem EXCEPT ![k] = r]
  BY <1>2 DEF WithResult
<1> HIDE DEF r
<1>5. WithResult(c)[k] = r /\ \A i \in Ids \ {k} : WithResult(c)[i] = mem[i]
  BY <1>2, <1>4
<1>6. mem[k].at = tasks[c].at /\ mem[k].result \in {"none", tasks[c].outcome}
  BY <1>1, RecordIsHeld DEF Holds, MayComplete, Record
<1>7. \A at \in Times, outcome \in Known :
          Answers(mem[k], at, outcome) => Answers(r, at, outcome)
  BY <1>3, <1>6 DEF Answers, Known, Present
<1>8. Retells(WithResult(c))
  BY <1>5, <1>7 DEF Retells
<1>9. \A at \in Times, outcome \in Known :
          Answers(r, at, outcome) => Answers(mem[k], at, outcome) \/ Own(k, at, outcome)
  BY <1>1, <1>3, <1>6 DEF Answers, Own, Present, Pending
<1> QED
  BY <1>5, <1>8, <1>9 DEF AddsOwn

-----------------------------------------------------------------------------
(* What a step does to its task.                                           *)

LEMMA MoveQuiet ==
    ASSUME TypeInv, AnswerInv, NEW c \in Callers, NEW t \in Tasks,
           tasks' = [tasks EXCEPT ![c] = t],
           Pending(t) => \/ Pending(tasks[c]) /\ t.id = tasks[c].id /\ t.at = tasks[c].at
                         \/ Clean(tasks[c].id, tasks[c].at)',
           Decided(t) => Truthful(t.id, t.at, t.outcome)
    PROVE  QuietTasks
<1>1. tasks'[c] = t /\ \A d \in Callers \ {c} : tasks'[d] = tasks[d]
  BY DEF TypeInv, TypeOK
<1> QED
  BY <1>1 DEF QuietTasks, AnswerInv, OutcomesTrue

LEMMA EndQuiet ==
    ASSUME TypeInv, AnswerInv, NEW c \in Callers, End(c)
    PROVE  QuietTasks /\ ~Pending(tasks'[c])
<1>1. /\ tasks'[c] = Idle /\ Idle.pc = "idle"
      /\ \A d \in Callers \ {c} : tasks'[d] = tasks[d]
  BY DEF End, TypeInv, TypeOK, Idle
<1> QED
  BY <1>1 DEF QuietTasks, AnswerInv, OutcomesTrue, Pending, Admitted, Decided

LEMMA StutterQuiet ==
    ASSUME AnswerInv, UNCHANGED tasks
    PROVE  QuietTasks
BY DEF QuietTasks, AnswerInv, OutcomesTrue

LEMMA AwaitQuiet ==
    ASSUME TypeInv, AnswerInv, NEW c \in Callers, NEW outcome \in Known,
           AwaitCompletion(c, outcome), Truthful(tasks[c].id, tasks[c].at, outcome)
    PROVE  QuietTasks /\ ~Pending(tasks'[c])
<1>1. [tasks[c] EXCEPT !.pc = "completing", !.outcome = outcome] \in Tasks
  BY TaskTypes DEF Tasks, Outcomes
<1>2. PICK t \in Tasks : t = [tasks[c] EXCEPT !.pc = "completing", !.outcome = outcome]
  BY <1>1
<1>3. /\ tasks' = [tasks EXCEPT ![c] = t] /\ t.pc = "completing"
      /\ t.id = tasks[c].id /\ t.at = tasks[c].at /\ t.outcome = outcome
  BY <1>2, TaskTypes DEF AwaitCompletion, TypeInv, TypeOK, Tasks
<1>4. tasks'[c] = t
  BY <1>3 DEF TypeInv, TypeOK
<1> QED
  BY <1>3, <1>4, MoveQuiet DEF Pending

\* A response is told to a legacy client, and left to rpc_complete by a worker.
LEMMA ReturnQuiet ==
    ASSUME TypeInv, AnswerInv, NEW c \in Callers, NEW at, NEW outcome,
           Return(c, at, outcome),
           Rpc(c) /\ outcome \in Known => Truthful(tasks[c].id, tasks[c].at, outcome)
    PROVE  QuietTasks /\ ~Pending(tasks'[c])
BY AwaitQuiet, EndQuiet DEF Return

\* The call of an operation that is still to come has not been made.
LEMMA UnsentIsRejected ==
    ASSUME TypeInv, OnceInv, NEW c \in Callers, Unsent(tasks[c])
    PROVE  Truthful(tasks[c].id, tasks[c].at, "rejected")
<1> SUFFICES ASSUME [id |-> tasks[c].id, at |-> tasks[c].at] \in effects PROVE FALSE
  BY DEF Truthful
<1>1. Apart(tasks[c].at, tasks[c].at)
  BY DEF OnceInv, EffectsApart
<1>2. tasks[c].at \in Nat /\ Retention \in Nat \ {0}
  BY TaskTypes, JournalAssumption DEF Times
<1> QED
  BY <1>1, <1>2 DEF Apart

\* The admission that was just saved: what was told of its identifier has
\* expired.
LEMMA AdmissionClean ==
    ASSUME TypeInv, AnswerInv, session = "open", session' = "open",
           NEW id \in Ids, ~Live(mem[id]), UNCHANGED <<now, told>>,
           NEW candidate, mem' = candidate, disk' = candidate,
           \A at \in Times, outcome \in Known : ~Answers(candidate[id], at, outcome)
    PROVE  Clean(id, now)'
<1>1. now \in Nat /\ Retention \in Nat \ {0} /\ now \in Times
  BY JournalAssumption DEF TypeInv, TypeOK, Times
<1>2. ~Expired(now)
  BY <1>1 DEF Expired
<1>3. \A outcome \in Known : [id |-> id, at |-> now, outcome |-> outcome] \notin told
  <2> SUFFICES ASSUME NEW outcome \in Known,
                      [id |-> id, at |-> now, outcome |-> outcome] \in told
               PROVE  FALSE
    OBVIOUS
  <2>1. Sure(id, now, outcome)
    BY DEF AnswerInv, ToldSure
  <2> QED
    BY <1>2, <2>1 DEF Sure, Answers, Live
<1>4. \A outcome \in Known : ~Says(id, now, outcome)'
  BY <1>1 DEF Says, Answers
<1> QED
  BY <1>3, <1>4 DEF Clean

LEMMA NothingTold == ASSUME UNCHANGED told PROVE Tells
BY DEF Tells

\* dispatch says "rejected" or "disconnected": of no outcome.
LEMMA ErrorTold ==
    ASSUME NEW c \in Callers, NEW at, ReturnErr(c, at)
    PROVE  Tells
BY DEF ReturnErr, Tell, Tells, Known

LEMMA AnswerInit == Init => AnswerInv
<1> SUFFICES ASSUME Init PROVE AnswerInv
  OBVIOUS
<1>1. \A c \in Callers : tasks[c].pc = "idle"
  BY DEF Init, Idle
<1>2. \A id \in Ids, at \in Times, outcome \in Known : ~Says(id, at, outcome)
  BY DEF Init, Says, Answers, EmptyJournal, Absent, Present
<1> QED
  BY <1>1, <1>2 DEF Init, AnswerInv, Unanswered, OutcomesTrue, RecordsTrue, ToldTrue,
                    ToldSure, MemorySure, Pending, Decided, Admitted

LEMMA AnswerStep ==
    TypeInv /\ TypeInv' /\ OnceInv /\ GateInv /\ AnswerInv /\ [Next]_vars => AnswerInv'
<1> SUFFICES ASSUME TypeInv, TypeInv', OnceInv, GateInv, AnswerInv, [Next]_vars
             PROVE  AnswerInv'
  OBVIOUS
<1> USE DEF journal, gate
<1>0. MemorySure
  BY DEF AnswerInv
<1>b. now \in Times /\ mem \in [Ids -> Records] /\ tasks \in [Callers -> Tasks]
  BY DEF TypeInv, TypeOK
<1>a. ASSUME AnswersKept, QuietTasks, Tells, UNCHANGED effects PROVE AnswerInv'
  BY <1>a, AnswerKept DEF AnswersKept
<1>1. ASSUME NEW c \in Callers, NEW id \in Ids, NEW d \in Contents, Submit(c, id, d)
      PROVE  AnswerInv'
  <2>0. [Idle EXCEPT !.pc = "entered", !.id = id, !.digest = d] \in Tasks
    BY DefaultTypes DEF Tasks
  <2>1. PICK t \in Tasks : t = [Idle EXCEPT !.pc = "entered", !.id = id, !.digest = d]
    BY <2>0
  <2>2. /\ tasks' = [tasks EXCEPT ![c] = t]
        /\ t.pc = "entered" /\ t.via = "legacy"
    BY <1>1, <2>1 DEF Submit, Idle
  <2>3. ~Pending(t) /\ ~Decided(t)
    BY <2>2 DEF Pending, Decided, Admitted
  <2> QED
    BY <1>0, <1>1, <1>a, <2>2, <2>3, MoveQuiet, StutterAnswers, NothingTold DEF Submit
<1>2. ASSUME NEW c \in Callers, NEW id \in Ids, NEW d \in Contents, RpcAdmit(c, id, d)
      PROVE  AnswerInv'
  <2>0. [Idle EXCEPT !.pc = "spawned", !.via = "rpc", !.id = id, !.digest = d,
                     !.at = now] \in Tasks
    BY <1>b, DefaultTypes DEF Tasks
  <2>1. PICK t \in Tasks : t = [Idle EXCEPT !.pc = "spawned", !.via = "rpc", !.id = id,
                                            !.digest = d, !.at = now]
    BY <2>0
  <2>2. /\ tasks' = [tasks EXCEPT ![c] = t]
        /\ t.pc = "spawned" /\ t.id = id /\ t.at = now
    BY <1>2, <2>1, DefaultTypes DEF RpcAdmit, Tasks
  <2>3. session = "open" /\ session' = "open" /\ ~Live(mem[id])
    BY <1>2 DEF RpcAdmit, RpcMayAdmit
  <2>4. PICK candidate : candidate = RpcCandidate(id, d)
    OBVIOUS
  <2>5. /\ Retells(candidate) /\ AddsNone(candidate)
        /\ \A at \in Times, outcome \in Known : ~Answers(candidate[id], at, outcome)
    BY <2>3, <2>4, AdmissionRetells DEF RpcCandidate
  <2>6. AnswersKept
    BY <1>0, <1>2, <2>3, <2>4, <2>5, SaveAnswers, NoneIsOwn DEF RpcAdmit
  <2>7. Clean(id, now)'
    BY <1>2, <2>3, <2>4, <2>5, AdmissionClean DEF RpcAdmit
  <2>8. tasks'[c] = t
    BY <1>b, <2>2
  <2>9. Clean(tasks[c].id, tasks[c].at)'
    BY <1>2, <2>2, <2>7, <2>8 DEF RpcAdmit, Clean, Says
  <2> QED
    BY <1>2, <1>a, <2>2, <2>6, <2>9, MoveQuiet, NothingTold DEF RpcAdmit, Decided
<1>3. ASSUME NEW c \in Callers, NEW id \in Ids, NEW d \in Contents, RpcAdmitFails(c, id, d)
      PROVE  AnswerInv'
  <2>1. session = "open" /\ ~Live(mem[id])
    BY <1>3 DEF RpcAdmitFails, RpcMayAdmit
  <2>2. Retells(RpcCandidate(id, d)) /\ AddsNone(RpcCandidate(id, d))
    BY <2>1, AdmissionRetells DEF RpcCandidate
  <2>3. AnswersKept
    BY <1>0, <1>3, <2>1, <2>2, SaveAnswers, NoneIsOwn DEF RpcAdmitFails, SaveFails
  <2> QED
    BY <1>3, <1>a, <2>3, StutterQuiet, NothingTold DEF RpcAdmitFails
<1>4. ASSUME NEW id \in Ids, RpcRead(id) PROVE AnswerInv'
  <2>1. AnswersKept
    BY <1>0, <1>4, StutterAnswers DEF RpcRead
  <2>2. PICK at, outcome : at = mem[id].at /\ outcome = TypedResult(mem[id])
    OBVIOUS
  <2>3. /\ session = "open" /\ outcome \in Known /\ Answers(mem[id], at, outcome)
        /\ told' = told \cup {[id |-> id, at |-> at, outcome |-> outcome]}
    BY <1>4, <2>2 DEF RpcRead, Live, TypedResult, Answers
  <2>4. at \in Times
    BY <1>b, <2>2 DEF Records
  <2>5. Says(id, at, outcome) /\ Sure(id, at, outcome)'
    BY <1>0, <2>1, <2>3, <2>4 DEF MemorySure, AnswersKept, Faithful, Says
  <2>6. Tells
    BY <2>3, <2>5 DEF Tells, Sure, Answers
  <2> QED
    BY <1>4, <1>a, <2>1, <2>6, StutterQuiet DEF RpcRead
<1>5. ASSUME NEW c \in Callers, EnterAdmitted(c) PROVE AnswerInv'
  <2>1. AnswersKept /\ Tells
    BY <1>0, <1>5, StutterAnswers, NothingTold DEF EnterAdmitted
  <2>2. CASE paused
    BY <1>5, <1>a, <2>1, <2>2, EndQuiet DEF EnterAdmitted
  <2>3. CASE ~paused
    <3>1. [tasks[c] EXCEPT !.pc = "entered"] \in Tasks
      BY TaskTypes DEF Tasks
    <3>2. PICK t \in Tasks : t = [tasks[c] EXCEPT !.pc = "entered"]
      BY <3>1
    <3>3. /\ tasks' = [tasks EXCEPT ![c] = t] /\ tasks[c].pc = "spawned"
          /\ t.pc = "entered" /\ t.id = tasks[c].id /\ t.at = tasks[c].at
      BY <1>5, <2>3, <3>2, TaskTypes DEF EnterAdmitted, Step, Tasks
    <3>4. QuietTasks
      BY <3>3, MoveQuiet DEF Pending, Decided, Admitted
    <3> QED
      BY <1>5, <1>a, <2>1, <3>4 DEF EnterAdmitted
  <2> QED
    BY <2>2, <2>3
<1>6. ASSUME NEW c \in Callers, ReplyLocked(c) PROVE AnswerInv'
  <2>1. AnswersKept /\ Tells
    BY <1>0, <1>6, StutterAnswers, NothingTold DEF ReplyLocked
  <2>2. QuietTasks
    <3>1. Rpc(c) => Unsent(tasks[c])
      BY <1>6 DEF ReplyLocked, Locked, Step, Unsent, Admitted, Rpc
    <3>2. Rpc(c) => AwaitCompletion(c, "rejected") /\ "rejected" \in Known
      BY <1>6 DEF ReplyLocked, Known
    <3>3. ~Rpc(c) => End(c)
      BY <1>6 DEF ReplyLocked
    <3> QED
      BY <3>1, <3>2, <3>3, UnsentIsRejected, AwaitQuiet, EndQuiet
  <2> QED
    BY <1>6, <1>a, <2>1, <2>2 DEF ReplyLocked
<1>7. ASSUME NEW c \in Callers, ReplyRecorded(c) PROVE AnswerInv'
  <2>1. AnswersKept
    BY <1>0, <1>7, StutterAnswers DEF ReplyRecorded
  <2>2. PICK at, outcome : at = Record(c).at /\ outcome = Record(c).response
    OBVIOUS
  <2>3. /\ session = "open" /\ Return(c, at, outcome)
        /\ Answers(mem[tasks[c].id], at, outcome) /\ tasks[c].pc = "entered"
    BY <1>7, <2>2 DEF ReplyRecorded, Answers, Record, Locked, Step
  <2>4. at \in Times
    BY <1>b, <2>2, TaskTypes DEF Records, Record
  <2>5. ~(Rpc(c) /\ outcome \in Known)
    <3> SUFFICES ASSUME Rpc(c), outcome \in Known PROVE FALSE
      OBVIOUS
    <3>1. Pending(tasks[c]) /\ Admitted(tasks[c])
      BY <2>3 DEF Pending, Admitted, Rpc
    <3>2. at = tasks[c].at
      BY <2>2, <2>3, <3>1, RecordIsHeld DEF Holds, Record
    <3> QED
      BY <2>3, <3>1, <3>2 DEF AnswerInv, Unanswered, Clean, Says
  <2>6. QuietTasks
    BY <2>3, <2>5, ReturnQuiet
  <2>7. PICK id \in Ids : id = tasks[c].id
    BY TaskTypes
  <2>8. outcome \in Known => Says(id, at, outcome) /\ Sure(id, at, outcome)'
    BY <1>0, <2>1, <2>3, <2>4, <2>7 DEF MemorySure, AnswersKept, Faithful, Says
  <2>9. \A o \in told' :
            o \in told \/ (outcome \in Known /\ o = [id |-> id, at |-> at, outcome |-> outcome])
    BY <2>3, <2>7 DEF Return, Tell
  <2>10. Tells
    BY <2>8, <2>9 DEF Tells, Sure, Expired
  <2> QED
    BY <1>7, <1>a, <2>1, <2>6, <2>10 DEF ReplyRecorded
<1>8. ASSUME NEW c \in Callers, Refuse(c) \/ RecordOutcomePanics(c) PROVE AnswerInv'
  BY <1>0, <1>8, <1>a, EndQuiet, StutterAnswers, NothingTold DEF Refuse, RecordOutcomePanics
<1>9. ASSUME NEW c \in Callers, RefuseFull(c) PROVE AnswerInv'
  <2>1. AnswersKept
    BY <1>0, <1>9, RetainRetells, NoneIsOwn, SaveAnswers DEF RefuseFull, LegacyMayAdmit
  <2> QED
    BY <1>9, <1>a, <2>1, EndQuiet, NothingTold DEF RefuseFull
<1>10. ASSUME NEW c \in Callers, LegacyMayAdmit(c)
       PROVE  /\ session = "open" /\ ~Live(mem[tasks[c].id])
              /\ Retells(LegacyCandidate(c)) /\ AddsNone(LegacyCandidate(c))
              /\ \A at \in Times, outcome \in Known :
                     ~Answers(LegacyCandidate(c)[tasks[c].id], at, outcome)
  <2>1. session = "open" /\ ~Live(mem[tasks[c].id]) /\ tasks[c].digest \in Contents
    BY <1>10 DEF LegacyMayAdmit, Locked, Record, Live, Step, OnceInv, HaveContents
  <2> QED
    BY <2>1, TaskTypes, AdmissionRetells DEF LegacyCandidate
<1>11. ASSUME NEW c \in Callers, AdmitLegacy(c) PROVE AnswerInv'
  <2>0. [tasks[c] EXCEPT !.pc = "executing", !.at = now] \in Tasks
    BY <1>b, TaskTypes DEF Tasks
  <2>1. PICK t \in Tasks : t = [tasks[c] EXCEPT !.pc = "executing", !.at = now]
    BY <2>0
  <2>2. /\ tasks' = [tasks EXCEPT ![c] = t] /\ t.pc = "executing"
        /\ t.id = tasks[c].id /\ t.at = now
    BY <1>11, <1>b, <2>1, TaskTypes DEF AdmitLegacy, Tasks
  <2>3. LegacyMayAdmit(c)
    BY <1>11 DEF AdmitLegacy
  <2>4. AnswersKept
    BY <1>0, <1>10, <1>11, <2>3, NoneIsOwn, SaveAnswers DEF AdmitLegacy
  <2>5. Clean(tasks[c].id, now)'
    <3>1. PICK candidate : candidate = LegacyCandidate(c)
      OBVIOUS
    <3>2. PICK id \in Ids : id = tasks[c].id
      BY TaskTypes
    <3>3. Clean(id, now)'
      BY <1>10, <1>11, <2>3, <3>1, <3>2, AdmissionClean DEF AdmitLegacy
    <3>4. tasks'[c].id = id
      BY <1>b, <2>2, <3>2
    <3> QED
      BY <3>3, <3>4
  <2>6. Clean(tasks[c].id, tasks[c].at)'
    BY <1>11, <1>b, <2>2, <2>5 DEF AdmitLegacy, Clean, Says
  <2> QED
    BY <1>11, <1>a, <2>2, <2>4, <2>6, MoveQuiet, NothingTold DEF AdmitLegacy, Decided
<1>12. ASSUME NEW c \in Callers, AdmitLegacyFails(c) PROVE AnswerInv'
  <2>1. AnswersKept
    BY <1>0, <1>10, <1>12, NoneIsOwn, SaveAnswers DEF AdmitLegacyFails, SaveFails
  <2> QED
    BY <1>12, <1>a, <2>1, EndQuiet, ErrorTold DEF AdmitLegacyFails, ReturnErr
<1>13. ASSUME NEW c \in Callers, StartWorker(c) PROVE AnswerInv'
  <2>0. [tasks[c] EXCEPT !.pc = "executing"] \in Tasks
    BY TaskTypes DEF Tasks
  <2>1. PICK t \in Tasks : t = [tasks[c] EXCEPT !.pc = "executing"]
    BY <2>0
  <2>2. /\ tasks' = [tasks EXCEPT ![c] = t] /\ tasks[c].pc = "entered" /\ tasks[c].via = "rpc"
        /\ t.pc = "executing" /\ t.id = tasks[c].id /\ t.at = tasks[c].at
    BY <1>13, <2>1, TaskTypes DEF StartWorker, WorkerMayStart, Locked, Step, Rpc, Tasks
  <2>3. QuietTasks
    BY <2>2, MoveQuiet DEF Pending, Decided, Admitted
  <2>4. AnswersKept
    BY <1>0, <1>13, MemRetells, NoneIsOwn, SaveAnswers DEF StartWorker, WorkerMayStart
  <2> QED
    BY <1>13, <1>a, <2>3, <2>4, NothingTold DEF StartWorker
<1>14. ASSUME NEW c \in Callers, StartWorkerFails(c) PROVE AnswerInv'
  <2>1. AnswersKept
    BY <1>0, <1>14, MemRetells, NoneIsOwn, SaveAnswers
       DEF StartWorkerFails, WorkerMayStart, SaveFails
  <2> QED
    BY <1>14, <1>a, <2>1, EndQuiet, ErrorTold DEF StartWorkerFails, ReturnErr
<1>15. ASSUME NEW c \in Callers, NEW outcome \in Outcomes, Executed(c, outcome)
       PROVE  /\ AnswersKept /\ Tells
              /\ tasks'[c].pc = "executed" /\ tasks'[c].outcome = outcome
              /\ tasks'[c].id = tasks[c].id /\ tasks'[c].at = tasks[c].at
              /\ \A d \in Callers \ {c} : tasks'[d] = tasks[d]
              /\ Pending(tasks[c]) /\ Unsent(tasks[c])
              /\ Truthful(tasks[c].id, tasks[c].at, outcome) => QuietTasks
  <2>0. [tasks[c] EXCEPT !.pc = "executed", !.outcome = outcome] \in Tasks
    BY TaskTypes DEF Tasks
  <2>1. PICK t \in Tasks : t = [tasks[c] EXCEPT !.pc = "executed", !.outcome = outcome]
    BY <2>0
  <2>2. /\ tasks' = [tasks EXCEPT ![c] = t] /\ tasks[c].pc = "executing"
        /\ t.pc = "executed" /\ t.outcome = outcome
        /\ t.id = tasks[c].id /\ t.at = tasks[c].at
    BY <1>15, <1>b, <2>1, TaskTypes DEF Executed, Step, Tasks
  <2>3. tasks'[c] = t /\ \A d \in Callers \ {c} : tasks'[d] = tasks[d]
    BY <1>b, <2>2
  <2>4. Pending(tasks[c]) /\ Unsent(tasks[c])
    BY <2>2 DEF Pending, Unsent, Admitted
  <2>5. AnswersKept /\ Tells
    BY <1>0, <1>15, StutterAnswers, NothingTold DEF Executed
  <2>6. Truthful(tasks[c].id, tasks[c].at, outcome) => QuietTasks
    BY <2>2, <2>4, MoveQuiet
  <2> QED
    BY <2>2, <2>3, <2>4, <2>5, <2>6
<1>16. ASSUME NEW c \in Callers, NEW outcome \in {"applied", "unknown"}, Executed(c, outcome),
              effects' = Effect(c)
       PROVE  AnswerInv'
  <2>1. outcome \in Outcomes /\ outcome # "rejected"
    BY DEF Outcomes, Known
  <2>2. UNCHANGED <<journal, now, told>>
    BY <1>16 DEF Executed
  <2>3. [id |-> tasks[c].id, at |-> tasks[c].at] \in effects'
    BY <1>16 DEF Effect
  <2> QED
    BY <1>15, <1>16, <2>1, <2>2, <2>3, AnswerCall
<1>17. ASSUME NEW c \in Callers, Reject(c) \/ Execute(c) \/ ExecuteFails(c) PROVE AnswerInv'
  <2>1. CASE Reject(c)
    <3>1. Executed(c, "rejected") /\ "rejected" \in Outcomes
      BY <2>1 DEF Reject, Outcomes, Known
    <3> QED
      BY <1>15, <1>a, <2>1, <3>1, UnsentIsRejected DEF Reject
  <2>2. CASE Execute(c)
    BY <1>16, <2>2 DEF Execute
  <2>3. CASE ExecuteFails(c) /\ effects' = Effect(c)
    BY <1>16, <2>3 DEF ExecuteFails
  <2>4. CASE ExecuteFails(c) /\ UNCHANGED effects
    <3>1. Executed(c, "unknown") /\ "unknown" \in Outcomes
      BY <2>4 DEF ExecuteFails, Outcomes
    <3>2. Truthful(tasks[c].id, tasks[c].at, "unknown")
      BY DEF Truthful
    <3> QED
      BY <1>15, <1>a, <2>4, <3>1, <3>2
  <2> QED
    BY <1>17, <2>1, <2>2, <2>3, <2>4 DEF ExecuteFails
<1>18. ASSUME NEW c \in Callers, SaveClient(c) PROVE AnswerInv'
  <2>0. [tasks[c] EXCEPT !.pc = "recording"] \in Tasks
    BY TaskTypes DEF Tasks
  <2>1. PICK t \in Tasks : t = [tasks[c] EXCEPT !.pc = "recording"]
    BY <2>0
  <2>2. /\ tasks' = [tasks EXCEPT ![c] = t] /\ tasks[c].pc = "executed"
        /\ t.pc = "recording" /\ t.id = tasks[c].id /\ t.at = tasks[c].at
        /\ t.outcome = tasks[c].outcome
    BY <1>18, <2>1, TaskTypes DEF SaveClient, Step, Tasks
  <2>3. Pending(tasks[c]) /\ Decided(tasks[c])
    BY <2>2 DEF Pending, Decided, Admitted
  <2>4. QuietTasks
    BY <2>2, <2>3, MoveQuiet DEF AnswerInv, OutcomesTrue
  <2> QED
    BY <1>0, <1>18, <1>a, <2>4, StutterAnswers, NothingTold DEF SaveClient
<1>19. ASSUME NEW c \in Callers, SaveClientFails(c) PROVE AnswerInv'
  BY <1>0, <1>19, <1>a, EndQuiet, StutterAnswers, ErrorTold DEF SaveClientFails, ReturnErr
<1>20. ASSUME NEW c \in Callers, RecordOutcome(c) PROVE AnswerInv'
  <2>1. Decided(tasks[c]) /\ Admitted(tasks[c]) /\ session # "none"
    BY <1>20 DEF RecordOutcome, Decided, Admitted, Step
  <2>2. Return(c, tasks[c].at, tasks[c].outcome)
    BY <1>20 DEF RecordOutcome
  <2>3. QuietTasks /\ ~Pending(tasks'[c])
    BY <2>1, <2>2, ReturnQuiet DEF AnswerInv, OutcomesTrue
  <2>4. Retells(WithResponse(c)) /\ AddsOwn(WithResponse(c))
    BY <1>20, <2>3, ResponseRetells DEF RecordOutcome
  <2>5. AnswersKept
    BY <1>0, <1>20, <2>4, SaveAnswers DEF RecordOutcome
  <2>6. PICK id \in Ids, at \in Times, outcome \in Outcomes \cup {"none"} :
            id = tasks[c].id /\ at = tasks[c].at /\ outcome = tasks[c].outcome
    BY TaskTypes DEF Tasks
  <2>7. Own(id, at, outcome)
    BY <2>1, <2>3, <2>6 DEF Own
  <2>8. outcome \in Known => Sure(id, at, outcome)'
    <3>1. Present(mem[id]) /\ mem[id].at = at /\ mem[id] \in Records
      BY <1>b, <2>1, <2>6, RecordIsHeld DEF Holds
    <3>2. WithResponse(c)[id] = [mem[id] EXCEPT !.response = outcome]
      BY <1>b, <2>6 DEF WithResponse
    <3>3. Answers(WithResponse(c)[id], at, outcome)
      BY <3>1, <3>2 DEF Answers, Present, Records
    <3> QED
      BY <1>20, <3>3 DEF RecordOutcome, Sure
  <2>9. \A o \in told' :
            o \in told \/ (outcome \in Known /\ o = [id |-> id, at |-> at, outcome |-> outcome])
    BY <2>2, <2>6 DEF Return, Tell
  <2>10. Tells
    BY <2>7, <2>8, <2>9 DEF Tells, Sure, Expired
  <2> QED
    BY <1>20, <1>a, <2>3, <2>5, <2>10 DEF RecordOutcome
<1>21. ASSUME NEW c \in Callers, RecordOutcomeFails(c) PROVE AnswerInv'
  <2>1. QuietTasks /\ ~Pending(tasks'[c]) /\ Tells
    BY <1>21, EndQuiet, ErrorTold DEF RecordOutcomeFails, ReturnErr
  <2>2. AnswersKept
    <3>1. CASE session = "none"
      BY <1>0, <1>21, <3>1, StutterAnswers DEF RecordOutcomeFails
    <3>2. CASE session # "none"
      <4>1. Retells(WithResponse(c)) /\ AddsOwn(WithResponse(c))
        BY <1>21, <2>1, <3>2, ResponseRetells DEF RecordOutcomeFails
      <4> QED
        BY <1>0, <1>21, <3>2, <4>1, SaveAnswers DEF RecordOutcomeFails, SaveFails
    <3> QED
      BY <3>1, <3>2
  <2> QED
    BY <1>21, <1>a, <2>1, <2>2 DEF RecordOutcomeFails
<1>22. ASSUME NEW c \in Callers, Complete(c) \/ CompleteFails(c) PROVE AnswerInv'
  <2>1. QuietTasks /\ ~Pending(tasks'[c]) /\ Tells
    BY <1>22, EndQuiet, NothingTold DEF Complete, CompleteFails
  <2>2. AnswersKept
    <3>1. CASE ~MayComplete(c)
      BY <1>0, <1>22, <3>1, StutterAnswers DEF Complete, CompleteFails
    <3>2. CASE MayComplete(c)
      <4>1. Retells(WithResult(c)) /\ AddsOwn(WithResult(c)) /\ session # "none"
        BY <1>22, <2>1, <3>2, ResultRetells DEF Complete, CompleteFails, MayComplete
      <4> QED
        BY <1>0, <1>22, <3>2, <4>1, SaveAnswers DEF Complete, CompleteFails, SaveFails
    <3> QED
      BY <3>1, <3>2
  <2> QED
    BY <1>22, <1>a, <2>1, <2>2 DEF Complete, CompleteFails
<1>23. ASSUME NEW c \in Callers, Cancel(c) PROVE AnswerInv'
  <2>1. /\ End(c) /\ UNCHANGED <<journal, now, told>>
        /\ UNCHANGED effects \/ (effects' = Effect(c) /\ Pending(tasks[c]))
    BY <1>23 DEF Cancel, Step, Pending, Admitted
  <2>2. CASE UNCHANGED effects
    BY <1>0, <1>a, <2>1, <2>2, EndQuiet, StutterAnswers, NothingTold
  <2>3. CASE effects' = Effect(c) /\ Pending(tasks[c])
    <3>1. /\ tasks'[c] = Idle /\ Idle.pc = "idle"
          /\ \A d \in Callers \ {c} : tasks'[d] = tasks[d]
      BY <1>b, <2>1 DEF End, Idle
    <3>2. ~Pending(Idle) /\ ~Decided(Idle)
      BY <3>1 DEF Pending, Admitted, Decided
    <3>3. \A d \in Callers :
              /\ Pending(tasks'[d]) => Pending(tasks[d]) /\ tasks'[d].id = tasks[d].id
                                       /\ tasks'[d].at = tasks[d].at
              /\ Decided(tasks'[d]) => d # c /\ tasks'[d] = tasks[d]
      BY <3>1, <3>2
    <3> QED
      BY <2>1, <2>3, <3>3, AnswerCall
  <2> QED
    BY <2>1, <2>2, <2>3
<1>24. ASSUME Unlock PROVE AnswerInv'
  <2>1. AnswersKept
    BY <1>0, <1>24 DEF Unlock, AnswersKept, Silent, Faithful, MemorySure, Says, Sure,
                       Answers, Expired
  <2> QED
    BY <1>24, <1>a, <2>1, StutterQuiet, NothingTold DEF Unlock
<1>25. ASSUME Lock \/ Persist PROVE AnswerInv'
  <2>1. AnswersKept
    BY <1>0, <1>25, MemRetells, NoneIsOwn, SaveAnswers DEF Lock, Persist
  <2> QED
    BY <1>25, <1>a, <2>1, StutterQuiet, NothingTold DEF Lock, Persist
<1>26. ASSUME CloseSession PROVE AnswerInv'
  <2>1. AnswersKept
    BY <1>26 DEF CloseSession, SaveFails, AnswersKept, Silent, Faithful, MemorySure,
                 Says, Sure, Answers, Expired
  <2> QED
    BY <1>26, <1>a, <2>1, StutterQuiet, NothingTold DEF CloseSession
<1>27. ASSUME Disconnect \/ Pause \/ Resume \/ UNCHANGED vars PROVE AnswerInv'
  <2>1. UNCHANGED <<journal, now, tasks, effects, told>>
    BY <1>27 DEF Disconnect, Pause, Resume, vars
  <2> QED
    BY <1>0, <1>a, <2>1, StutterAnswers, StutterQuiet, NothingTold
<1>28. ASSUME Crash PROVE AnswerInv'
  <2>1. AnswersKept
    BY <1>28 DEF Crash, AnswersKept, Silent, Faithful, MemorySure, Says, Sure, Answers, Expired
  <2>2. \A c \in Callers : tasks'[c].pc = "idle"
    BY <1>28 DEF Crash, Idle
  <2>3. QuietTasks
    BY <2>2 DEF QuietTasks, Pending, Decided, Admitted
  <2> QED
    BY <1>28, <1>a, <2>1, <2>3, NothingTold DEF Crash
<1>29. ASSUME Tick PROVE AnswerInv'
  <2>1. now \in Nat /\ now' = now + 1 /\ Retention \in Nat /\ Times \subseteq Nat
    BY <1>29, JournalAssumption DEF Tick, TypeInv, TypeOK, Times
  <2>2. \A at \in Times : Expired(at) => Expired(at)'
    BY <2>1 DEF Expired
  <2>3. UNCHANGED <<session, mem, disk, tasks, effects, told>>
    BY <1>29 DEF Tick
  <2>4. AnswersKept
    BY <1>0, <2>2, <2>3 DEF AnswersKept, Silent, Faithful, MemorySure, Says, Sure
  <2> QED
    BY <1>a, <2>3, <2>4, StutterQuiet, NothingTold
<1> QED
  BY <1>1, <1>2, <1>3, <1>4, <1>5, <1>6, <1>7, <1>8, <1>9, <1>11, <1>12, <1>13, <1>14,
     <1>17, <1>18, <1>19, <1>20, <1>21, <1>22, <1>23, <1>24, <1>25, <1>26, <1>27, <1>28,
     <1>29 DEF Next, Arrive, Advance

\* What a client was told stays in the file until it expires, and is true of the
\* protocol call, whatever fails meanwhile, unless an operation outlives its record.
THEOREM AnswersAreDurable == ~OutliveRetention => (Spec => []ToldIsDurable)
<1> SUFFICES ASSUME ~OutliveRetention PROVE Spec => []ToldIsDurable
  OBVIOUS
<1>1. AnswerInv => ToldIsDurable
  BY DEF AnswerInv, ToldSure, Sure, Answers, ToldIsDurable
<1>2. TypeInv /\ OnceInv /\ GateInv /\ [Next]_vars => GateInv'
  BY GateStep
<1> QED
  BY <1>1, <1>2, TypeInit, TypeStep, OnceInit, OnceStep, GateInit, AnswerInit, AnswerStep,
     PTL DEF Spec

\* "applied" is told only after the protocol call of that admission, "rejected"
\* only if there was none and there will be none.
THEOREM AnswersAreTrue == ~OutliveRetention => (Spec => []ToldIsTrue)
<1> SUFFICES ASSUME ~OutliveRetention PROVE Spec => []ToldIsTrue
  OBVIOUS
<1>1. AnswerInv => ToldIsTrue
  BY DEF AnswerInv, ToldTrue, Truthful, Known, ToldIsTrue
<1>2. TypeInv /\ OnceInv /\ GateInv /\ [Next]_vars => GateInv'
  BY GateStep
<1> QED
  BY <1>1, <1>2, TypeInit, TypeStep, OnceInit, OnceStep, GateInit, AnswerInit, AnswerStep,
     PTL DEF Spec

=============================================================================
