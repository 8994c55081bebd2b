-------------------------- MODULE FileTransfersProofs --------------------------
(***************************************************************************)
(* Theorems about FileTransfers for every set of files, any number of      *)
(* retries and pieces, and any number of events: type correctness; what is *)
(* shown as starting is under way; no list takes back what is shown; no    *)
(* superseded command is sent, and nothing after stop().                   *)
(***************************************************************************)
EXTENDS FileTransfers, TLAPS

-----------------------------------------------------------------------------
(* The inductive invariant of the types.                                   *)

Works == [action : Actions \cup {"none"}, attempt : 0..Retries,
          step : {"idle", "command", "delay", "status", "final"}, reply : Replies]
Lists == [asked : BOOLEAN, outdated : BOOLEAN, reply : Replies]
Jobs  == [step : Sent \cup {"none", "list"}, left : 0..Pieces, resume : BOOLEAN,
          reply : Replies]
Modes == {"no", "own", "joined", "again"}

\* A retry that waits or asks for the list may still be sent.
TaskOK(w) ==
    /\ w.step # "idle" => w.action \in Actions
    /\ w.step \in {"delay", "status"} => w.attempt < Retries
    /\ w.step = "idle" <=> w = NoTask

InRefresh(w) == w.step \in {"status", "final"}

\* An action waits only for a task.
FilesOK ==
    /\ running \in [Files -> Works]
    /\ waiting \in [Files -> Actions \cup {"none"}]
    /\ transfers \in [Files -> {"none", "pending", "idle", "error"}]
    /\ awaits \in [Waiters -> Modes]
    /\ \A f \in Files :
          /\ TaskOK(running[f])
          /\ waiting[f] # "none" => running[f] # NoTask
          /\ InRefresh(running[f]) <=> awaits[f] # "no"

\* There is a piece to send, and an answer only to a request.
JobOK ==
    /\ job \in Jobs
    /\ job.step = "piece" => job.left > 0
    /\ job.step \notin Sent => job.reply = Unserved
    /\ job.step = "list" <=> awaits[Job] # "no"

ListOK == list \in Lists /\ (~list.asked => list.reply = Unserved)

ViewOK ==
    /\ server \in [Files -> States] /\ clock \in Nat
    /\ alive \in BOOLEAN /\ shown \in Readings /\ events \in 0..MaxEvents

TypeInv == FilesOK /\ JobOK /\ ListOK /\ ViewOK

-----------------------------------------------------------------------------
(* The operators of the model.                                             *)

LEMMA WaiterSets ==
    /\ Poll \in Waiters /\ Loose \in Waiters /\ Job \in Waiters /\ Files \subseteq Waiters
    /\ \A f \in Files : f # Poll /\ f # Loose /\ f # Job
    /\ Poll # Loose /\ Loose # Job /\ Job # Poll
BY TransferAssumption DEF Waiters

LEMMA ReplyTypes ==
    /\ Blank \in Readings /\ Unserved \in Replies /\ Refused \in Replies
    /\ Unserved.kind = "none" /\ Refused.kind = "refused" /\ Served.kind = "ok"
    /\ ViewOK => Reading \in Readings /\ Served \in Replies /\ Served.files = Reading
<1>1. Blank \in Readings
  BY DEF Blank, Unknown, Readings
<1>2. ViewOK => Reading \in Readings
  BY DEF ViewOK, Reading, Readings
<1> QED
  BY <1>1, <1>2 DEF Unserved, Refused, Served, Replies

LEMMA DefaultTypes ==
    /\ NoTask \in Works /\ TaskOK(NoTask) /\ NoTask.step = "idle" /\ NoTask.attempt = 0
    /\ NoTask.reply = Unserved /\ NoTask.action = "none"
    /\ NoList \in Lists /\ ~NoList.asked /\ NoList.reply = Unserved
    /\ Asked \in Lists /\ Asked.asked /\ Asked.reply = Unserved /\ ~Asked.outdated
    /\ NoJob \in Jobs /\ NoJob.step = "none" /\ NoJob.reply = Unserved
<1>1. /\ NoTask \in Works /\ NoTask.step = "idle" /\ NoTask.attempt = 0
      /\ NoTask.reply = Unserved /\ NoTask.action = "none"
  BY ReplyTypes, TransferAssumption DEF NoTask, Works
<1>2. TaskOK(NoTask)
  BY <1>1 DEF TaskOK
<1>3. NoList \in Lists /\ ~NoList.asked /\ NoList.reply = Unserved
  BY ReplyTypes DEF NoList, Lists
<1>4. Asked \in Lists /\ Asked.asked /\ Asked.reply = Unserved /\ ~Asked.outdated
  BY ReplyTypes DEF Asked, NoList, Lists
<1>5. NoJob \in Jobs /\ NoJob.step = "none" /\ NoJob.reply = Unserved
  BY ReplyTypes, TransferAssumption DEF NoJob, Jobs
<1> QED
  BY <1>1, <1>2, <1>3, <1>4, <1>5

LEMMA StartedTypes ==
    ASSUME NEW action \in Actions
    PROVE  /\ Started(action) \in Works /\ TaskOK(Started(action))
           /\ Started(action).step = "command" /\ Started(action).reply = Unserved
           /\ Started(action).attempt = 0 /\ Started(action).action = action
           /\ Started(action) # NoTask
<1>1. /\ Started(action) \in Works /\ Started(action).step = "command"
      /\ Started(action).reply = Unserved /\ Started(action).attempt = 0
      /\ Started(action).action = action
  BY DefaultTypes DEF Started, Works
<1> QED
  BY <1>1, DefaultTypes DEF TaskOK

\* What becomes of a file's task when it ends.
LEMMA AfterTypes ==
    ASSUME waiting \in [Files -> Actions \cup {"none"}], NEW f \in Files
    PROVE  /\ AfterTask(f) \in Works /\ TaskOK(AfterTask(f)) /\ ~InRefresh(AfterTask(f))
           /\ AfterTask(f).reply = Unserved
           /\ AfterTask(f) = NoTask \/ AfterTask(f).step = "command"
           /\ AfterTask(f) = NoTask <=> ~alive \/ waiting[f] = "none"
BY DefaultTypes, StartedTypes DEF AfterTask, InRefresh

LEMMA MergedTypes ==
    ASSUME shown \in Readings, NEW reply \in Replies, NEW files \in SUBSET Files
    PROVE  Merged(reply, files) \in Readings
BY DEF Merged, Readings, Replies

LEMMA OutdatedTypes ==
    ASSUME ListOK
    PROVE  /\ Outdated \in Lists /\ (~Outdated.asked => Outdated.reply = Unserved)
           /\ Outdated.reply = list.reply /\ Outdated.asked = list.asked
BY DEF ListOK, Lists, Outdated

LEMMA StirredTypes ==
    ASSUME awaits \in [Waiters -> Modes]
    PROVE  /\ Stirred \in [Waiters -> Modes]
           /\ \A w \in Waiters : Stirred[w] # "no" <=> awaits[w] # "no"
BY DEF Stirred, Modes

\* refresh() asks for a list or joins the one under way.
LEMMA RefreshTypes ==
    ASSUME NEW w \in Waiters, NEW l \in Lists, ~l.asked => l.reply = Unserved,
           NEW aw \in [Waiters -> Modes], Refresh(w, l, aw)
    PROVE  /\ ListOK' /\ awaits' \in [Waiters -> Modes]
           /\ list' = l \/ list' = Asked
           /\ \A v \in Waiters : awaits'[v] # "no" <=> v = w \/ aw[v] # "no"
<1>1. ListOK' /\ (list' = l \/ list' = Asked)
  BY DefaultTypes DEF Refresh, ListOK
<1>2. \A v \in Waiters : v # w => awaits'[v] = aw[v]
  BY DEF Refresh
<1>3. awaits'[w] \in Modes \ {"no"} /\ awaits' \in [Waiters -> Modes]
  BY DEF Refresh, Modes
<1> QED
  BY <1>1, <1>2, <1>3

LEMMA SettledTypes ==
    ASSUME transfers \in [Files -> {"none", "pending", "idle", "error"}], NEW f \in Files,
           NEW value \in {"idle", "error"}
    PROVE  /\ Settled(f, value) \in [Files -> {"none", "pending", "idle", "error"}]
           /\ \A g \in Files : g # f => Settled(f, value)[g] = transfers[g]
           /\ Settled(f, value)[f] = IF Current(f) /\ transfers[f] # "none" THEN value
                                     ELSE transfers[f]
BY DEF Settled

-----------------------------------------------------------------------------
(* The tasks of the files, one of which may change in a step.              *)

TransferTypes == [Files -> {"none", "pending", "idle", "error"}]

LEMMA FilesMove ==
    ASSUME FilesOK, NEW f \in Files, NEW w \in Works, TaskOK(w),
           NEW action \in Actions \cup {"none"}, action # "none" => w # NoTask,
           running' = [running EXCEPT ![f] = w], waiting' = [waiting EXCEPT ![f] = action],
           transfers' \in TransferTypes, awaits' \in [Waiters -> Modes],
           \A g \in Files :
               awaits'[g] # "no" <=> IF g = f THEN InRefresh(w) ELSE awaits[g] # "no"
    PROVE  FilesOK'
<1>1. running'[f] = w /\ \A g \in Files \ {f} : running'[g] = running[g]
  BY DEF FilesOK
<1>2. waiting'[f] = action /\ \A g \in Files \ {f} : waiting'[g] = waiting[g]
  BY DEF FilesOK
<1>3. running' \in [Files -> Works] /\ waiting' \in [Files -> Actions \cup {"none"}]
  BY DEF FilesOK
<1> SUFFICES ASSUME NEW g \in Files
             PROVE  /\ TaskOK(running'[g])
                    /\ waiting'[g] # "none" => running'[g] # NoTask
                    /\ InRefresh(running'[g]) <=> awaits'[g] # "no"
  BY <1>3 DEF FilesOK, TransferTypes, TaskOK, InRefresh
<1>4. CASE g = f
  BY <1>1, <1>2, <1>4
<1>5. CASE g # f
  BY <1>1, <1>2, <1>5 DEF FilesOK
<1> QED
  BY <1>4, <1>5

\* Nothing happens to a file but in what its task awaits.
LEMMA FilesStay ==
    ASSUME FilesOK, UNCHANGED <<running, waiting>>, transfers' \in TransferTypes,
           awaits' \in [Waiters -> Modes],
           \A g \in Files : awaits'[g] # "no" <=> awaits[g] # "no"
    PROVE  FilesOK'
BY DEF FilesOK, TransferTypes, TaskOK, InRefresh

\* A task ends, in or out of refresh(), which it leaves.
LEMMA FilesEnd ==
    ASSUME FilesOK, NEW f \in Files, End(f), transfers' \in TransferTypes,
           awaits' \in [Waiters -> Modes], ~InRefresh(running[f]),
           \A g \in Files : awaits'[g] # "no" <=> awaits[g] # "no"
    PROVE  FilesOK'
<1>1. /\ AfterTask(f) \in Works /\ TaskOK(AfterTask(f)) /\ ~InRefresh(AfterTask(f))
  BY AfterTypes DEF FilesOK
<1>2. PICK w \in Works : w = AfterTask(f)
  BY <1>1
<1>3. /\ running' = [running EXCEPT ![f] = w] /\ waiting' = [waiting EXCEPT ![f] = "none"]
      /\ TaskOK(w) /\ ~InRefresh(w)
  BY <1>1, <1>2 DEF End
<1>4. \A g \in Files :
          awaits'[g] # "no" <=> IF g = f THEN InRefresh(w) ELSE awaits[g] # "no"
  BY <1>3 DEF FilesOK
<1> QED
  BY <1>3, <1>4, FilesMove

\* The task of a file that was answered, and one that goes on.
Replied(w, reply) == [w EXCEPT !.reply = reply]
Moved(w, step)    == [w EXCEPT !.step = step, !.reply = Unserved]
Stepped(w, step)  == [w EXCEPT !.step = step]

Steps == {"idle", "command", "delay", "status", "final"}

LEMMA RepliedTypes ==
    ASSUME NEW w \in Works, NEW reply \in Replies
    PROVE  /\ Replied(w, reply) \in Works
           /\ Replied(w, reply).step = w.step /\ Replied(w, reply).reply = reply
           /\ Replied(w, reply).attempt = w.attempt /\ Replied(w, reply).action = w.action
BY DEF Works, Replied

LEMMA MovedTypes ==
    ASSUME NEW w \in Works, NEW step \in Steps
    PROVE  /\ Moved(w, step) \in Works
           /\ Moved(w, step).step = step /\ Moved(w, step).reply = Unserved
           /\ Moved(w, step).attempt = w.attempt /\ Moved(w, step).action = w.action
BY ReplyTypes DEF Works, Moved, Steps

LEMMA SteppedTypes ==
    ASSUME NEW w \in Works, NEW step \in Steps
    PROVE  /\ Stepped(w, step) \in Works
           /\ Stepped(w, step).step = step /\ Stepped(w, step).reply = w.reply
           /\ Stepped(w, step).attempt = w.attempt /\ Stepped(w, step).action = w.action
BY DEF Works, Stepped, Steps

\* The answer of the service to the task of a file.
LEMMA FilesReplied ==
    ASSUME FilesOK, NEW f \in Files, NEW reply \in Replies, running[f].step = "command",
           running' = [running EXCEPT ![f].reply = reply],
           UNCHANGED <<waiting, transfers, awaits>>
    PROVE  FilesOK'
<1>0. running[f] \in Works
  BY DEF FilesOK
<1>1. PICK w \in Works : w = Replied(running[f], reply)
  BY <1>0, RepliedTypes
<1>2. w.step = "command" /\ w.action = running[f].action
  BY <1>0, <1>1, RepliedTypes
<1>3. /\ running' = [running EXCEPT ![f] = w] /\ w.step = "command" /\ w.action \in Actions
  BY <1>1, <1>2 DEF Replied, FilesOK, TaskOK
<1>4. TaskOK(w) /\ ~InRefresh(w) /\ w # NoTask
  BY <1>3, DefaultTypes DEF TaskOK, InRefresh
<1>5. waiting' = [waiting EXCEPT ![f] = waiting[f]] /\ waiting[f] \in Actions \cup {"none"}
  BY DEF FilesOK
<1>6. \A g \in Files :
          awaits'[g] # "no" <=> IF g = f THEN InRefresh(w) ELSE awaits[g] # "no"
  BY <1>4 DEF FilesOK, InRefresh
<1> QED
  BY <1>3, <1>4, <1>5, <1>6, FilesMove DEF FilesOK, TransferTypes

\* A failure retries the command later or ends the task.
LEMMA FilesFailed ==
    ASSUME FilesOK, NEW f \in Files, NEW retryable \in BOOLEAN,
           running[f].step = "command", Failed(f, retryable)
    PROVE  FilesOK'
<1>0. running[f] \in Works /\ ~InRefresh(running[f]) /\ awaits' = awaits
  BY DEF FilesOK, InRefresh, Failed
<1>1. CASE MayRetry(f, retryable)
  <2>1. PICK w \in Works : w = Moved(running[f], "delay")
    BY <1>0, MovedTypes DEF Steps
  <2>2. /\ w.step = "delay" /\ w.attempt = running[f].attempt
        /\ w.action = running[f].action /\ w.action \in Actions
    BY <1>0, <2>1, MovedTypes DEF Steps, FilesOK, TaskOK
  <2>3. running' = [running EXCEPT ![f] = w] /\ waiting' = waiting /\ transfers' = transfers
    BY <1>1, <2>1 DEF Failed, FilesOK, Moved
  <2>4. TaskOK(w) /\ ~InRefresh(w) /\ w # NoTask
    BY <1>1, <2>2, DefaultTypes DEF TaskOK, InRefresh, MayRetry
  <2>5. waiting' = [waiting EXCEPT ![f] = waiting[f]] /\ waiting[f] \in Actions \cup {"none"}
    BY <2>3 DEF FilesOK
  <2>6. \A g \in Files :
            awaits'[g] # "no" <=> IF g = f THEN InRefresh(w) ELSE awaits[g] # "no"
    BY <1>0, <2>4 DEF FilesOK
  <2> QED
    BY <1>0, <2>3, <2>4, <2>5, <2>6, FilesMove DEF FilesOK, TransferTypes
<1>2. CASE ~MayRetry(f, retryable)
  <2>1. End(f) /\ transfers' = Settled(f, "error")
    BY <1>2 DEF Failed
  <2>2. transfers' \in TransferTypes
    BY <2>1, SettledTypes DEF FilesOK, TransferTypes
  <2> QED
    BY <1>0, <2>1, <2>2, FilesEnd DEF FilesOK
<1> QED
  BY <1>1, <1>2

\* What a task does when its refresh() ends, and what that was.
Again(f) == [Started(running[f].action) EXCEPT !.attempt = running[f].attempt + 1]

LEMMA OutcomeCases ==
    ASSUME NEW f \in Files, NEW ok \in BOOLEAN, NEW read
    PROVE  \/ Outcome(f, ok, read) = "end" /\ (~Current(f) \/ running[f].step = "final")
           \/ Outcome(f, ok, read) = "fail" /\ Current(f)
           \/ /\ Outcome(f, ok, read) \in {"break", "retry"}
              /\ Current(f) /\ ok /\ running[f].step # "final"
BY DEF Outcome

LEMMA ResumeOthers ==
    ASSUME NEW returned, NEW ok \in BOOLEAN, NEW read, NEW known,
           Resume(returned, ok, read, known), NEW f \in Files, f \notin returned
    PROVE  running'[f] = running[f] /\ waiting'[f] = waiting[f] /\ transfers'[f] = known[f]
BY DEF Resume

LEMMA ResumeFile ==
    ASSUME NEW returned, NEW ok \in BOOLEAN, NEW read, NEW known,
           Resume(returned, ok, read, known), NEW f \in Files
    PROVE  /\ f \in returned /\ Outcome(f, ok, read) \in {"end", "fail"} =>
                running'[f] = AfterTask(f) /\ waiting'[f] = "none"
           /\ f \in returned /\ Outcome(f, ok, read) = "break" =>
                running'[f] = Stepped(running[f], "final") /\ waiting'[f] = waiting[f]
           /\ f \in returned /\ Outcome(f, ok, read) = "retry" =>
                running'[f] = Again(f) /\ waiting'[f] = waiting[f]
           /\ f \in returned =>
                transfers'[f] = IF known[f] = "none" THEN "none"
                                ELSE IF Outcome(f, ok, read) = "fail" THEN "error"
                                ELSE IF Outcome(f, ok, read) = "break" THEN "idle"
                                ELSE known[f]
<1>1. CASE f \notin returned
  BY <1>1 DEF Resume
<1>2. CASE f \in returned
  <2>1. Outcome(f, ok, read) \in {"end", "fail", "break", "retry"}
    BY OutcomeCases
  <2>2. CASE Outcome(f, ok, read) = "end"
    BY <1>2, <2>2 DEF Resume
  <2>3. CASE Outcome(f, ok, read) = "fail"
    BY <1>2, <2>3 DEF Resume
  <2>4. CASE Outcome(f, ok, read) = "break"
    BY <1>2, <2>4 DEF Resume, Stepped
  <2>5. CASE Outcome(f, ok, read) = "retry"
    BY <1>2, <2>5 DEF Resume, Again
  <2> QED
    BY <2>1, <2>2, <2>3, <2>4, <2>5
<1> QED
  BY <1>1, <1>2

LEMMA AgainTypes ==
    ASSUME FilesOK, NEW f \in Files, running[f].step = "status"
    PROVE  /\ Again(f) \in Works /\ TaskOK(Again(f))
           /\ Again(f).step = "command" /\ Again(f).reply = Unserved
<1>0. /\ running[f] \in Works /\ running[f].attempt \in Nat /\ running[f].attempt < Retries
      /\ running[f].action \in Actions
  BY TransferAssumption DEF FilesOK, TaskOK, Works
<1>1. running[f].attempt + 1 \in 0..Retries
  BY <1>0, TransferAssumption
<1>3. PICK w \in Works : w = Started(running[f].action)
  BY <1>0, StartedTypes
<1>4. w.step = "command" /\ w.reply = Unserved /\ w.action \in Actions
  BY <1>0, <1>3, StartedTypes
<1>5. Again(f) = [w EXCEPT !.attempt = running[f].attempt + 1]
  BY <1>3 DEF Again
<1>6. /\ Again(f) \in Works /\ Again(f).step = "command" /\ Again(f).reply = Unserved
      /\ Again(f).action \in Actions
  BY <1>1, <1>4, <1>5 DEF Works
<1> QED
  BY <1>6, DefaultTypes DEF TaskOK

LEMMA ResumeTypes ==
    ASSUME FilesOK, NEW returned \in SUBSET Files, NEW ok \in BOOLEAN, NEW read,
           NEW known \in TransferTypes, Resume(returned, ok, read, known),
           \A f \in returned : InRefresh(running[f]), awaits' \in [Waiters -> Modes],
           \A f \in Files : awaits'[f] # "no" <=>
               IF f \in returned THEN Outcome(f, ok, read) = "break" ELSE awaits[f] # "no"
    PROVE  FilesOK'
<1>1. \A f \in Files :
          /\ running'[f] \in Works /\ waiting'[f] \in Actions \cup {"none"}
          /\ transfers'[f] \in {"none", "pending", "idle", "error"}
          /\ TaskOK(running'[f])
          /\ waiting'[f] # "none" => running'[f] # NoTask
          /\ InRefresh(running'[f]) <=> awaits'[f] # "no"
  <2> TAKE f \in Files
  <2>0. running[f] \in Works /\ waiting[f] \in Actions \cup {"none"}
        /\ known[f] \in {"none", "pending", "idle", "error"}
    BY DEF FilesOK, TransferTypes
  <2>1. CASE f \notin returned
    <3>1. running'[f] = running[f] /\ waiting'[f] = waiting[f] /\ transfers'[f] = known[f]
      BY <2>1, ResumeOthers
    <3> QED
      BY <2>0, <2>1, <3>1 DEF FilesOK
  <2>2. ASSUME f \in returned PROVE transfers'[f] \in {"none", "pending", "idle", "error"}
    BY <2>0, <2>2, ResumeFile
  <2>3. CASE f \in returned /\ Outcome(f, ok, read) \in {"end", "fail"}
    <3>1. running'[f] = AfterTask(f) /\ waiting'[f] = "none"
      BY <2>3, ResumeFile
    <3> QED
      BY <2>2, <2>3, <3>1, AfterTypes DEF FilesOK
  <2>4. CASE f \in returned /\ Outcome(f, ok, read) = "break"
    <3>1. running'[f] = Stepped(running[f], "final") /\ waiting'[f] = waiting[f]
      BY <2>4, ResumeFile
    <3>2. /\ running'[f] \in Works /\ running'[f].step = "final"
          /\ running'[f].action \in Actions
      <4>1. running[f].action \in Actions
        BY <2>4, DefaultTypes DEF FilesOK, TaskOK, InRefresh
      <4> QED
        BY <2>0, <3>1, <4>1, SteppedTypes DEF Steps
    <3>3. TaskOK(running'[f]) /\ InRefresh(running'[f]) /\ running'[f] # NoTask
      BY <3>2, DefaultTypes DEF TaskOK, InRefresh
    <3> QED
      BY <2>0, <2>2, <2>4, <3>1, <3>2, <3>3
  <2>5. CASE f \in returned /\ Outcome(f, ok, read) = "retry"
    <3>1. running'[f] = Again(f) /\ waiting'[f] = waiting[f]
      BY <2>5, ResumeFile
    <3>2. running[f].step = "status"
      BY <2>5, OutcomeCases DEF InRefresh
    <3>3. /\ running'[f] \in Works /\ TaskOK(running'[f]) /\ running'[f].step = "command"
      BY <3>1, <3>2, AgainTypes
    <3>4. ~InRefresh(running'[f]) /\ running'[f] # NoTask
      BY <3>3, DefaultTypes DEF InRefresh
    <3> QED
      BY <2>0, <2>2, <2>5, <3>1, <3>3, <3>4
  <2> QED
    BY <2>1, <2>3, <2>4, <2>5, OutcomeCases
<1>2. /\ running' = [f \in Files |-> running'[f]] /\ waiting' = [f \in Files |-> waiting'[f]]
      /\ transfers' = [f \in Files |-> transfers'[f]]
  BY DEF Resume
<1>3. /\ running' \in [Files -> Works] /\ waiting' \in [Files -> Actions \cup {"none"}]
      /\ transfers' \in TransferTypes
  BY <1>1, <1>2 DEF TransferTypes
<1> QED
  BY <1>1, <1>3 DEF FilesOK, TransferTypes, TaskOK, InRefresh

\* The list is answered: those who join the next one call refresh() again.
LEMMA AnsweredFiles ==
    ASSUME TypeInv, ListAnswered
    PROVE  FilesOK' /\ ListOK' /\ shown' \in Readings /\ JobOK'
<1> DEFINE read     == IF list.outdated THEN shown ELSE list.reply.files
           known    == IF list.outdated THEN transfers ELSE Known(read)
           returned == {w \in Waiters : awaits[w] \in {"own", "joined"}}
           back     == returned \cap Files
           callers  == {w \in Waiters : awaits[w] = "again"}
                          \cup {f \in back : Outcome(f, TRUE, read) = "break"}
<1>1. /\ shown' = read /\ Resume(back, TRUE, read, known)
      /\ job' = IF Job \in returned THEN NoJob ELSE job
      /\ \/ callers = {} /\ list' = NoList /\ awaits' = [w \in Waiters |-> "no"]
         \/ \E owner \in callers :
               /\ list' = Asked
               /\ awaits' = [w \in Waiters |-> IF w = owner THEN "own"
                                ELSE IF w \in callers THEN "joined" ELSE "no"]
  BY DEF ListAnswered
<1>2. awaits' \in [Waiters -> Modes] /\ \A w \in Waiters : awaits'[w] # "no" <=> w \in callers
  BY <1>1 DEF Modes
<1>3. read \in Readings
  BY DEF TypeInv, ListOK, ViewOK, Lists, Replies
<1>4. known \in TransferTypes
  BY DEF TypeInv, FilesOK, Known, TransferTypes
<1>5. ListOK'
  BY <1>1, DefaultTypes DEF ListOK
<1>6. JobOK'
  <2>1. \A w \in Waiters : awaits[w] \in Modes
    BY DEF TypeInv, FilesOK
  <2>2. Job \in callers <=> awaits[Job] = "again"
    BY WaiterSets
  <2>3. CASE Job \in returned
    BY <1>1, <1>2, <2>2, <2>3, DefaultTypes, WaiterSets DEF JobOK, Sent
  <2>4. CASE Job \notin returned
    <3>1. job' = job /\ (awaits'[Job] # "no" <=> awaits[Job] # "no")
      BY <1>1, <1>2, <2>1, <2>2, <2>4, WaiterSets DEF Modes
    <3> QED
      BY <3>1 DEF TypeInv, JobOK
  <2> QED
    BY <2>3, <2>4
<1>7. ASSUME NEW f \in Files
      PROVE  /\ f \in back => InRefresh(running[f]) /\ awaits[f] # "again"
             /\ f \notin back => awaits[f] \in {"no", "again"}
  <2>1. f \in back <=> awaits[f] = "own" \/ awaits[f] = "joined"
    BY WaiterSets
  <2> HIDE DEF back
  <2>2. /\ awaits[f] = "no" \/ awaits[f] = "own" \/ awaits[f] = "joined" \/ awaits[f] = "again"
        /\ awaits[f] # "no" => InRefresh(running[f])
    BY WaiterSets DEF TypeInv, FilesOK, Modes
  <2> QED
    BY <2>1, <2>2
<1>8. \A f \in Files : awaits'[f] # "no" <=>
          IF f \in back THEN Outcome(f, TRUE, read) = "break" ELSE awaits[f] # "no"
  <2> TAKE f \in Files
  <2>1. f \in callers <=> awaits[f] = "again" \/ (f \in back /\ Outcome(f, TRUE, read) = "break")
    BY WaiterSets
  <2> QED
    BY <1>2, <1>7, <2>1, WaiterSets
<1>9. FilesOK'
  <2> HIDE DEF read, known, back, callers, returned
  <2>1. back \in SUBSET Files
    BY DEF back
  <2> QED
    BY <1>1, <1>2, <1>4, <1>7, <1>8, <2>1, ResumeTypes DEF TypeInv
<1> QED
  BY <1>1, <1>3, <1>5, <1>6, <1>9

LEMMA ThrownFiles ==
    ASSUME TypeInv, ListThrows
    PROVE  FilesOK' /\ ListOK' /\ JobOK'
<1> DEFINE back == {f \in Files : awaits[f] # "no"}
<1>1. /\ Resume(back, FALSE, shown, transfers) /\ list' = NoList /\ awaits' = Released
      /\ job' = IF awaits[Job] = "no" THEN job ELSE NoJob
  BY DEF ListThrows
<1>2. awaits' \in [Waiters -> Modes] /\ \A w \in Waiters : awaits'[w] = "no"
  BY <1>1 DEF Released, Modes
<1>3. \A f \in Files : Outcome(f, FALSE, shown) # "break"
  BY DEF Outcome
<1>4. /\ \A f \in back : InRefresh(running[f])
      /\ \A f \in Files : awaits'[f] # "no" <=>
             IF f \in back THEN Outcome(f, FALSE, shown) = "break" ELSE awaits[f] # "no"
  BY <1>2, <1>3, WaiterSets DEF TypeInv, FilesOK
<1>5. FilesOK'
  <2> HIDE DEF back
  <2>1. back \in SUBSET Files /\ transfers \in TransferTypes
    BY DEF back, TypeInv, FilesOK, TransferTypes
  <2> QED
    BY <1>1, <1>2, <1>4, <2>1, ResumeTypes DEF TypeInv
<1>6. ListOK'
  BY <1>1, DefaultTypes DEF ListOK
<1>7. JobOK'
  BY <1>1, <1>2, DefaultTypes, WaiterSets DEF TypeInv, JobOK, Sent
<1> QED
  BY <1>5, <1>6, <1>7

\* What a step does not touch.
LEMMA JobStays ==
    ASSUME JobOK, UNCHANGED job, awaits'[Job] # "no" <=> awaits[Job] # "no"
    PROVE  JobOK'
BY DEF JobOK

\* The upload ends or goes on; a list is asked for or not.
LEMMA JobMoves ==
    ASSUME JobOK, job.step \in Sent, job' \in Jobs, job'.step = "piece" => job'.left > 0,
           job'.step \notin Sent => job'.reply = Unserved, job'.step # "list",
           awaits'[Job] # "no" <=> awaits[Job] # "no"
    PROVE  JobOK'
BY DEF JobOK, Sent

LEMMA EndUploadTypes ==
    ASSUME NEW l \in Lists, ~l.asked => l.reply = Unserved,
           NEW aw \in [Waiters -> Modes], EndUpload(l, aw)
    PROVE  /\ ListOK' /\ awaits' \in [Waiters -> Modes] /\ job' = NoJob
           /\ list' = l \/ list' = Asked
           /\ \A w \in Waiters \ {Loose} : awaits'[w] # "no" <=> aw[w] # "no"
BY RefreshTypes, WaiterSets DEF EndUpload, ListOK

LEMMA TypeInit == Init => TypeInv
<1> SUFFICES ASSUME Init PROVE TypeInv
  OBVIOUS
<1>1. FilesOK
  <2>1. awaits \in [Waiters -> Modes] /\ \A f \in Files : awaits[f] = "no"
    BY WaiterSets DEF Init, Modes
  <2> QED
    BY <2>1, DefaultTypes DEF Init, FilesOK, InRefresh
<1>2. JobOK
  BY DefaultTypes, WaiterSets DEF Init, JobOK, Sent
<1>3. ListOK
  BY DefaultTypes DEF Init, ListOK
<1>4. ViewOK
  BY ReplyTypes, TransferAssumption DEF Init, ViewOK, States
<1> QED
  BY <1>1, <1>2, <1>3, <1>4 DEF TypeInv

LEMMA TypeStep == TypeInv /\ [Next]_vars => TypeInv'
<1> SUFFICES ASSUME TypeInv, [Next]_vars PROVE TypeInv'
  OBVIOUS
<1> USE DEF service, tasks
<1>0. /\ awaits \in [Waiters -> Modes] /\ transfers \in TransferTypes
      /\ FilesOK /\ JobOK /\ ListOK /\ ViewOK
      /\ list \in Lists /\ (~list.asked => list.reply = Unserved)
  BY DEF TypeInv, FilesOK, TransferTypes, ListOK
<1>1. ASSUME UNCHANGED <<list>> PROVE ListOK'
  BY <1>0, <1>1 DEF ListOK
<1>2. ASSUME Happens PROVE events' \in 0..MaxEvents
  BY <1>0, <1>2, TransferAssumption DEF Happens, ViewOK
<1>3. ASSUME NEW f \in Files, NEW action \in Actions, Act(f, action) PROVE TypeInv'
  <2>1. transfers' \in TransferTypes
    BY <1>0, <1>3 DEF Act, TransferTypes
  <2>2. CASE running[f] = NoTask
    <3>1. PICK w \in Works : w = Started(action)
      BY StartedTypes
    <3>2. TaskOK(w) /\ ~InRefresh(w) /\ w # NoTask
      BY <3>1, StartedTypes DEF InRefresh
    <3>3. /\ running' = [running EXCEPT ![f] = w]
          /\ waiting' = [waiting EXCEPT ![f] = waiting[f]] /\ waiting[f] \in Actions \cup {"none"}
      BY <1>0, <1>3, <2>2, <3>1 DEF Act, FilesOK
    <3>4. \A g \in Files :
              awaits'[g] # "no" <=> IF g = f THEN InRefresh(w) ELSE awaits[g] # "no"
      BY <1>0, <1>3, <2>2, <3>2, DefaultTypes DEF Act, FilesOK, InRefresh
    <3>5. FilesOK'
      BY <1>0, <1>3, <2>1, <3>2, <3>3, <3>4, FilesMove DEF Act
    <3> QED
      BY <1>0, <1>1, <1>2, <1>3, <3>5, JobStays DEF Act, TypeInv, ViewOK
  <2>3. CASE running[f] # NoTask
    <3>1. /\ running' = [running EXCEPT ![f] = running[f]]
          /\ waiting' = [waiting EXCEPT ![f] = action]
          /\ running[f] \in Works /\ TaskOK(running[f]) /\ action \in Actions \cup {"none"}
      BY <1>0, <1>3, <2>3 DEF Act, FilesOK
    <3>2. \A g \in Files :
              awaits'[g] # "no" <=> IF g = f THEN InRefresh(running[f]) ELSE awaits[g] # "no"
      BY <1>0, <1>3 DEF Act, FilesOK
    <3>3. FilesOK'
      BY <1>0, <1>3, <2>1, <2>3, <3>1, <3>2, FilesMove DEF Act
    <3> QED
      BY <1>0, <1>1, <1>2, <1>3, <3>3, JobStays DEF Act, TypeInv, ViewOK
  <2> QED
    BY <2>2, <2>3
<1>4. ASSUME NEW step \in {"prepare", "configure", "save"}, NEW resume \in BOOLEAN,
             StartJob(step, resume)
      PROVE  TypeInv'
  <2>1. FilesOK'
    BY <1>0, <1>4, FilesStay DEF StartJob
  <2>2. job' \in Jobs /\ job'.step = step /\ job'.reply = Unserved
    BY <1>4, DefaultTypes DEF StartJob, Jobs, Sent
  <2>3. awaits[Job] = "no" /\ awaits' = awaits
    BY <1>0, <1>4 DEF StartJob, Busy, JobOK
  <2>4. JobOK'
    BY <2>2, <2>3 DEF JobOK, Sent
  <2> QED
    BY <1>0, <1>1, <1>2, <1>4, <2>1, <2>4 DEF StartJob, TypeInv, ViewOK
<1>5. ASSUME NEW w \in {Loose, Poll}, Refresh(w, list, awaits),
             UNCHANGED <<service, alive, shown, transfers, tasks, job>>,
             events' \in 0..MaxEvents
      PROVE  TypeInv'
  <2>1. w \in Waiters /\ w \notin Files /\ w # Job
    BY WaiterSets
  <2>2. ListOK' /\ awaits' \in [Waiters -> Modes]
        /\ \A v \in Waiters : awaits'[v] # "no" <=> v = w \/ awaits[v] # "no"
    BY <1>0, <1>5, <2>1, RefreshTypes
  <2>3. FilesOK'
    BY <1>0, <1>5, <2>1, <2>2, FilesStay, WaiterSets
  <2>4. JobOK'
    BY <1>0, <1>5, <2>1, <2>2, JobStays, WaiterSets
  <2> QED
    BY <1>0, <1>5, <2>2, <2>3, <2>4 DEF TypeInv, ViewOK
<1>6. ASSUME Focus \/ PollFires PROVE TypeInv'
  BY <1>0, <1>2, <1>5, <1>6 DEF Focus, PollFires, ViewOK
<1>7. ASSUME Stop PROVE TypeInv'
  <2>1. transfers' \in TransferTypes
    BY <1>7 DEF Stop, TransferTypes
  <2>2. FilesOK'
    BY <1>0, <1>7, <2>1, FilesStay DEF Stop
  <2> QED
    BY <1>0, <1>1, <1>2, <1>7, <2>2, JobStays, ReplyTypes DEF Stop, TypeInv, ViewOK
<1>8. ASSUME NEW f \in Files, NEW state \in States, Becomes(f, state)
      PROVE  server' \in [Files -> States] /\ clock' \in Nat
  BY <1>0, <1>8 DEF Becomes, ViewOK
<1>9. \A action \in Actions : Effect(action) \in States
  BY DEF Actions, Effect, States
<1>10. ASSUME NEW f \in Files, Elsewhere(f) PROVE TypeInv'
  <2>1. FilesOK'
    BY <1>0, <1>10, FilesStay DEF Elsewhere
  <2>2. server' \in [Files -> States] /\ clock' \in Nat
    BY <1>8, <1>9, <1>10 DEF Elsewhere, States
  <2> QED
    BY <1>0, <1>1, <1>2, <1>10, <2>1, <2>2, JobStays DEF Elsewhere, TypeInv, ViewOK
<1>11. ASSUME NEW f \in Files, ServeCommand(f) PROVE TypeInv'
  <2>1. ViewOK'
    <3>2. CASE UNCHANGED service
      BY <1>0, <1>11, <3>2 DEF ServeCommand, ViewOK
    <3>3. CASE Takes(server[f], running[f].action) /\ Becomes(f, Effect(running[f].action))
      <4>1. Effect(running[f].action) \in States
        BY <1>0, <1>9, <1>11 DEF ServeCommand, FilesOK, TaskOK
      <4> QED
        BY <1>0, <1>8, <1>11, <3>3, <4>1 DEF ServeCommand, ViewOK
    <3> QED
      BY <1>11, <3>2, <3>3 DEF ServeCommand
  <2>2. Served \in Replies /\ Served' \in Replies
    BY <1>0, <2>1, ReplyTypes DEF Served, Reading, Replies, Readings, ViewOK
  <2>3. PICK reply \in Replies : running' = [running EXCEPT ![f].reply = reply]
    BY <1>11, <2>2, ReplyTypes DEF ServeCommand
  <2>4. FilesOK'
    BY <1>0, <1>11, <2>3, FilesReplied DEF ServeCommand
  <2> QED
    BY <1>0, <1>1, <1>11, <2>1, <2>4, JobStays DEF ServeCommand, TypeInv
<1>12. ASSUME ServeList PROVE TypeInv'
  <2>1. FilesOK'
    BY <1>0, <1>12, FilesStay DEF ServeList
  <2>2. ListOK'
    BY <1>0, <1>12, ReplyTypes DEF ServeList, ListOK, Lists
  <2> QED
    BY <1>0, <1>12, <2>1, <2>2, JobStays DEF ServeList, TypeInv, ViewOK
<1>13. ASSUME ServeJob PROVE TypeInv'
  <2>1. FilesOK'
    BY <1>0, <1>13, FilesStay DEF ServeJob
  <2>2. /\ job' \in Jobs /\ job'.step = job.step /\ job'.left = job.left
        /\ job.step \in Sent /\ awaits' = awaits
    BY <1>0, <1>13, ReplyTypes DEF ServeJob, JobOK, Jobs
  <2>3. JobOK'
    BY <1>0, <2>2, JobMoves DEF JobOK, Sent
  <2> QED
    BY <1>0, <1>1, <1>13, <2>1, <2>3 DEF ServeJob, TypeInv, ViewOK
<1>14. ASSUME NEW f \in Files, CommandAnswered(f) PROVE TypeInv'
  <2>1. PICK files \in {{f}, Files} : shown' = Merged(running[f].reply, files)
    BY <1>14 DEF CommandAnswered
  <2>2. running[f] \in Works /\ running[f].step = "command" /\ running[f].action \in Actions
    BY <1>0, <1>14 DEF CommandAnswered, FilesOK, TaskOK
  <2>3. shown' \in Readings
    BY <1>0, <2>1, <2>2, MergedTypes DEF Works, ViewOK
  <2>4. transfers' \in TransferTypes
    BY <1>0, <1>14, SettledTypes DEF CommandAnswered, TransferTypes
  <2>5. CASE Current(f)
    <3>1. PICK w \in Works : w = Moved(running[f], "final")
      BY <2>2, MovedTypes DEF Steps
    <3>2. w.step = "final" /\ w.action \in Actions
      BY <2>2, <3>1, MovedTypes DEF Steps
    <3>3. TaskOK(w) /\ InRefresh(w) /\ w # NoTask
      BY <3>2, DefaultTypes DEF TaskOK, InRefresh
    <3>4. /\ running' = [running EXCEPT ![f] = w] /\ waiting' = waiting
          /\ Refresh(f, Outdated, Stirred)
      BY <1>14, <2>5, <3>1 DEF CommandAnswered, Moved
    <3>5. waiting' = [waiting EXCEPT ![f] = waiting[f]] /\ waiting[f] \in Actions \cup {"none"}
      BY <1>0, <3>4 DEF FilesOK
    <3>6. /\ ListOK' /\ awaits' \in [Waiters -> Modes]
          /\ \A v \in Waiters : awaits'[v] # "no" <=> v = f \/ awaits[v] # "no"
      BY <1>0, <3>4, RefreshTypes, OutdatedTypes, StirredTypes, WaiterSets
    <3>7. \A g \in Files :
              awaits'[g] # "no" <=> IF g = f THEN InRefresh(w) ELSE awaits[g] # "no"
      BY <3>3, <3>6, WaiterSets
    <3>8. FilesOK'
      BY <1>0, <2>4, <3>3, <3>4, <3>5, <3>6, <3>7, FilesMove
    <3>9. JobOK'
      BY <1>0, <1>14, <3>6, JobStays, WaiterSets DEF CommandAnswered
    <3> QED
      BY <1>0, <1>14, <2>3, <3>6, <3>8, <3>9 DEF CommandAnswered, TypeInv, ViewOK
  <2>6. CASE ~Current(f)
    <3>1. End(f) /\ list' = Outdated /\ awaits' = Stirred
      BY <1>14, <2>6 DEF CommandAnswered
    <3>2. ListOK'
      BY <1>0, <3>1, OutdatedTypes DEF ListOK
    <3>3. FilesOK'
      BY <1>0, <2>2, <2>4, <3>1, StirredTypes, FilesEnd, WaiterSets DEF InRefresh
    <3>4. JobOK'
      BY <1>0, <1>14, <3>1, StirredTypes, JobStays, WaiterSets DEF CommandAnswered
    <3> QED
      BY <1>0, <1>14, <2>3, <3>2, <3>3, <3>4 DEF CommandAnswered, TypeInv, ViewOK
  <2> QED
    BY <2>5, <2>6
<1>15. ASSUME NEW f \in Files, CommandRefused(f) \/ CommandLost(f) PROVE TypeInv'
  <2>1. PICK retryable \in BOOLEAN : Failed(f, retryable)
    BY <1>15 DEF CommandRefused, CommandLost
  <2>2. FilesOK'
    BY <1>0, <1>15, <2>1, FilesFailed DEF CommandRefused, CommandLost
  <2>3. UNCHANGED <<service, alive, shown, list, awaits, job>>
    BY <2>1 DEF Failed
  <2>4. events' \in 0..MaxEvents
    BY <1>0, <1>2, <1>15 DEF CommandRefused, CommandLost, ViewOK
  <2> QED
    BY <1>0, <1>1, <2>2, <2>3, <2>4, JobStays DEF TypeInv, ViewOK
<1>16. ASSUME NEW f \in Files, DelayEnds(f) PROVE TypeInv'
  <2>1. /\ running[f] \in Works /\ running[f].step = "delay" /\ ~InRefresh(running[f])
        /\ running[f].action \in Actions /\ running[f].attempt < Retries
        /\ transfers' \in TransferTypes
    BY <1>0, <1>16 DEF DelayEnds, FilesOK, TaskOK, InRefresh
  <2>2. CASE Current(f)
    <3>1. PICK w \in Works : w = Stepped(running[f], "status")
      BY <2>1, SteppedTypes DEF Steps
    <3>2. w.step = "status" /\ w.action \in Actions /\ w.attempt < Retries
      BY <2>1, <3>1, SteppedTypes DEF Steps
    <3>3. TaskOK(w) /\ InRefresh(w) /\ w # NoTask
      BY <3>2, DefaultTypes DEF TaskOK, InRefresh
    <3>4. /\ running' = [running EXCEPT ![f] = w] /\ waiting' = waiting
          /\ Refresh(f, list, awaits)
      BY <1>16, <2>2, <3>1 DEF DelayEnds, Stepped
    <3>5. waiting' = [waiting EXCEPT ![f] = waiting[f]] /\ waiting[f] \in Actions \cup {"none"}
      BY <1>0, <3>4 DEF FilesOK
    <3>6. /\ ListOK' /\ awaits' \in [Waiters -> Modes]
          /\ \A v \in Waiters : awaits'[v] # "no" <=> v = f \/ awaits[v] # "no"
      BY <1>0, <3>4, RefreshTypes, WaiterSets
    <3>7. \A g \in Files :
              awaits'[g] # "no" <=> IF g = f THEN InRefresh(w) ELSE awaits[g] # "no"
      BY <3>3, <3>6, WaiterSets
    <3>8. FilesOK'
      BY <1>0, <2>1, <3>3, <3>4, <3>5, <3>6, <3>7, FilesMove
    <3>9. JobOK'
      BY <1>0, <1>16, <3>6, JobStays, WaiterSets DEF DelayEnds
    <3> QED
      BY <1>0, <1>16, <3>6, <3>8, <3>9 DEF DelayEnds, TypeInv, ViewOK
  <2>3. CASE ~Current(f)
    <3>1. End(f) /\ UNCHANGED <<list, awaits>>
      BY <1>16, <2>3 DEF DelayEnds
    <3>2. FilesOK'
      BY <1>0, <2>1, <3>1, FilesEnd
    <3> QED
      BY <1>0, <1>1, <1>16, <3>1, <3>2, JobStays DEF DelayEnds, TypeInv, ViewOK
  <2> QED
    BY <2>2, <2>3
<1>17. ASSUME ListAnswered PROVE TypeInv'
  BY <1>0, <1>17, AnsweredFiles DEF ListAnswered, TypeInv, ViewOK
<1>18. ASSUME ListLost \/ ListTooLate PROVE TypeInv'
  <2>1. ListThrows /\ events' \in 0..MaxEvents
    BY <1>0, <1>2, <1>18 DEF ListLost, ListTooLate, ViewOK
  <2> QED
    BY <1>0, <2>1, ThrownFiles DEF ListThrows, TypeInv, ViewOK
<1>19. ASSUME JobAnswered PROVE TypeInv'
  <2>1. PICK files \in {{}, Files} : shown' = Merged(job.reply, files)
    BY <1>19 DEF JobAnswered
  <2>2. /\ job \in Jobs /\ job.step \in Sent /\ job.step # "list" /\ awaits[Job] = "no"
        /\ UNCHANGED <<service, alive, transfers, tasks, events>>
    BY <1>0, <1>19 DEF JobAnswered, JobOK, Sent
  <2>3. shown' \in Readings
    BY <1>0, <2>1, <2>2, MergedTypes DEF Jobs, ViewOK
  <2>4. ViewOK'
    BY <1>0, <2>2, <2>3 DEF ViewOK
  <2>5. /\ Outdated \in Lists /\ (~Outdated.asked => Outdated.reply = Unserved)
        /\ Stirred \in [Waiters -> Modes]
        /\ \A w \in Waiters : Stirred[w] # "no" <=> awaits[w] # "no"
    BY <1>0, OutdatedTypes, StirredTypes
  <2>6. ASSUME EndUpload(Outdated, Stirred) PROVE TypeInv'
    <3>1. /\ ListOK' /\ awaits' \in [Waiters -> Modes] /\ job' = NoJob
          /\ \A w \in Waiters \ {Loose} : awaits'[w] # "no" <=> awaits[w] # "no"
      BY <2>5, <2>6, EndUploadTypes
    <3>2. FilesOK'
      BY <1>0, <2>2, <3>1, FilesStay, WaiterSets
    <3>3. awaits'[Job] # "no" <=> awaits[Job] # "no"
      BY <3>1, WaiterSets
    <3>4. JobOK'
      BY <2>2, <3>1, <3>3, DefaultTypes DEF JobOK, Sent
    <3> QED
      BY <2>4, <3>1, <3>2, <3>4 DEF TypeInv
  <2>7. ASSUME NEW step \in {"commit", "piece"}, NEW left \in 0..Pieces,
               step = "piece" => left > 0, Goes(step, left)
        PROVE  TypeInv'
    <3>1. /\ job' \in Jobs /\ job'.step = step /\ job'.left = left /\ job'.reply = Unserved
          /\ list' = Outdated /\ awaits' = Stirred
      BY <2>2, <2>7, ReplyTypes DEF Goes, Jobs, Sent
    <3>2. FilesOK'
      BY <1>0, <2>2, <2>5, <3>1, FilesStay, WaiterSets
    <3>3. JobOK'
      BY <1>0, <2>2, <2>5, <2>7, <3>1, JobMoves, WaiterSets
    <3> QED
      BY <2>4, <2>5, <3>1, <3>2, <3>3 DEF TypeInv, ListOK
  <2>8. ASSUME Configured PROVE TypeInv'
    <3>1. /\ job' \in Jobs /\ job'.step = "list" /\ job'.reply = Unserved
          /\ Refresh(Job, Outdated, Stirred)
      BY <2>2, <2>8, ReplyTypes DEF Configured, Jobs, Sent
    <3>2. /\ ListOK' /\ awaits' \in [Waiters -> Modes]
          /\ \A v \in Waiters : awaits'[v] # "no" <=> v = Job \/ awaits[v] # "no"
      BY <2>5, <3>1, RefreshTypes, WaiterSets
    <3>3. FilesOK'
      BY <1>0, <2>2, <3>2, FilesStay, WaiterSets
    <3>4. JobOK'
      BY <3>1, <3>2, WaiterSets DEF JobOK
    <3> QED
      BY <2>4, <3>2, <3>3, <3>4 DEF TypeInv
  <2>9. CASE Prepared
    BY <2>6, <2>7, <2>9, TransferAssumption DEF Prepared
  <2>10. CASE Committed
    BY <2>6, <2>10 DEF Committed
  <2> QED
    BY <1>19, <2>8, <2>9, <2>10 DEF JobAnswered
<1>20. ASSUME PieceTaken PROVE TypeInv'
  <2>1. FilesOK'
    BY <1>0, <1>20, FilesStay DEF PieceTaken
  <2>2. /\ job \in Jobs /\ job.step = "piece" /\ job.left \in Nat /\ job.left > 0
        /\ job.left <= Pieces /\ job.left - 1 \in 0..Pieces
    BY <1>0, <1>20, TransferAssumption DEF PieceTaken, JobOK, Jobs
  <2>3. /\ job' \in Jobs /\ job'.left = job.left - 1
        /\ job'.step = IF job.left = 1 THEN "commit" ELSE "piece"
        /\ awaits' = awaits
    BY <1>20, <2>2, ReplyTypes DEF PieceTaken, Jobs, Sent
  <2>4. JobOK'
    BY <1>0, <2>2, <2>3, JobMoves DEF Sent
  <2> QED
    BY <1>0, <1>1, <1>20, <2>1, <2>4 DEF PieceTaken, TypeInv, ViewOK
<1>21. ASSUME Saved PROVE TypeInv'
  <2>1. FilesOK'
    BY <1>0, <1>21, FilesStay DEF Saved
  <2>2. JobOK'
    BY <1>0, <1>21, JobMoves, DefaultTypes DEF Saved, Sent
  <2> QED
    BY <1>0, <1>1, <1>21, <2>1, <2>2 DEF Saved, TypeInv, ViewOK
<1>22. ASSUME JobLost \/ JobTooLate PROVE TypeInv'
  <2>1. /\ JobThrows /\ job.step \in Sent /\ events' \in 0..MaxEvents
        /\ UNCHANGED <<service, alive, shown, transfers, tasks>>
    BY <1>0, <1>2, <1>22, ReplyTypes DEF JobLost, JobTooLate, JobThrows, JobOK, ViewOK
  <2>2. ViewOK'
    BY <1>0, <2>1 DEF ViewOK
  <2>3. CASE job.step \in {"configure", "save"}
    <3>1. job' = NoJob /\ UNCHANGED <<list, awaits>>
      BY <2>1, <2>3 DEF JobThrows
    <3>2. FilesOK'
      BY <1>0, <2>1, <3>1, FilesStay
    <3>3. JobOK'
      BY <1>0, <2>1, <3>1, JobMoves, DefaultTypes DEF Sent
    <3> QED
      BY <1>1, <2>2, <3>1, <3>2, <3>3 DEF TypeInv
  <2>4. CASE job.step \notin {"configure", "save"}
    <3>1. EndUpload(list, awaits)
      BY <2>1, <2>4 DEF JobThrows
    <3>2. /\ ListOK' /\ awaits' \in [Waiters -> Modes] /\ job' = NoJob
          /\ \A w \in Waiters \ {Loose} : awaits'[w] # "no" <=> awaits[w] # "no"
      BY <1>0, <3>1, EndUploadTypes
    <3>3. FilesOK'
      BY <1>0, <2>1, <3>2, FilesStay, WaiterSets
    <3>4. awaits'[Job] # "no" <=> awaits[Job] # "no"
      BY <3>2, WaiterSets
    <3>5. JobOK'
      BY <1>0, <2>1, <3>2, <3>4, DefaultTypes DEF JobOK, Sent
    <3> QED
      BY <2>2, <3>2, <3>3, <3>5 DEF TypeInv
  <2> QED
    BY <2>3, <2>4
<1>23. CASE UNCHANGED vars
  BY <1>0, <1>1, <1>23, FilesStay, JobStays DEF vars, TypeInv, ViewOK
<1>24. CASE (\E resume \in BOOLEAN : Upload(resume)) \/ Configure \/ Save
  BY <1>4, <1>24 DEF Upload, Configure, Save
<1> QED
  BY <1>3, <1>6, <1>7, <1>10, <1>11, <1>12, <1>13, <1>14, <1>15, <1>16, <1>17, <1>18,
     <1>19, <1>20, <1>21, <1>22, <1>23, <1>24 DEF Next

\* The shape of the service, the view and its requests; a command is sent again at
\* most Retries times, and a task is in refresh() exactly when it says so.
THEOREM TypeCorrect == Spec => []TypeOK
<1>1. TypeInv => TypeOK
  BY DEF TypeInv, FilesOK, JobOK, ListOK, ViewOK, TypeOK, Works, Lists, Jobs, Modes, InRefresh
<1> QED
  BY <1>1, TypeInit, TypeStep, PTL DEF Spec

-----------------------------------------------------------------------------
(* What is shown as starting: the property itself is inductive beside the  *)
(* types, one file at a time.                                              *)

Starting(f) == running[f] # NoTask /\ (waiting[f] # "none" \/ running[f].step # "final")
Pends(f)     == transfers[f] = "pending" <=> Starting(f)

\* A file nothing happens to.
LEMMA PendStays ==
    ASSUME NEW f \in Files, Pends(f), running'[f] = running[f], waiting'[f] = waiting[f],
           transfers'[f] = transfers[f]
    PROVE  Pends(f)'
BY DEF Pends, Starting

\* A task that is answered, delayed or asks for the list is still under way.
LEMMA PendGoes ==
    ASSUME FilesOK, FilesOK', NEW f \in Files, Pends(f), running[f].step # "final",
           running[f] # NoTask, running'[f].step \notin {"idle", "final"},
           transfers'[f] = transfers[f]
    PROVE  Pends(f)'
<1>1. running'[f] # NoTask
  BY DefaultTypes
<1> QED
  BY <1>1 DEF Pends, Starting

\* A task ends: the newest action is settled, or goes on in its place.
LEMMA PendEnds ==
    ASSUME FilesOK, alive, NEW f \in Files, Starting(f), Pends(f), End(f),
           NEW value \in {"idle", "error"}, transfers' = Settled(f, value)
    PROVE  Pends(f)'
<1>0. transfers[f] = "pending"
  BY DEF Pends
<1>1. running'[f] = AfterTask(f) /\ waiting'[f] = "none"
  BY DEF End, FilesOK
<1>2. transfers'[f] = IF Current(f) THEN value ELSE "pending"
  BY <1>0, SettledTypes DEF FilesOK
<1>3. CASE Current(f)
  BY <1>1, <1>2, <1>3, AfterTypes DEF Current, Pends, Starting, FilesOK
<1>4. CASE ~Current(f)
  <2>1. AfterTask(f) # NoTask /\ AfterTask(f).step = "command"
    BY <1>4, AfterTypes DEF Current, FilesOK
  <2> QED
    BY <1>1, <1>2, <1>4, <2>1 DEF Pends, Starting
<1> QED
  BY <1>3, <1>4

LEMMA PendFailed ==
    ASSUME FilesOK, FilesOK', alive, NEW f \in Files, Pends(f), NEW retryable \in BOOLEAN,
           running[f].step = "command", Failed(f, retryable)
    PROVE  Pends(f)'
<1>0. running[f] # NoTask /\ running[f] \in Works
  BY DefaultTypes DEF FilesOK
<1>1. CASE MayRetry(f, retryable)
  <2>1. running'[f] = Moved(running[f], "delay") /\ transfers'[f] = transfers[f]
    BY <1>1 DEF Failed, Moved, FilesOK
  <2>2. running'[f].step = "delay"
    BY <1>0, <2>1, MovedTypes DEF Steps
  <2> QED
    BY <1>0, <2>1, <2>2, PendGoes
<1>2. CASE ~MayRetry(f, retryable)
  BY <1>0, <1>2, PendEnds DEF Failed, Starting
<1> QED
  BY <1>1, <1>2

\* One who awaited the list goes on.
LEMMA PendResumes ==
    ASSUME FilesOK, alive, NEW returned \in SUBSET Files, NEW ok \in BOOLEAN, NEW read,
           NEW known, Resume(returned, ok, read, known), NEW f \in Files, Pends(f),
           known[f] = transfers[f] \/ (transfers[f] = "none" /\ known[f] = "idle"),
           f \in returned => InRefresh(running[f])
    PROVE  Pends(f)'
<1>1. CASE f \notin returned
  BY <1>1, ResumeOthers DEF Pends, Starting
<1>2. ASSUME f \in returned
      PROVE  running[f] # NoTask /\ (Starting(f) => known[f] = "pending")
  BY <1>2, DefaultTypes DEF InRefresh, Pends
<1>3. CASE f \in returned /\ Outcome(f, ok, read) \in {"end", "fail"} /\ Current(f)
  <2>1. /\ running'[f] = NoTask
        /\ transfers'[f] = IF known[f] = "none" THEN "none"
                           ELSE IF Outcome(f, ok, read) = "fail" THEN "error" ELSE known[f]
    BY <1>3, ResumeFile, AfterTypes DEF Current, FilesOK
  <2>2. Outcome(f, ok, read) = "fail" \/ ~Starting(f)
    BY <1>3, OutcomeCases DEF Starting, Current
  <2> QED
    BY <2>1, <2>2 DEF Pends, Starting
<1>4. CASE f \in returned /\ Outcome(f, ok, read) \in {"end", "fail"} /\ ~Current(f)
  <2>1. waiting[f] # "none" /\ Outcome(f, ok, read) = "end"
    BY <1>4, OutcomeCases DEF Current
  <2>2. known[f] = "pending" /\ transfers'[f] = "pending"
    BY <1>2, <1>4, <2>1, ResumeFile DEF Starting
  <2>3. running'[f] # NoTask /\ running'[f].step = "command"
    BY <1>4, <2>1, ResumeFile, AfterTypes DEF FilesOK
  <2> QED
    BY <2>2, <2>3 DEF Pends, Starting
<1>5. CASE f \in returned /\ Outcome(f, ok, read) = "break"
  <2>1. Current(f) /\ running[f].step = "status" /\ known[f] = "pending"
    BY <1>2, <1>5, OutcomeCases DEF InRefresh, Starting
  <2>2. /\ running'[f] = Stepped(running[f], "final") /\ waiting'[f] = "none"
        /\ transfers'[f] = "idle"
    BY <1>5, <2>1, ResumeFile DEF Current
  <2>3. running'[f].step = "final"
    BY <2>2, SteppedTypes DEF FilesOK, Steps
  <2> QED
    BY <2>2, <2>3 DEF Pends, Starting
<1>6. CASE f \in returned /\ Outcome(f, ok, read) = "retry"
  <2>1. running[f].step = "status" /\ known[f] = "pending"
    BY <1>2, <1>6, OutcomeCases DEF InRefresh, Starting
  <2>2. running'[f].step = "command" /\ transfers'[f] = "pending"
    BY <1>6, <2>1, ResumeFile, AgainTypes
  <2> QED
    BY <2>2, DefaultTypes DEF Pends, Starting
<1> QED
  BY <1>1, <1>3, <1>4, <1>5, <1>6, OutcomeCases

LEMMA PendStep == TypeInv /\ TypeInv' /\ PendingIsUnderway /\ [Next]_vars => PendingIsUnderway'
<1> SUFFICES ASSUME FilesOK, FilesOK', TypeInv, PendingIsUnderway, [Next]_vars,
                    alive', NEW f \in Files
             PROVE  Pends(f)'
  BY DEF TypeInv, PendingIsUnderway, Pends, Starting
<1> USE DEF service, tasks
<1>0. ASSUME alive PROVE \A g \in Files : Pends(g)
  BY <1>0 DEF PendingIsUnderway, Pends, Starting
<1>1. ASSUME NEW g \in Files, NEW action \in Actions, Act(g, action) PROVE Pends(f)'
  <2>1. alive
    BY <1>1 DEF Act
  <2>2. CASE f # g
    BY <1>0, <1>1, <2>1, <2>2, PendStays DEF Act, FilesOK
  <2>3. CASE f = g
    <3>1. transfers'[f] = "pending"
      BY <1>1, <2>3 DEF Act, FilesOK
    <3>2. CASE running[f] = NoTask
      <4>1. running'[f] = Started(action)
        BY <1>1, <2>3, <3>2 DEF Act, FilesOK
      <4> QED
        BY <3>1, <4>1, StartedTypes DEF Pends, Starting
    <3>3. CASE running[f] # NoTask
      <4>1. running'[f] = running[f] /\ waiting'[f] # "none"
        BY <1>1, <2>3, <3>3 DEF Act, FilesOK, Actions
      <4> QED
        BY <3>1, <3>3, <4>1 DEF Pends, Starting
    <3> QED
      BY <3>2, <3>3
  <2> QED
    BY <2>2, <2>3
<1>2. ASSUME UNCHANGED <<running, waiting, transfers, alive>> PROVE Pends(f)'
  BY <1>0, <1>2, PendStays
<1>3. ASSUME NEW g \in Files, ServeCommand(g) PROVE Pends(f)'
  <2>1. /\ running[g].step = "command" /\ running[g] \in Works /\ alive
        /\ UNCHANGED <<waiting, transfers>>
    BY <1>3 DEF ServeCommand, FilesOK
  <2>2. PICK reply : running' = [running EXCEPT ![g].reply = reply]
    BY <1>3 DEF ServeCommand
  <2>3. CASE f # g
    BY <1>0, <2>1, <2>2, <2>3, PendStays DEF FilesOK
  <2>4. CASE f = g
    <3>1. running'[f].step = "command"
      BY <2>1, <2>2, <2>4 DEF FilesOK, Works
    <3> QED
      BY <1>0, <2>1, <2>4, <3>1, PendGoes, DefaultTypes
  <2> QED
    BY <2>3, <2>4
<1>4. ASSUME NEW g \in Files, CommandAnswered(g) PROVE Pends(f)'
  <2>1. /\ alive /\ transfers' = Settled(g, "idle") /\ running[g].step = "command"
        /\ running[g] # NoTask /\ running[g] \in Works
    BY <1>4, DefaultTypes DEF CommandAnswered, FilesOK
  <2>2. CASE f # g
    <3>1. running'[f] = running[f] /\ waiting'[f] = waiting[f] /\ transfers'[f] = transfers[f]
      BY <1>4, <2>1, <2>2, SettledTypes DEF CommandAnswered, End, FilesOK
    <3> QED
      BY <1>0, <2>1, <3>1, PendStays
  <2>3. CASE f = g /\ Current(g)
    <3>1. running'[f] = Moved(running[f], "final") /\ waiting'[f] = "none"
      BY <1>4, <2>3 DEF CommandAnswered, Current, Moved, FilesOK
    <3>2. transfers[f] = "pending" /\ transfers'[f] = "idle"
      BY <1>0, <2>1, <2>3, SettledTypes DEF Pends, Starting, FilesOK
    <3>3. running'[f].step = "final"
      BY <2>1, <2>3, <3>1, MovedTypes DEF Steps
    <3> QED
      BY <3>1, <3>2, <3>3 DEF Pends, Starting
  <2>4. CASE f = g /\ ~Current(g)
    BY <1>0, <1>4, <2>1, <2>4, PendEnds DEF CommandAnswered, Starting
  <2> QED
    BY <2>2, <2>3, <2>4
<1>5. ASSUME NEW g \in Files, CommandRefused(g) \/ CommandLost(g) PROVE Pends(f)'
  <2>1. PICK retryable \in BOOLEAN : Failed(g, retryable)
    BY <1>5 DEF CommandRefused, CommandLost
  <2>2. running[g].step = "command" /\ alive
    BY <1>5, <2>1 DEF CommandRefused, CommandLost, Failed
  <2>3. CASE f # g
    <3>1. running'[f] = running[f] /\ waiting'[f] = waiting[f] /\ transfers'[f] = transfers[f]
      BY <2>1, <2>3, SettledTypes DEF Failed, End, FilesOK
    <3> QED
      BY <1>0, <2>2, <3>1, PendStays
  <2>4. CASE f = g
    BY <1>0, <2>1, <2>2, <2>4, PendFailed
  <2> QED
    BY <2>3, <2>4
<1>6. ASSUME NEW g \in Files, DelayEnds(g) PROVE Pends(f)'
  <2>1. /\ running[g].step = "delay" /\ running[g] # NoTask /\ running[g] \in Works
        /\ alive /\ transfers' = transfers
    BY <1>6, DefaultTypes DEF DelayEnds, FilesOK
  <2>2. CASE f # g
    <3>1. running'[f] = running[f] /\ waiting'[f] = waiting[f]
      BY <1>6, <2>2 DEF DelayEnds, End, FilesOK
    <3> QED
      BY <1>0, <2>1, <3>1, PendStays
  <2>3. CASE f = g /\ Current(g)
    <3>1. running'[f] = Stepped(running[f], "status")
      BY <1>6, <2>3 DEF DelayEnds, Stepped, FilesOK
    <3>2. running'[f].step = "status"
      BY <2>1, <2>3, <3>1, SteppedTypes DEF Steps
    <3> QED
      BY <1>0, <2>1, <2>3, <3>2, PendGoes
  <2>4. CASE f = g /\ ~Current(g)
    <3>1. transfers' = Settled(g, "idle")
      BY <2>1, <2>4 DEF Settled, FilesOK
    <3> QED
      BY <1>0, <1>6, <2>1, <2>4, <3>1, PendEnds DEF DelayEnds, Starting
  <2> QED
    BY <2>2, <2>3, <2>4
<1>7. ASSUME ListAnswered PROVE Pends(f)'
  <2> DEFINE read     == IF list.outdated THEN shown ELSE list.reply.files
             known    == IF list.outdated THEN transfers ELSE Known(read)
             returned == {w \in Waiters : awaits[w] \in {"own", "joined"}} \cap Files
  <2>1. Resume(returned, TRUE, read, known) /\ alive
    BY <1>7 DEF ListAnswered
  <2>2. known[f] = transfers[f] \/ (transfers[f] = "none" /\ known[f] = "idle")
    BY DEF Known
  <2>3. f \in returned => InRefresh(running[f])
    BY DEF FilesOK
  <2>4. returned \in SUBSET Files
    OBVIOUS
  <2> HIDE DEF read, known, returned
  <2> QED
    BY <1>0, <2>1, <2>2, <2>3, <2>4, PendResumes
<1>8. ASSUME ListLost \/ ListTooLate PROVE Pends(f)'
  <2> DEFINE returned == {g \in Files : awaits[g] # "no"}
  <2>1. Resume(returned, FALSE, shown, transfers) /\ alive
    BY <1>8 DEF ListLost, ListTooLate, ListThrows
  <2>2. f \in returned => InRefresh(running[f])
    BY DEF FilesOK
  <2>3. returned \in SUBSET Files
    OBVIOUS
  <2> HIDE DEF returned
  <2> QED
    BY <1>0, <2>1, <2>2, <2>3, PendResumes
<1>9. ASSUME (\E resume \in BOOLEAN : Upload(resume)) \/ Configure \/ Save
      PROVE  Pends(f)'
  <2>1. ASSUME NEW step, NEW resume, StartJob(step, resume)
        PROVE  UNCHANGED <<running, waiting, transfers, alive>>
    BY <2>1 DEF StartJob
  <2> QED
    BY <1>2, <1>9, <2>1 DEF Upload, Configure, Save
<1>12. ASSUME Focus \/ PollFires \/ ServeList \/ ServeJob PROVE Pends(f)'
  BY <1>2, <1>12 DEF Focus, PollFires, ServeList, ServeJob
<1>13. ASSUME JobAnswered \/ PieceTaken \/ Saved \/ JobLost \/ JobTooLate PROVE Pends(f)'
  BY <1>2, <1>13 DEF JobAnswered, PieceTaken, Saved, JobLost, JobTooLate, JobThrows
<1>14. ASSUME NEW g \in Files, Elsewhere(g) PROVE Pends(f)'
  BY <1>2, <1>14 DEF Elsewhere
<1>10. CASE UNCHANGED vars
  BY <1>2, <1>10 DEF vars
<1>11. CASE Stop
  BY <1>11 DEF Stop
<1> QED
  BY <1>1, <1>2, <1>3, <1>4, <1>5, <1>6, <1>7, <1>8, <1>9, <1>10, <1>11, <1>12, <1>13, <1>14
  DEF Next

\* A transfer is shown as starting exactly while the newest action on its file has
\* not been answered, whatever supersedes, fails or retries (act() with its action
\* numbers, and the test "shows transfer initiation immediately").
THEOREM StartingIsUnderway == Spec => []PendingIsUnderway
<1>1. Init => PendingIsUnderway
  <2> SUFFICES ASSUME Init, alive, NEW f \in Files PROVE Pends(f)
    BY ZenonT(30) DEF PendingIsUnderway, Pends, Starting
  <2>1. running = [g \in Files |-> NoTask] /\ transfers = [g \in Files |-> "none"]
    BY DEF Init
  <2>2. running[f] = NoTask /\ transfers[f] = "none"
    BY <2>1
  <2> QED
    BY <2>2 DEF Pends, Starting
<1> QED
  BY <1>1, TypeInit, TypeStep, PendStep, PTL DEF Spec

-----------------------------------------------------------------------------
(* What is shown and what is under way was read in the past; with it, that *)
(* a list under way and not outdated is newer than what is shown is        *)
(* inductive.                                                              *)

Before(files, t) == \A f \in Files : files[f].at <= t

ReadBefore ==
    /\ Before(shown, clock) /\ Before(list.reply.files, clock)
    /\ Before(job.reply.files, clock)
    /\ \A f \in Files : Before(running[f].reply.files, clock)

LEMMA AnswersBefore ==
    ASSUME ViewOK
    PROVE  /\ Before(Blank, clock) /\ Before(Unserved.files, clock)
           /\ Before(Refused.files, clock) /\ Before(Served.files, clock)
<1>1. Before(Blank, clock)
  BY DEF Before, Blank, Unknown, ViewOK
<1>2. Before(Reading, clock)
  BY DEF Before, Reading, ViewOK
<1> QED
  BY <1>1, <1>2 DEF Unserved, Refused, Served

LEMMA StillBefore ==
    ASSUME NEW files \in Readings, NEW s \in Nat, NEW t \in Nat, s <= t, Before(files, s)
    PROVE  Before(files, t)
<1> SUFFICES ASSUME NEW f \in Files PROVE files[f].at <= t
  BY Zenon DEF Before
<1>1. files[f].at \in Nat /\ files[f].at <= s
  BY DEF Readings, Before
<1> QED
  BY <1>1

LEMMA MergedBefore ==
    ASSUME NEW reply \in Replies, NEW files \in SUBSET Files, Before(shown, clock),
           Before(reply.files, clock)
    PROVE  Before(Merged(reply, files), clock)
<1> SUFFICES ASSUME NEW f \in Files PROVE Merged(reply, files)[f].at <= clock
  BY Zenon DEF Before
<1>1. shown[f].at <= clock /\ reply.files[f].at <= clock
  BY DEF Before
<1>2. Merged(reply, files)[f] \in {shown[f], reply.files[f]}
  BY DEF Merged
<1> QED
  BY <1>1, <1>2

\* A task's request has the answer it had, none, or the one of this step.
LEMMA ResumeReplies ==
    ASSUME FilesOK, NEW returned \in SUBSET Files, NEW ok \in BOOLEAN, NEW read, NEW known,
           Resume(returned, ok, read, known), \A g \in returned : InRefresh(running[g]),
           NEW f \in Files
    PROVE  running'[f].reply \in {running[f].reply, Unserved}
<1>1. CASE f \notin returned
  BY <1>1, ResumeOthers
<1>2. CASE f \in returned /\ Outcome(f, ok, read) \in {"end", "fail"}
  BY <1>2, ResumeFile, AfterTypes DEF FilesOK
<1>3. CASE f \in returned /\ Outcome(f, ok, read) = "break"
  BY <1>3, ResumeFile, SteppedTypes DEF FilesOK, Steps
<1>4. CASE f \in returned /\ Outcome(f, ok, read) = "retry"
  <2>1. running[f].step = "status"
    BY <1>4, OutcomeCases DEF InRefresh
  <2> QED
    BY <1>4, <2>1, ResumeFile, AgainTypes
<1> QED
  BY <1>1, <1>2, <1>3, <1>4, OutcomeCases

\* A task that ends, in any of the actions of its file.
LEMMA EndReplies ==
    ASSUME FilesOK, NEW g \in Files, End(g), NEW f \in Files
    PROVE  running'[f].reply \in {running[f].reply, Unserved}
BY AfterTypes DEF End, FilesOK

LEMMA TaskReplies ==
    ASSUME TypeInv, [Next]_vars, NEW f \in Files
    PROVE  running'[f].reply \in {running[f].reply, Unserved, Refused, Served, Served'}
<1> USE DEF service, tasks
<1>0. FilesOK
  BY DEF TypeInv
<1>1. ASSUME NEW g \in Files, NEW action \in Actions, Act(g, action)
      PROVE  running'[f].reply \in {running[f].reply, Unserved}
  BY <1>0, <1>1, StartedTypes DEF Act, FilesOK
<1>2. ASSUME UNCHANGED running PROVE running'[f].reply = running[f].reply
  BY <1>2
<1>3. ASSUME NEW g \in Files, ServeCommand(g)
      PROVE  running'[f].reply \in {running[f].reply, Refused, Served, Served'}
  <2>1. PICK reply \in {Refused, Served, Served'} : running' = [running EXCEPT ![g].reply = reply]
    BY <1>3 DEF ServeCommand
  <2>2. running[g] \in Works
    BY <1>0 DEF FilesOK
  <2>3. running'[f] = IF f = g THEN Replied(running[g], reply) ELSE running[f]
    BY <1>0, <2>1 DEF FilesOK, Replied
  <2>4. Replied(running[g], reply).reply = reply
    BY <2>2 DEF Replied, Works
  <2> QED
    BY <2>1, <2>3, <2>4
<1>4. ASSUME NEW g \in Files, CommandAnswered(g)
      PROVE  running'[f].reply \in {running[f].reply, Unserved}
  <2>1. CASE Current(g)
    <3>1. running' = [running EXCEPT ![g].step = "final", ![g].reply = Unserved]
      BY <1>4, <2>1 DEF CommandAnswered
    <3> QED
      BY <1>0, <3>1 DEF FilesOK, Works
  <2>2. CASE ~Current(g)
    BY <1>0, <1>4, <2>2, EndReplies DEF CommandAnswered
  <2> QED
    BY <2>1, <2>2
<1>5. ASSUME NEW g \in Files, CommandRefused(g) \/ CommandLost(g)
      PROVE  running'[f].reply \in {running[f].reply, Unserved}
  <2>1. PICK retryable \in BOOLEAN : Failed(g, retryable)
    BY <1>5 DEF CommandRefused, CommandLost
  <2>2. CASE MayRetry(g, retryable)
    <3>1. running' = [running EXCEPT ![g].step = "delay", ![g].reply = Unserved]
      BY <2>1, <2>2 DEF Failed
    <3> QED
      BY <1>0, <3>1 DEF FilesOK, Works
  <2>3. CASE ~MayRetry(g, retryable)
    BY <1>0, <2>1, <2>3, EndReplies DEF Failed
  <2> QED
    BY <2>2, <2>3
<1>6. ASSUME NEW g \in Files, DelayEnds(g)
      PROVE  running'[f].reply \in {running[f].reply, Unserved}
  <2>1. CASE Current(g)
    BY <1>0, <1>6, <2>1 DEF DelayEnds, FilesOK, Works
  <2>2. CASE ~Current(g)
    BY <1>0, <1>6, <2>2, EndReplies DEF DelayEnds
  <2> QED
    BY <2>1, <2>2
<1>7. ASSUME ListAnswered PROVE running'[f].reply \in {running[f].reply, Unserved}
  <2> DEFINE read     == IF list.outdated THEN shown ELSE list.reply.files
             known    == IF list.outdated THEN transfers ELSE Known(read)
             returned == {w \in Waiters : awaits[w] \in {"own", "joined"}} \cap Files
  <2>1. Resume(returned, TRUE, read, known)
    BY <1>7 DEF ListAnswered
  <2>2. \A g \in returned : InRefresh(running[g])
    BY <1>0 DEF FilesOK
  <2>3. returned \in SUBSET Files
    OBVIOUS
  <2> HIDE DEF read, known, returned
  <2> QED
    BY <1>0, <2>1, <2>2, <2>3, ResumeReplies
<1>8. ASSUME ListLost \/ ListTooLate PROVE running'[f].reply \in {running[f].reply, Unserved}
  <2> DEFINE returned == {g \in Files : awaits[g] # "no"}
  <2>1. Resume(returned, FALSE, shown, transfers)
    BY <1>8 DEF ListLost, ListTooLate, ListThrows
  <2>2. \A g \in returned : InRefresh(running[g])
    BY <1>0 DEF FilesOK
  <2>3. returned \in SUBSET Files
    OBVIOUS
  <2> HIDE DEF returned
  <2> QED
    BY <1>0, <2>1, <2>2, <2>3, ResumeReplies
<1>9. ASSUME (\E resume \in BOOLEAN : Upload(resume)) \/ Configure \/ Save
      PROVE  UNCHANGED running
  <2>1. ASSUME NEW step, NEW resume, StartJob(step, resume)
        PROVE  UNCHANGED running
    BY <2>1 DEF StartJob
  <2> QED
    BY <1>9, <2>1 DEF Upload, Configure, Save
<1>10. ASSUME Focus \/ PollFires \/ ServeList \/ ServeJob \/ Stop PROVE UNCHANGED running
  BY <1>10 DEF Focus, PollFires, ServeList, ServeJob, Stop
<1>11. ASSUME JobAnswered \/ PieceTaken \/ Saved \/ JobLost \/ JobTooLate
       PROVE  UNCHANGED running
  BY <1>11 DEF JobAnswered, PieceTaken, Saved, JobLost, JobTooLate, JobThrows
<1>12. ASSUME NEW g \in Files, Elsewhere(g) PROVE UNCHANGED running
  BY <1>12 DEF Elsewhere
<1>13. CASE UNCHANGED vars
  BY <1>2, <1>13 DEF vars
<1> HIDE DEF service, tasks
<1> QED
  BY <1>1, <1>2, <1>3, <1>4, <1>5, <1>6, <1>7, <1>8, <1>9, <1>10, <1>11, <1>12, <1>13 DEF Next

\* What a step does to the list, to the job's answer and to what is shown.
LEMMA ListReplies ==
    ASSUME TypeInv, [Next]_vars
    PROVE  /\ list'.reply \in {list.reply, Unserved, Served}
           /\ job'.reply \in {job.reply, Unserved, Served}
           /\ \/ shown' \in {shown, Blank, list.reply.files}
              \/ \E reply \in Replies, files \in SUBSET Files :
                    /\ reply = job.reply \/ \E g \in Files : reply = running[g].reply
                    /\ shown' = Merged(reply, files)
<1> DEFINE Lst == list'.reply \in {list.reply, Unserved, Served}
           Jb  == job'.reply \in {job.reply, Unserved, Served}
           Shw == \/ shown' \in {shown, Blank, list.reply.files}
                  \/ \E reply \in Replies, files \in SUBSET Files :
                        /\ reply = job.reply \/ \E g \in Files : reply = running[g].reply
                        /\ shown' = Merged(reply, files)
<1> USE DEF service, tasks
<1>0. FilesOK /\ JobOK /\ ListOK /\ list \in Lists /\ job \in Jobs
  BY DEF TypeInv, JobOK, ListOK
<1>1. ASSUME NEW w, NEW l, NEW aw, Refresh(w, l, aw), l.reply = list.reply
      PROVE  Lst
  BY <1>1, DefaultTypes DEF Refresh
<1>2. Outdated.reply = list.reply
  BY <1>0, OutdatedTypes
<1>3. ASSUME UNCHANGED <<list, job, shown>> PROVE Lst /\ Jb /\ Shw
  BY <1>3
<1>4. ASSUME NEW g \in Files, NEW action \in Actions, Act(g, action)
      PROVE  Lst /\ Jb /\ Shw
  BY <1>3, <1>4 DEF Act
<1>5. ASSUME NEW step, NEW resume, StartJob(step, resume)
      PROVE  Lst /\ Jb /\ Shw
  BY <1>5, DefaultTypes DEF StartJob
<1>6. ASSUME Focus \/ PollFires PROVE Lst /\ Jb /\ Shw
  BY <1>1, <1>6 DEF Focus, PollFires
<1>7. ASSUME Stop \/ ServeList \/ ServeJob PROVE Lst /\ Jb /\ Shw
  BY <1>0, <1>7 DEF Stop, ServeList, ServeJob, Lists, Jobs
<1>8. ASSUME NEW g \in Files, Elsewhere(g) \/ ServeCommand(g)
      PROVE  Lst /\ Jb /\ Shw
  BY <1>3, <1>8 DEF Elsewhere, ServeCommand
<1>9. ASSUME NEW g \in Files, CommandAnswered(g) PROVE Lst /\ Jb /\ Shw
  <2>1. PICK files \in {{g}, Files} : shown' = Merged(running[g].reply, files)
    BY <1>9 DEF CommandAnswered
  <2>2. running[g].reply \in Replies /\ files \in SUBSET Files
    BY <1>0 DEF FilesOK, Works
  <2>3. Shw
    BY <2>1, <2>2
  <2>4. Lst
    BY <1>1, <1>2, <1>9 DEF CommandAnswered
  <2> QED
    BY <1>9, <2>3, <2>4 DEF CommandAnswered
<1>10. ASSUME NEW g \in Files, CommandRefused(g) \/ CommandLost(g)
       PROVE  Lst /\ Jb /\ Shw
  BY <1>3, <1>10 DEF CommandRefused, CommandLost, Failed
<1>11. ASSUME NEW g \in Files, DelayEnds(g) PROVE Lst /\ Jb /\ Shw
  BY <1>1, <1>11 DEF DelayEnds
<1>12. ASSUME ListAnswered PROVE Lst /\ Jb /\ Shw
  <2>1. shown' \in {shown, list.reply.files}
    BY <1>12 DEF ListAnswered
  <2>2. list' = NoList \/ list' = Asked
    BY <1>12 DEF ListAnswered
  <2>3. job' = NoJob \/ job' = job
    BY <1>12 DEF ListAnswered
  <2> QED
    BY <2>1, <2>2, <2>3, DefaultTypes
<1>13. ASSUME ListLost \/ ListTooLate PROVE Lst /\ Jb /\ Shw
  BY <1>13, DefaultTypes DEF ListLost, ListTooLate, ListThrows
<1>14. ASSUME JobAnswered PROVE Lst /\ Jb /\ Shw
  <2>1. PICK files \in {{}, Files} : shown' = Merged(job.reply, files)
    BY <1>14 DEF JobAnswered
  <2>2. job.reply \in Replies /\ files \in SUBSET Files
    BY <1>0 DEF Jobs
  <2>3. Shw
    BY <2>1, <2>2
  <2>4. ASSUME EndUpload(Outdated, Stirred) PROVE Lst /\ Jb
    BY <1>1, <1>2, <2>4, DefaultTypes DEF EndUpload
  <2>5. ASSUME NEW step, NEW left, Goes(step, left) PROVE Lst /\ Jb
    BY <1>0, <1>2, <2>5 DEF Goes, Jobs
  <2>6. ASSUME Configured PROVE Lst /\ Jb
    BY <1>0, <1>1, <1>2, <2>6 DEF Configured, Jobs
  <2> QED
    BY <1>14, <2>3, <2>4, <2>5, <2>6 DEF JobAnswered, Prepared, Committed
<1>15. ASSUME PieceTaken \/ Saved PROVE Lst /\ Jb /\ Shw
  BY <1>0, <1>15, DefaultTypes DEF PieceTaken, Saved, Jobs
<1>16. ASSUME JobLost \/ JobTooLate PROVE Lst /\ Jb /\ Shw
  <2>1. JobThrows
    BY <1>16 DEF JobLost, JobTooLate
  <2>2. CASE job.step \in {"configure", "save"}
    BY <2>1, <2>2, DefaultTypes DEF JobThrows
  <2>3. CASE job.step \notin {"configure", "save"}
    BY <1>1, <2>1, <2>3, DefaultTypes DEF JobThrows, EndUpload
  <2> QED
    BY <2>2, <2>3
<1>17. ASSUME UNCHANGED vars PROVE Lst /\ Jb /\ Shw
  BY <1>3, <1>17 DEF vars
<1>18. ASSUME (\E resume \in BOOLEAN : Upload(resume)) \/ Configure \/ Save
       PROVE  Lst /\ Jb /\ Shw
  <2> HIDE DEF Lst, Jb, Shw
  <2> QED
    BY <1>5, <1>18 DEF Upload, Configure, Save
<1>19. Lst /\ Jb /\ Shw
  <2> HIDE DEF Lst, Jb, Shw, service, tasks
  <2> QED
    BY <1>4, <1>6, <1>7, <1>8, <1>9, <1>10, <1>11, <1>12, <1>13, <1>14, <1>15, <1>16,
       <1>17, <1>18 DEF Next
<1> QED
  BY <1>19

LEMMA ClockGrows ==
    ASSUME TypeInv, [Next]_vars
    PROVE  clock' = clock \/ clock' = clock + 1
<1> DEFINE Grows == clock' = clock \/ clock' = clock + 1
<1> USE DEF service
<1>1. ASSUME NEW f \in Files, Elsewhere(f) \/ ServeCommand(f) PROVE Grows
  BY <1>1 DEF Elsewhere, ServeCommand, Becomes
<1>2. ASSUME NEW f \in Files, NEW action \in Actions, Act(f, action) PROVE Grows
  BY <1>2 DEF Act
<1>3. ASSUME NEW step, NEW resume, StartJob(step, resume) PROVE Grows
  BY <1>3 DEF StartJob
<1>4. ASSUME NEW f \in Files, CommandAnswered(f) \/ CommandRefused(f) \/ CommandLost(f)
      PROVE  Grows
  BY <1>4 DEF CommandAnswered, CommandRefused, CommandLost, Failed
<1>5. ASSUME NEW f \in Files, DelayEnds(f) PROVE Grows
  BY <1>5 DEF DelayEnds
<1>6. ASSUME Focus \/ PollFires \/ Stop \/ ServeList \/ ServeJob PROVE Grows
  BY <1>6 DEF Focus, PollFires, Stop, ServeList, ServeJob
<1>7. ASSUME ListAnswered PROVE Grows
  BY <1>7 DEF ListAnswered
<1>8. ASSUME ListLost \/ ListTooLate PROVE Grows
  BY <1>8 DEF ListLost, ListTooLate, ListThrows
<1>9. ASSUME JobAnswered \/ PieceTaken \/ Saved \/ JobLost \/ JobTooLate PROVE Grows
  BY <1>9 DEF JobAnswered, PieceTaken, Saved, JobLost, JobTooLate, JobThrows
<1>10. ASSUME UNCHANGED vars PROVE Grows
  BY <1>10 DEF vars
<1> HIDE DEF service, Grows
<1>11. Grows
  BY <1>1, <1>2, <1>3, <1>4, <1>5, <1>6, <1>7, <1>8, <1>9, <1>10
  DEF Next, Upload, Configure, Save
<1> QED
  BY <1>11 DEF Grows

LEMMA ReadStep == TypeInv /\ TypeInv' /\ ReadBefore /\ [Next]_vars => ReadBefore'
<1> SUFFICES ASSUME TypeInv, TypeInv', ReadBefore, [Next]_vars PROVE ReadBefore'
  OBVIOUS
<1>0. ViewOK /\ ViewOK' /\ clock \in Nat /\ clock' \in Nat /\ clock <= clock'
  <2>1. clock \in Nat
    BY DEF TypeInv, ViewOK
  <2> QED
    BY <2>1, ClockGrows DEF TypeInv, ViewOK
<1>1. /\ shown \in Readings /\ list.reply \in Replies /\ job.reply \in Replies
      /\ \A f \in Files : running[f].reply \in Replies
  BY DEF TypeInv, ViewOK, ListOK, JobOK, FilesOK, Lists, Jobs, Works
<1>2. ASSUME NEW files \in Readings, Before(files, clock) PROVE Before(files, clock')
  BY <1>0, <1>2, StillBefore
<1>3. ASSUME NEW reply \in Replies, Before(reply.files, clock) PROVE Before(reply.files, clock')
  BY <1>2, <1>3 DEF Replies
<1>4. /\ Before(Unserved.files, clock') /\ Before(Refused.files, clock')
      /\ Before(Served.files, clock') /\ Before(Blank, clock')
  BY <1>0, <1>2, <1>3, AnswersBefore, ReplyTypes
<1>5. Before((Served').files, clock')
  BY <1>0 DEF Served, Reading, Before, ViewOK
<1>6. /\ Before(list.reply.files, clock') /\ Before(job.reply.files, clock')
      /\ Before(shown, clock')
  BY <1>1, <1>2, <1>3 DEF ReadBefore
<1>7. Before(list'.reply.files, clock') /\ Before(job'.reply.files, clock')
  BY <1>4, <1>6, ListReplies
<1>8. ASSUME NEW f \in Files PROVE Before(running'[f].reply.files, clock')
  <2>1. Before(running[f].reply.files, clock')
    BY <1>1, <1>3 DEF ReadBefore
  <2>2. running'[f].reply \in {running[f].reply, Unserved, Refused, Served, Served'}
    BY TaskReplies
  <2> QED
    BY <1>4, <1>5, <2>1, <2>2
<1>9. Before(shown', clock')
  <2>1. ASSUME NEW reply \in Replies, NEW files \in SUBSET Files,
               reply = job.reply \/ \E g \in Files : reply = running[g].reply,
               shown' = Merged(reply, files)
        PROVE  Before(shown', clock')
    <3>1. Before(reply.files, clock) /\ Before(shown, clock)
      BY <2>1 DEF ReadBefore
    <3>2. Merged(reply, files) \in Readings
      BY <1>1, MergedTypes
    <3> QED
      BY <1>2, <2>1, <3>1, <3>2, MergedBefore
  <2> QED
    BY <1>4, <1>6, <2>1, ListReplies
<1> QED
  BY <1>7, <1>8, <1>9 DEF ReadBefore

\* The list under way stays as it is or another one is asked for.
LEMMA NewerStays ==
    ASSUME ListIsNewer, alive, shown' = shown, list' \in {list, Asked, NoList}
    PROVE  ListIsNewer'
<1>1. CASE list' = list
  BY <1>1 DEF ListIsNewer
<1>2. CASE list' \in {Asked, NoList}
  BY <1>2, DefaultTypes, ReplyTypes DEF ListIsNewer
<1> QED
  BY <1>1, <1>2

\* An answer outdates the list under way; without a snapshot it is not kept.
LEMMA NewerMerges ==
    ASSUME TypeInv, NEW reply \in Replies, NEW files \in SUBSET Files,
           shown' = Merged(reply, files), list' \in {Outdated, Asked}
    PROVE  ListIsNewer'
<1>1. CASE list' = Asked
  BY <1>1, DefaultTypes, ReplyTypes DEF ListIsNewer
<1>2. CASE list' = Outdated /\ shown = Blank
  <2>1. shown' = Blank /\ list' = list /\ list.reply \in Replies
    BY <1>2 DEF Merged, Outdated, TypeInv, ListOK, Lists
  <2>2. ASSUME NEW f \in Files PROVE shown'[f].at <= list'.reply.files[f].at
    <3>1. shown'[f].at = 0
      BY <2>1 DEF Blank, Unknown
    <3>2. list'.reply.files[f].at \in Nat
      BY <2>1 DEF Replies, Readings
    <3> QED
      BY <3>1, <3>2
  <2> QED
    BY <2>2 DEF ListIsNewer
<1>3. CASE list' = Outdated /\ ~list.asked
  <2>1. list'.reply = Unserved
    BY <1>3, OutdatedTypes DEF TypeInv, ListOK
  <2> QED
    BY <2>1, ReplyTypes DEF ListIsNewer
<1>4. CASE list' = Outdated /\ shown # Blank /\ list.asked
  <2>1. list'.outdated
    BY <1>4 DEF Outdated, TypeInv, ListOK, Lists
  <2> QED
    BY <2>1 DEF ListIsNewer
<1> QED
  BY <1>1, <1>2, <1>3, <1>4

LEMMA NewerStep == TypeInv /\ ReadBefore /\ ListIsNewer /\ [Next]_vars => ListIsNewer'
<1> SUFFICES ASSUME TypeInv, ReadBefore, ListIsNewer, [Next]_vars, alive' PROVE ListIsNewer'
  BY Zenon DEF ListIsNewer
<1> USE DEF service
<1>0. /\ FilesOK /\ job.reply \in Replies
      /\ \A f \in Files : running[f].reply \in Replies
  BY DEF TypeInv, JobOK, FilesOK, Works, Jobs
<1>1. ASSUME alive, shown' = shown, list' \in {list, Asked, NoList} PROVE ListIsNewer'
  BY <1>1, NewerStays
<1>2. ASSUME NEW w, NEW aw, Refresh(w, list, aw) PROVE list' \in {list, Asked}
  BY <1>2 DEF Refresh
<1>3. ASSUME NEW w, NEW aw, Refresh(w, Outdated, aw) PROVE list' \in {Outdated, Asked}
  BY <1>3 DEF Refresh
<1>4. ASSUME ServeList PROVE ListIsNewer'
  <2>1. /\ shown' = shown /\ list'.reply = Served
        /\ Before(shown, clock) /\ clock \in Nat /\ shown \in Readings
    BY <1>4 DEF ServeList, ReadBefore, TypeInv, ViewOK, ListOK, Lists
  <2>2. ASSUME NEW f \in Files PROVE shown'[f].at <= list'.reply.files[f].at
    <3>1. shown[f].at <= clock
      BY <2>1 DEF Before
    <3>2. Served.files[f].at = clock
      BY DEF Served, Reading
    <3> QED
      BY <2>1, <3>1, <3>2
  <2> QED
    BY Zenon, <2>2 DEF ListIsNewer
<1>5. ASSUME NEW f \in Files, NEW action \in Actions, Act(f, action) PROVE ListIsNewer'
  BY <1>1, <1>5 DEF Act
<1>6. ASSUME NEW step, NEW resume, StartJob(step, resume) PROVE ListIsNewer'
  BY <1>1, <1>6 DEF StartJob
<1>7. ASSUME Focus \/ PollFires \/ ServeJob PROVE ListIsNewer'
  BY <1>1, <1>2, <1>7 DEF Focus, PollFires, ServeJob
<1>8. ASSUME NEW f \in Files, Elsewhere(f) \/ ServeCommand(f) PROVE ListIsNewer'
  BY <1>1, <1>8 DEF Elsewhere, ServeCommand
<1>9. ASSUME NEW f \in Files, CommandAnswered(f) PROVE ListIsNewer'
  <2>1. PICK files \in {{f}, Files} : shown' = Merged(running[f].reply, files)
    BY <1>9 DEF CommandAnswered
  <2>2. list' \in {Outdated, Asked}
    BY <1>3, <1>9 DEF CommandAnswered
  <2> QED
    BY <1>0, <2>1, <2>2, NewerMerges
<1>10. ASSUME NEW f \in Files, CommandRefused(f) \/ CommandLost(f) PROVE ListIsNewer'
  BY <1>1, <1>10 DEF CommandRefused, CommandLost, Failed
<1>11. ASSUME NEW f \in Files, DelayEnds(f) PROVE ListIsNewer'
  BY <1>1, <1>2, <1>11 DEF DelayEnds
<1>12. ASSUME list' \in {NoList, Asked} PROVE ListIsNewer'
  BY <1>12, DefaultTypes, ReplyTypes DEF ListIsNewer
<1>13. ASSUME ListAnswered PROVE ListIsNewer'
  <2>1. list' \in {NoList, Asked}
    BY <1>13 DEF ListAnswered
  <2> QED
    BY <1>12, <2>1
<1>14. ASSUME ListLost \/ ListTooLate PROVE ListIsNewer'
  BY <1>12, <1>14 DEF ListLost, ListTooLate, ListThrows
<1>15. ASSUME JobAnswered PROVE ListIsNewer'
  <2>1. PICK files \in {{}, Files} : shown' = Merged(job.reply, files)
    BY <1>15 DEF JobAnswered
  <2>2. list' \in {Outdated, Asked}
    BY <1>3, <1>15 DEF JobAnswered, Prepared, Committed, Configured, EndUpload, Goes
  <2> QED
    BY <1>0, <2>1, <2>2, NewerMerges
<1>16. ASSUME PieceTaken \/ Saved PROVE ListIsNewer'
  BY <1>1, <1>16 DEF PieceTaken, Saved
<1>17. ASSUME JobLost \/ JobTooLate PROVE ListIsNewer'
  BY <1>1, <1>2, <1>17 DEF JobLost, JobTooLate, JobThrows, EndUpload
<1>18. ASSUME UNCHANGED vars PROVE ListIsNewer'
  BY <1>1, <1>18 DEF vars
<1>19. ~Stop
  BY DEF Stop
<1> HIDE DEF service
<1> QED
  BY <1>4, <1>5, <1>6, <1>7, <1>8, <1>9, <1>10, <1>11, <1>13, <1>14, <1>15, <1>16, <1>17,
     <1>18, <1>19 DEF Next, Upload, Configure, Save

LEMMA ReadInit == Init => ReadBefore /\ ListIsNewer
<1> SUFFICES ASSUME Init PROVE ReadBefore /\ ListIsNewer
  OBVIOUS
<1>1. /\ shown = Blank /\ list.reply = Unserved /\ job.reply = Unserved
      /\ Before(Unserved.files, clock) /\ Before(Blank, clock)
  BY TypeInit, DefaultTypes, AnswersBefore DEF Init, TypeInv
<1>2. ASSUME NEW g \in Files PROVE Before(running[g].reply.files, clock)
  <2>1. running[g].reply = Unserved
    BY DefaultTypes DEF Init
  <2> QED
    BY <1>1, <2>1
<1>3. ReadBefore
  BY Zenon, <1>1, <1>2 DEF ReadBefore
<1>4. ListIsNewer
  BY <1>1, ReplyTypes DEF ListIsNewer
<1> QED
  BY <1>3, <1>4

\* A list that will be shown was read no earlier than anything that is shown: the
\* answer of a command or an upload outdates the list under way (mergeMutation and
\* the mutation number that refresh() compares).
THEOREM ListsNeverGoBack == Spec => []ListIsNewer
<1> QED
  BY ReadInit, TypeInit, TypeStep, ReadStep, NewerStep, PTL DEF Spec

-----------------------------------------------------------------------------
(* What is sent, and when.                                                 *)

LEMMA EndSends ==
    ASSUME FilesOK, NEW g \in Files, End(g), NEW f \in Files, Sends(f)
    PROVE  waiting'[f] = "none"
BY DEF End, Sends, FilesOK

LEMMA ResumeSends ==
    ASSUME FilesOK, NEW returned, NEW ok \in BOOLEAN, NEW read,
           NEW known, Resume(returned, ok, read, known), NEW f \in Files, Sends(f)
    PROVE  waiting'[f] = "none"
<1>1. f \in returned
  BY ResumeOthers DEF Sends
<1>2. CASE Outcome(f, ok, read) \in {"end", "fail"}
  BY <1>1, <1>2, ResumeFile
<1>3. CASE Outcome(f, ok, read) = "break"
  <2>1. running'[f].step = "final"
    BY <1>1, <1>3, ResumeFile, SteppedTypes DEF FilesOK, Steps
  <2> QED
    BY <2>1 DEF Sends
<1>4. CASE Outcome(f, ok, read) = "retry"
  <2>1. Current(f)
    BY <1>4, OutcomeCases
  <2> QED
    BY <1>1, <1>4, <2>1, ResumeFile DEF Current
<1> QED
  BY <1>2, <1>3, <1>4, OutcomeCases

\* Where a file's tasks do not change.
LEMMA TasksStay ==
    ASSUME [Next]_vars,
           ~ \E g \in Files : \/ \E action \in Actions : Act(g, action)
                              \/ ServeCommand(g) \/ CommandAnswered(g) \/ CommandRefused(g)
                              \/ CommandLost(g) \/ DelayEnds(g),
           ~ListAnswered, ~ListLost, ~ListTooLate
    PROVE  UNCHANGED tasks
<1> USE DEF tasks
<1>1. ASSUME NEW step, NEW resume, StartJob(step, resume) PROVE UNCHANGED tasks
  BY <1>1 DEF StartJob
<1>2. ASSUME Focus \/ PollFires \/ ServeList \/ ServeJob \/ Stop PROVE UNCHANGED tasks
  BY <1>2 DEF Focus, PollFires, ServeList, ServeJob, Stop
<1>3. ASSUME JobAnswered \/ PieceTaken \/ Saved \/ JobLost \/ JobTooLate PROVE UNCHANGED tasks
  BY <1>3 DEF JobAnswered, PieceTaken, Saved, JobLost, JobTooLate, JobThrows
<1>4. ASSUME NEW g \in Files, Elsewhere(g) PROVE UNCHANGED tasks
  BY <1>4 DEF Elsewhere
<1>5. ASSUME UNCHANGED vars PROVE UNCHANGED tasks
  BY <1>5 DEF vars
<1> HIDE DEF tasks
<1> QED
  BY <1>1, <1>2, <1>3, <1>4, <1>5 DEF Next, Upload, Configure, Save

LEMMA SendStep ==
    ASSUME TypeInv, [Next]_vars, NEW f \in Files, Sends(f)
    PROVE  waiting'[f] = "none"
<1>0. FilesOK
  BY DEF TypeInv
<1>1. ASSUME NEW g \in Files, NEW action \in Actions, Act(g, action)
      PROVE  waiting'[f] = "none"
  <2>1. f = g /\ running[g] = NoTask /\ waiting' = waiting
    BY <1>0, <1>1 DEF Act, Sends, FilesOK
  <2> QED
    BY <1>0, <2>1 DEF FilesOK
<1>2. ASSUME NEW g \in Files PROVE ~ServeCommand(g)
  <2> SUFFICES ASSUME ServeCommand(g) PROVE FALSE
    OBVIOUS
  <2>1. PICK reply \in {Refused, Served, Served'} : running' = [running EXCEPT ![g].reply = reply]
    BY DEF ServeCommand
  <2>2. reply.kind # "none"
    BY DEF Refused, Served
  <2>3. f = g /\ running'[g] = Replied(running[g], reply) /\ running[g] \in Works
    BY <1>0, <2>1 DEF FilesOK, Replied, Sends
  <2>4. Replied(running[g], reply).reply = reply
    BY <2>3 DEF Replied, Works
  <2> QED
    BY <2>2, <2>3, <2>4, ReplyTypes DEF Sends
<1>3. ASSUME NEW g \in Files, CommandAnswered(g) PROVE waiting'[f] = "none"
  <2>1. CASE Current(g)
    BY <1>0, <1>3, <2>1 DEF CommandAnswered, Sends, FilesOK, Works
  <2>2. CASE ~Current(g)
    BY <1>0, <1>3, <2>2, EndSends DEF CommandAnswered
  <2> QED
    BY <2>1, <2>2
<1>4. ASSUME NEW g \in Files, CommandRefused(g) \/ CommandLost(g) PROVE waiting'[f] = "none"
  <2>1. PICK retryable \in BOOLEAN : Failed(g, retryable)
    BY <1>4 DEF CommandRefused, CommandLost
  <2>2. CASE MayRetry(g, retryable)
    BY <1>0, <2>1, <2>2 DEF Failed, Sends, FilesOK, Works
  <2>3. CASE ~MayRetry(g, retryable)
    BY <1>0, <2>1, <2>3, EndSends DEF Failed
  <2> QED
    BY <2>2, <2>3
<1>5. ASSUME NEW g \in Files, DelayEnds(g) PROVE waiting'[f] = "none"
  <2>1. CASE Current(g)
    BY <1>0, <1>5, <2>1 DEF DelayEnds, Sends, FilesOK, Works
  <2>2. CASE ~Current(g)
    BY <1>0, <1>5, <2>2, EndSends DEF DelayEnds
  <2> QED
    BY <2>1, <2>2
<1>6. ASSUME ListAnswered PROVE waiting'[f] = "none"
  <2> DEFINE read     == IF list.outdated THEN shown ELSE list.reply.files
             known    == IF list.outdated THEN transfers ELSE Known(read)
             returned == {w \in Waiters : awaits[w] \in {"own", "joined"}} \cap Files
  <2>1. Resume(returned, TRUE, read, known)
    BY <1>6 DEF ListAnswered
  <2> HIDE DEF read, known, returned
  <2> QED
    BY <1>0, <2>1, ResumeSends
<1>8. ASSUME ListLost \/ ListTooLate PROVE waiting'[f] = "none"
  <2> DEFINE returned == {g \in Files : awaits[g] # "no"}
  <2>1. Resume(returned, FALSE, shown, transfers)
    BY <1>8 DEF ListLost, ListTooLate, ListThrows
  <2> HIDE DEF returned
  <2> QED
    BY <1>0, <2>1, ResumeSends
<1>7. ~UNCHANGED tasks
  BY DEF tasks, Sends
<1> QED
  BY <1>1, <1>2, <1>3, <1>4, <1>5, <1>6, <1>7, <1>8, TasksStay

\* A command is sent only for the newest action on the file: current() is asked
\* before a retry, and the task that follows another is that of the newest action.
THEOREM OnlyTheNewestIsSent == Spec => SupersededIsNotSent
<1>1. TypeInv /\ [Next]_vars => \A f \in Files : Sends(f) => waiting'[f] = "none"
  BY SendStep
<1>2. TypeInv /\ [Next]_vars => [\A f \in Files : Sends(f) => waiting'[f] = "none"]_vars
  BY <1>1
<1> QED
  BY <1>2, TypeInit, TypeStep, PTL DEF Spec, SupersededIsNotSent

\* After stop(), a task that goes on ends or waits for its retry.
StillSent(f) ==
    running'[f].step = "command" =>
        /\ running[f].step = "command" /\ running'[f].action = running[f].action
        /\ running'[f].attempt = running[f].attempt

LEMMA EndStopped ==
    ASSUME FilesOK, ~alive, NEW g \in Files, End(g), NEW f \in Files
    PROVE  StillSent(f)
<1>1. AfterTask(g) = NoTask
  BY DEF AfterTask
<1> QED
  BY <1>1, DefaultTypes DEF End, StillSent, FilesOK

LEMMA ResumeStopped ==
    ASSUME FilesOK, ~alive, NEW returned, NEW ok \in BOOLEAN, NEW read,
           NEW known, Resume(returned, ok, read, known), NEW f \in Files
    PROVE  StillSent(f)
<1>1. CASE f \notin returned
  BY <1>1, ResumeOthers DEF StillSent
<1>2. CASE f \in returned
  <2>1. Outcome(f, ok, read) = "end" /\ AfterTask(f) = NoTask
    BY DEF Outcome, Current, AfterTask
  <2> QED
    BY <1>2, <2>1, ResumeFile, DefaultTypes DEF StillSent
<1> QED
  BY <1>1, <1>2

LEMMA StoppedTasks ==
    ASSUME TypeInv, [Next]_vars, ~alive, NEW f \in Files
    PROVE  StillSent(f)
<1>0. FilesOK
  BY DEF TypeInv
<1>1. ASSUME NEW g \in Files
      PROVE  /\ ~CommandAnswered(g) /\ ~ListAnswered
             /\ \A action \in Actions : ~Act(g, action)
  BY DEF CommandAnswered, ListAnswered, Act, Usable
<1>2. ASSUME NEW g \in Files, ServeCommand(g) PROVE StillSent(f)
  <2>1. PICK reply : running' = [running EXCEPT ![g].reply = reply]
    BY <1>2 DEF ServeCommand
  <2> QED
    BY <1>0, <2>1 DEF FilesOK, Works, StillSent
<1>4. ASSUME NEW g \in Files, CommandRefused(g) \/ CommandLost(g) PROVE StillSent(f)
  <2>1. PICK retryable \in BOOLEAN : Failed(g, retryable)
    BY <1>4 DEF CommandRefused, CommandLost
  <2>2. CASE MayRetry(g, retryable)
    BY <1>0, <2>1, <2>2 DEF Failed, StillSent, FilesOK, Works
  <2>3. CASE ~MayRetry(g, retryable)
    BY <1>0, <2>1, <2>3, EndStopped DEF Failed
  <2> QED
    BY <2>2, <2>3
<1>5. ASSUME NEW g \in Files, DelayEnds(g) PROVE StillSent(f)
  BY <1>0, <1>5, EndStopped DEF DelayEnds, Current
<1>6. ASSUME ListLost \/ ListTooLate PROVE StillSent(f)
  <2> DEFINE returned == {g \in Files : awaits[g] # "no"}
  <2>1. Resume(returned, FALSE, shown, transfers)
    BY <1>6 DEF ListLost, ListTooLate, ListThrows
  <2> HIDE DEF returned
  <2> QED
    BY <1>0, <2>1, ResumeStopped
<1>7. ASSUME UNCHANGED tasks PROVE StillSent(f)
  BY <1>7 DEF tasks, StillSent
<1> QED
  BY <1>1, <1>2, <1>4, <1>5, <1>6, <1>7, TasksStay

LEMMA StoppedRest ==
    ASSUME TypeInv, [Next]_vars, ~alive
    PROVE  /\ list'.asked => list.asked
           /\ job'.step \notin {"none", "list"} =>
                  job'.step = job.step /\ job'.left = job.left
<1> DEFINE Fewer == /\ list'.asked => list.asked
                    /\ job'.step \notin {"none", "list"} =>
                           job'.step = job.step /\ job'.left = job.left
<1>0. job \in Jobs /\ list \in Lists
  BY DEF TypeInv, JobOK, ListOK
<1>1. ASSUME NEW g \in Files
      PROVE  /\ ~CommandAnswered(g) /\ ~ListAnswered
             /\ \A action \in Actions : ~Act(g, action)
  BY DEF CommandAnswered, ListAnswered, Act, Usable
<1>2. ASSUME NEW step, NEW resume PROVE ~StartJob(step, resume)
  BY DEF StartJob
<1>3. ~Focus /\ ~Stop /\ ~PollFires /\ ~ListAnswered /\ ~JobAnswered /\ ~PieceTaken
  BY DEF Focus, Stop, PollFires, ListAnswered, JobAnswered, PieceTaken, Usable
<1>4. ASSUME NEW g \in Files,
             Elsewhere(g) \/ ServeCommand(g) \/ CommandRefused(g) \/ CommandLost(g)
      PROVE  Fewer
  BY <1>4 DEF Elsewhere, ServeCommand, CommandRefused, CommandLost, Failed
<1>5. ASSUME NEW g \in Files, DelayEnds(g) PROVE Fewer
  BY <1>5 DEF DelayEnds, Current
<1>6. ASSUME ServeList \/ ServeJob \/ Saved PROVE Fewer
  BY <1>0, <1>6, DefaultTypes DEF ServeList, ServeJob, Saved, Jobs, Lists
<1>7. ASSUME ListLost \/ ListTooLate PROVE Fewer
  BY <1>7, DefaultTypes DEF ListLost, ListTooLate, ListThrows
<1>8. ASSUME JobLost \/ JobTooLate PROVE Fewer
  BY <1>8, DefaultTypes DEF JobLost, JobTooLate, JobThrows, EndUpload
<1>9. ASSUME UNCHANGED vars PROVE Fewer
  BY <1>9 DEF vars
<1> HIDE DEF Fewer
<1>10. Fewer
  BY <1>1, <1>2, <1>3, <1>4, <1>5, <1>6, <1>7, <1>8, <1>9 DEF Next, Upload, Configure, Save
<1> QED
  BY <1>10 DEF Fewer

LEMMA StoppedStep ==
    ASSUME TypeInv, [Next]_vars, ~alive
    PROVE  Requests' \subseteq Requests
<1> SUFFICES ASSUME NEW r \in Requests' PROVE r \in Requests
  OBVIOUS
<1>1. CASE r \in {<<"file", f, running'[f].action, running'[f].attempt>> :
                     f \in {g \in Files : running'[g].step = "command"}}
  <2>1. PICK f \in Files : /\ running'[f].step = "command"
                           /\ r = <<"file", f, running'[f].action, running'[f].attempt>>
    BY <1>1
  <2>2. /\ running[f].step = "command"
        /\ r = <<"file", f, running[f].action, running[f].attempt>>
    BY <2>1, StoppedTasks DEF StillSent
  <2> QED
    BY <2>2 DEF Requests
<1>2. CASE r \in {<<"list">> : l \in {list'.asked} \cap {TRUE}}
  BY <1>2, StoppedRest DEF Requests
<1>3. CASE r \in {<<"job", job'.step, job'.left>> : j \in {job'.step} \ {"none", "list"}}
  BY <1>3, StoppedRest DEF Requests
<1> QED
  BY <1>1, <1>2, <1>3 DEF Requests

\* After stop() no retry, list, piece or commit is sent (the alive checks of the
\* controller, one after every await).
THEOREM NothingAfterStop == Spec => StoppedSendsNothing
<1>1. TypeInv /\ [Next]_vars => [~alive => Requests' \subseteq Requests]_vars
  BY StoppedStep
<1> QED
  BY <1>1, TypeInit, TypeStep, PTL DEF Spec, StoppedSendsNothing
=============================================================================
