---------------------------- MODULE FileTransfers ----------------------------
(***************************************************************************)
(* The file controller of the web view, ui/src/file-controller.ts: the     *)
(* lists it polls for, the actions on a file that replace one another and  *)
(* retry, the one upload or configuration under way, and stop() when the   *)
(* view is locked or closed.                                               *)
(*                                                                         *)
(* An action of this module is one turn of the controller, from one await  *)
(* to the next, or one step of the service.  Requests of the controller    *)
(* are under way at the same time; the service handles one at a time; the  *)
(* answers come in any order, or fail whether or not the service handled   *)
(* the request.                                                            *)
(*                                                                         *)
(* The controller numbers its actions and its mutations and compares the   *)
(* numbers after an await.  The model keeps what the comparison would      *)
(* find: of a file's tasks only the newest may wait, a list is outdated,   *)
(* one who joined a list has to ask again.                                 *)
(*                                                                         *)
(* An operator whose name starts with Fault is a wrong version of the      *)
(* definition below it; no specification uses one.                         *)
(***************************************************************************)
EXTENDS Naturals

CONSTANTS
    Files,      \* the files the service lists
    Poll,       \* the poll of start()
    Loose,      \* refreshes nobody waits for: a focused window, an ended upload
    Job,        \* the refresh of a configuration
    Retries,    \* how often a failed accept or resume is sent again (2 in the code)
    Pieces,     \* pieces of an uploaded file
    MaxEvents   \* bound: what the person, other clients and failures do, in all

Waiters == Files \cup {Poll, Loose, Job}

ASSUME TransferAssumption ==
    /\ Poll # Loose /\ Loose # Job /\ Job # Poll
    /\ Files \cap {Poll, Loose, Job} = {}
    /\ Retries \in Nat /\ Pieces \in Nat \ {0} /\ MaxEvents \in Nat

VARIABLES
    server,     \* the service's state of each file
    clock,      \* how often one of them changed
    alive,      \* stop() has not been called
    shown,      \* value.snapshot: each file's state, and the clock it was read at
    transfers,  \* value.transfers: none, pending, idle or error, per file
    running,    \* the task of each file that is not awaiting another one
    waiting,    \* the newest action on a file, while an older one's task runs
    list,       \* refreshTask: the list under way
    awaits,     \* who awaits refresh(), and how
    job,        \* what makes the controller busy
    events      \* counts what MaxEvents bounds

service == <<server, clock>>
tasks   == <<running, waiting>>
vars    == <<service, alive, shown, transfers, tasks, list, awaits, job, events>>

-----------------------------------------------------------------------------
Actions == {"accept", "resume", "pause", "cancel"}
States  == {"offered", "downloading", "paused", "complete", "cancelled"}

Underway == {"downloading", "complete"}     \* a retry has nothing left to do
Startable == {"offered", "paused"}          \* a retry sends its command again

Unknown == [state |-> "unknown", at |-> 0]
Blank   == [f \in Files |-> Unknown]        \* no snapshot

Reading == [f \in Files |-> [state |-> server[f], at |-> clock]]

\* What the service answered to a request that is under way.
Unserved == [kind |-> "none", files |-> Blank]
Refused  == [kind |-> "refused", files |-> Blank]
Served   == [kind |-> "ok", files |-> Reading]

NoTask == [action |-> "none", step |-> "idle", attempt |-> 0, reply |-> Unserved]

Started(action) == [NoTask EXCEPT !.action = action, !.step = "command"]

NoList == [asked |-> FALSE, outdated |-> FALSE, reply |-> Unserved]
Asked  == [NoList EXCEPT !.asked = TRUE]

NoJob == [step |-> "none", left |-> 0, resume |-> FALSE, reply |-> Unserved]

Busy == job.step # "none"

\* Something happens that no answer has caused.
Happens == events < MaxEvents /\ events' = events + 1

\* The newest action on a file that is not finished.
Newest(f) == IF waiting[f] = "none" THEN running[f].action ELSE waiting[f]

\* current(), asked by the task that runs.
FaultCurrent(f) == alive

Current(f) == alive /\ waiting[f] = "none"

\* assertAlive()
FaultUsable == TRUE

Usable == alive

-----------------------------------------------------------------------------
(* refresh(): the first caller sends the list and looks at it whatever     *)
(* happened meanwhile; one who joins asks again if a mutation was answered *)
(* since it joined.                                                        *)
Refresh(w, l, aw) ==
    /\ list' = IF l.asked THEN l ELSE Asked
    /\ awaits' = [aw EXCEPT ![w] =
                     IF ~l.asked THEN "own" ELSE IF @ = "again" THEN "again" ELSE "joined"]

\* A mutation was answered: its files replace those shown, a list that is
\* under way will not be shown.  Without a snapshot the answer is not kept.
Merged(reply, files) ==
    IF shown = Blank THEN shown
    ELSE [f \in Files |-> IF f \in files THEN reply.files[f] ELSE shown[f]]

FaultOutdated == list

Outdated == IF shown = Blank \/ ~list.asked THEN list ELSE [list EXCEPT !.outdated = TRUE]

Stirred ==
    IF shown = Blank THEN awaits
    ELSE [w \in Waiters |-> IF awaits[w] = "joined" THEN "again" ELSE awaits[w]]

\* A task ends; the newest action, if it waited for it, sends its command.
FaultAfterTask(f) == NoTask

AfterTask(f) == IF waiting[f] = "none" \/ ~alive THEN NoTask ELSE Started(waiting[f])

End(f) ==
    /\ running' = [running EXCEPT ![f] = AfterTask(f)]
    /\ waiting' = [waiting EXCEPT ![f] = "none"]

Settled(f, value) == [transfers EXCEPT ![f] = IF Current(f) /\ @ # "none" THEN value ELSE @]

-----------------------------------------------------------------------------
Init ==
    /\ server \in [Files -> {"offered", "paused"}]
    /\ clock = 0
    /\ alive = TRUE
    /\ shown = Blank
    /\ transfers = [f \in Files |-> "none"]
    /\ running = [f \in Files |-> NoTask]
    /\ waiting = [f \in Files |-> "none"]
    /\ list = Asked
    /\ awaits = [w \in Waiters |-> IF w = Poll THEN "own" ELSE "no"]
    /\ job = NoJob
    /\ events = 0

-----------------------------------------------------------------------------
(* The person.                                                             *)

\* The buttons of FilePanel, and "Check and retry" of the timeline.
Offers(f, action) ==
    /\ shown # Blank
    /\ \/ action = "accept" /\ transfers[f] = "error"
       \/ /\ ~Busy
          /\ CASE action = "accept" -> shown[f].state = "offered" /\ transfers[f] # "pending"
               [] action = "resume" -> shown[f].state = "paused"
               [] action = "pause"  -> shown[f].state = "downloading"
               [] action = "cancel" -> shown[f].state # "cancelled"

\* The same action again is the one under way; another one waits for the task
\* that runs and takes the place of one that waits.
Act(f, action) ==
    /\ alive /\ Offers(f, action) /\ Newest(f) # action /\ Happens
    /\ transfers' = [transfers EXCEPT ![f] = "pending"]
    /\ IF running[f] = NoTask
       THEN running' = [running EXCEPT ![f] = Started(action)] /\ UNCHANGED waiting
       ELSE waiting' = [waiting EXCEPT ![f] = action] /\ UNCHANGED running
    /\ UNCHANGED <<service, alive, shown, list, awaits, job>>

\* upload(), of a new file or of a retained import, a changed configuration, or
\* save() of a complete file.
StartJob(step, resume) ==
    /\ alive /\ ~Busy /\ Happens
    /\ job' = [NoJob EXCEPT !.step = step, !.resume = resume]
    /\ UNCHANGED <<service, alive, shown, transfers, tasks, list, awaits>>

Upload(resume) == StartJob("prepare", resume)
Configure      == StartJob("configure", FALSE)
Save           == StartJob("save", FALSE)

\* The window gets the focus.
Focus ==
    /\ alive /\ Happens
    /\ Refresh(Loose, list, awaits)
    /\ UNCHANGED <<service, alive, shown, transfers, tasks, job>>

\* The view is locked or closed.
Stop ==
    /\ alive /\ Happens
    /\ alive' = FALSE
    /\ shown' = Blank
    /\ transfers' = [f \in Files |-> "none"]
    /\ UNCHANGED <<service, tasks, list, awaits, job>>

-----------------------------------------------------------------------------
(* The service.                                                            *)

Takes(state, action) ==
    CASE action = "accept" -> state = "offered"
      [] action = "resume" -> state = "paused"
      [] action = "pause"  -> state = "downloading"
      [] action = "cancel" -> state # "cancelled"

Effect(action) ==
    CASE action \in {"accept", "resume"} -> "downloading"
      [] action = "pause"  -> "paused"
      [] action = "cancel" -> "cancelled"

Becomes(f, state) ==
    /\ server' = [server EXCEPT ![f] = state]
    /\ clock' = clock + 1

\* Another client acts on the file, or the download completes.
Elsewhere(f) ==
    /\ Happens
    /\ \/ \E action \in Actions : Takes(server[f], action) /\ Becomes(f, Effect(action))
       \/ server[f] = "downloading" /\ Becomes(f, "complete")
    /\ UNCHANGED <<alive, shown, transfers, tasks, list, awaits, job>>

\* A command that finds the file in another state is refused or changes nothing.
ServeCommand(f) ==
    /\ running[f].step = "command" /\ running[f].reply = Unserved
    /\ \/ /\ Takes(server[f], running[f].action)
          /\ Becomes(f, Effect(running[f].action))
          /\ running' = [running EXCEPT ![f].reply = Served']
       \/ /\ ~Takes(server[f], running[f].action)
          /\ \E reply \in {Refused, Served} : running' = [running EXCEPT ![f].reply = reply]
          /\ UNCHANGED service
    /\ UNCHANGED <<alive, shown, transfers, waiting, list, awaits, job, events>>

ServeList ==
    /\ list.asked /\ list.reply = Unserved
    /\ list' = [list EXCEPT !.reply = Served]
    /\ UNCHANGED <<service, alive, shown, transfers, tasks, awaits, job, events>>

Sent == {"prepare", "piece", "commit", "configure", "save"}

ServeJob ==
    /\ job.step \in Sent /\ job.reply = Unserved
    /\ job' = [job EXCEPT !.reply = Served]
    /\ UNCHANGED <<service, alive, shown, transfers, tasks, list, awaits, events>>

-----------------------------------------------------------------------------
(* act(): the task of a file.                                              *)

\* The answer has the file and perhaps all others.
CommandAnswered(f) ==
    /\ running[f].step = "command" /\ running[f].reply.kind = "ok" /\ Usable
    /\ \E files \in {{f}, Files} : shown' = Merged(running[f].reply, files)
    /\ transfers' = Settled(f, "idle")
    /\ IF Current(f)
       THEN /\ running' = [running EXCEPT ![f].step = "final", ![f].reply = Unserved]
            /\ Refresh(f, Outdated, Stirred)
            /\ UNCHANGED waiting
       ELSE End(f) /\ list' = Outdated /\ awaits' = Stirred
    /\ UNCHANGED <<service, alive, job, events>>

\* Only a failed transport, or a view that was stopped meanwhile, is retryable.
FaultMayRetry(f, retryable) == retryable /\ running[f].action \in {"accept", "resume"}

MayRetry(f, retryable) ==
    retryable /\ running[f].action \in {"accept", "resume"} /\ running[f].attempt < Retries

Failed(f, retryable) ==
    /\ IF MayRetry(f, retryable)
       THEN /\ running' = [running EXCEPT ![f].step = "delay", ![f].reply = Unserved]
            /\ UNCHANGED <<transfers, waiting>>
       ELSE End(f) /\ transfers' = Settled(f, "error")
    /\ UNCHANGED <<service, alive, shown, list, awaits, job>>

CommandRefused(f) ==
    /\ running[f].step = "command"
    /\ \/ running[f].reply.kind = "refused" /\ Failed(f, FALSE)
       \/ running[f].reply.kind = "ok" /\ ~Usable /\ Failed(f, TRUE)
    /\ UNCHANGED events

\* The request or its answer is lost, or the service is unavailable.
CommandLost(f) ==
    /\ running[f].step = "command" /\ Happens
    /\ \E retryable \in BOOLEAN : Failed(f, retryable)

\* 300 ms or a second later.
DelayEnds(f) ==
    /\ running[f].step = "delay"
    /\ IF Current(f)
       THEN /\ running' = [running EXCEPT ![f].step = "status"]
            /\ Refresh(f, list, awaits)
            /\ UNCHANGED waiting
       ELSE End(f) /\ UNCHANGED <<list, awaits>>
    /\ UNCHANGED <<service, alive, shown, transfers, job, events>>

\* What a task does when its refresh() returned or, if not ok, threw.
Outcome(f, ok, read) ==
    IF ~Current(f) THEN "end"
    ELSE IF ~ok THEN "fail"
    ELSE IF running[f].step = "final" THEN "end"
    ELSE IF read[f].state \in Underway THEN "break"
    ELSE IF read[f].state \in Startable THEN "retry"
    ELSE "fail"

Resume(returned, ok, read, known) ==
    LET outcome(f) == IF f \in returned THEN Outcome(f, ok, read) ELSE "none"
    IN /\ running' = [f \in Files |->
              CASE outcome(f) = "none"  -> running[f]
                [] outcome(f) = "retry" -> [Started(running[f].action) EXCEPT
                                               !.attempt = running[f].attempt + 1]
                [] outcome(f) = "break" -> [running[f] EXCEPT !.step = "final"]
                [] OTHER                -> AfterTask(f)]
       /\ waiting' = [f \in Files |->
              IF outcome(f) \in {"end", "fail"} THEN "none" ELSE waiting[f]]
       /\ transfers' = [f \in Files |->
              IF known[f] = "none" THEN "none"
              ELSE IF outcome(f) = "fail" THEN "error"
              ELSE IF outcome(f) = "break" THEN "idle"
              ELSE known[f]]

-----------------------------------------------------------------------------
(* The list.                                                               *)

\* A download that is listed and not yet known is shown as a transfer.
Known(read) ==
    [f \in Files |-> IF transfers[f] = "none" /\ read[f].state \in {"downloading", "paused"}
                     THEN "idle" ELSE transfers[f]]

\* Everyone who awaits the list goes on in the same turn; those who call
\* refresh() again share one new list, which one of them asks for.
ListAnswered ==
    /\ list.reply.kind = "ok" /\ Usable
    /\ LET read     == IF list.outdated THEN shown ELSE list.reply.files
           known    == IF list.outdated THEN transfers ELSE Known(read)
           returned == {w \in Waiters : awaits[w] \in {"own", "joined"}}
           callers  == {w \in Waiters : awaits[w] = "again"}
                          \cup {f \in returned \cap Files : Outcome(f, TRUE, read) = "break"}
       IN /\ shown' = read
          /\ Resume(returned \cap Files, TRUE, read, known)
          /\ job' = IF Job \in returned THEN NoJob ELSE job
          /\ IF callers = {}
             THEN list' = NoList /\ awaits' = [w \in Waiters |-> "no"]
             ELSE \E owner \in callers :
                     /\ list' = Asked
                     /\ awaits' = [w \in Waiters |-> IF w = owner THEN "own"
                                      ELSE IF w \in callers THEN "joined" ELSE "no"]
    /\ UNCHANGED <<service, alive, events>>

\* Everyone who awaits the list is told that it failed; the poll goes on.
FaultReleased == [w \in Waiters |-> IF w = Poll THEN awaits[w] ELSE "no"]

Released == [w \in Waiters |-> "no"]

ListThrows ==
    /\ list' = NoList /\ awaits' = Released
    /\ Resume({f \in Files : awaits[f] # "no"}, FALSE, shown, transfers)
    /\ job' = IF awaits[Job] = "no" THEN job ELSE NoJob
    /\ UNCHANGED <<service, alive, shown>>

ListLost == list.asked /\ Happens /\ ListThrows

ListTooLate == list.reply.kind = "ok" /\ ~Usable /\ ListThrows /\ UNCHANGED events

\* Two seconds after the last poll ended.
PollFires ==
    /\ alive /\ ~Busy /\ awaits[Poll] = "no"
    /\ Refresh(Poll, list, awaits)
    /\ UNCHANGED <<service, alive, shown, transfers, tasks, job, events>>

-----------------------------------------------------------------------------
(* upload(), act({configure}) and save().                                  *)

\* The upload ends and the list is asked for, not waited for.
EndUpload(l, aw) ==
    /\ job' = NoJob
    /\ IF alive THEN Refresh(Loose, l, aw) ELSE list' = l /\ awaits' = aw

Goes(step, left) ==
    /\ job' = [job EXCEPT !.step = step, !.left = left, !.reply = Unserved]
    /\ list' = Outdated /\ awaits' = Stirred

\* Prepared: the import is listed as complete, is to be filled, or, when it was
\* retained and is not listed, stands for a copy that exists.
Prepared ==
    /\ job.step = "prepare"
    /\ \/ EndUpload(Outdated, Stirred)
       \/ job.resume /\ Goes("commit", 0)
       \/ Goes("piece", Pieces)

Committed == job.step = "commit" /\ EndUpload(Outdated, Stirred)

Configured ==
    /\ job.step = "configure"
    /\ job' = [job EXCEPT !.step = "list", !.reply = Unserved]
    /\ Refresh(Job, Outdated, Stirred)

JobAnswered ==
    /\ job.step \in {"prepare", "commit", "configure"} /\ job.reply.kind = "ok" /\ Usable
    /\ \E files \in {{}, Files} : shown' = Merged(job.reply, files)
    /\ Prepared \/ Committed \/ Configured
    /\ UNCHANGED <<service, alive, transfers, tasks, events>>

PieceTaken ==
    /\ job.step = "piece" /\ job.reply.kind = "ok" /\ Usable
    /\ job' = [job EXCEPT !.step = IF job.left = 1 THEN "commit" ELSE "piece",
                          !.left = job.left - 1, !.reply = Unserved]
    /\ UNCHANGED <<service, alive, shown, transfers, tasks, list, awaits, events>>

Saved ==
    /\ job.step = "save" /\ job.reply.kind = "ok"
    /\ job' = NoJob
    /\ UNCHANGED <<service, alive, shown, transfers, tasks, list, awaits, events>>

JobThrows ==
    /\ IF job.step \in {"configure", "save"} THEN job' = NoJob /\ UNCHANGED <<list, awaits>>
       ELSE EndUpload(list, awaits)
    /\ UNCHANGED <<service, alive, shown, transfers, tasks>>

JobLost == job.step \in Sent /\ Happens /\ JobThrows

JobTooLate ==
    job.step # "save" /\ job.reply.kind = "ok" /\ ~Usable /\ JobThrows /\ UNCHANGED events

-----------------------------------------------------------------------------
Next ==
    \/ \E f \in Files, action \in Actions : Act(f, action)
    \/ \E resume \in BOOLEAN : Upload(resume)
    \/ Configure \/ Save \/ Focus \/ Stop
    \/ \E f \in Files : Elsewhere(f)
    \/ \E f \in Files : ServeCommand(f)
    \/ ServeList \/ ServeJob
    \/ \E f \in Files : CommandAnswered(f)
    \/ \E f \in Files : CommandRefused(f)
    \/ \E f \in Files : CommandLost(f)
    \/ \E f \in Files : DelayEnds(f)
    \/ ListAnswered \/ ListLost \/ ListTooLate \/ PollFires
    \/ JobAnswered \/ PieceTaken \/ Saved \/ JobLost \/ JobTooLate

Spec == Init /\ [][Next]_vars

\* The service handles every request, every answer, delay and poll comes in the
\* end.  Nothing is assumed of the person, of other clients or of failures.
Fairness ==
    /\ \A f \in Files :
          /\ WF_vars(ServeCommand(f))
          /\ WF_vars(CommandAnswered(f))
          /\ WF_vars(CommandRefused(f))
          /\ WF_vars(DelayEnds(f))
    /\ WF_vars(ServeList) /\ WF_vars(ListAnswered) /\ WF_vars(ListTooLate)
    /\ WF_vars(ServeJob) /\ WF_vars(JobAnswered) /\ WF_vars(PieceTaken)
    /\ WF_vars(Saved) /\ WF_vars(JobTooLate)
    /\ WF_vars(PollFires)

FairSpec == Spec /\ Fairness

-----------------------------------------------------------------------------
Readings == [Files -> [state : States \cup {"unknown"}, at : Nat]]
Replies  == [kind : {"none", "refused", "ok"}, files : Readings]

\* The shape of the service, the view and its requests; a task sends a command
\* again at most Retries times, and is in refresh() when it says so.
TypeOK ==
    /\ server \in [Files -> States] /\ clock \in Nat
    /\ alive \in BOOLEAN
    /\ shown \in Readings
    /\ transfers \in [Files -> {"none", "pending", "idle", "error"}]
    /\ running \in [Files -> [action : Actions \cup {"none"}, attempt : 0..Retries,
                              step : {"idle", "command", "delay", "status", "final"},
                              reply : Replies]]
    /\ waiting \in [Files -> Actions \cup {"none"}]
    /\ list \in [asked : BOOLEAN, outdated : BOOLEAN, reply : Replies]
    /\ awaits \in [Waiters -> {"no", "own", "joined", "again"}]
    /\ job \in [step : Sent \cup {"none", "list"},
                left : 0..Pieces, resume : BOOLEAN, reply : Replies]
    /\ events \in 0..MaxEvents
    /\ \A f \in Files : running[f].step \in {"status", "final"} <=> awaits[f] # "no"
    /\ job.step = "list" <=> awaits[Job] # "no"

\* A transfer is shown as starting exactly while the newest action on its file
\* has not been answered: whatever supersedes, fails or retries, no "Starting..."
\* stays behind and none ends early (the test "shows transfer initiation
\* immediately and deduplicates double taps").
PendingIsUnderway ==
    alive => \A f \in Files :
        transfers[f] = "pending" <=>
            running[f] # NoTask /\ (waiting[f] # "none" \/ running[f].step # "final")

\* A list that will be shown was read no earlier than anything that is shown:
\* none takes back the answer of a command, an upload or another list.
ListIsNewer ==
    alive /\ list.reply.kind = "ok" /\ ~list.outdated =>
        \A f \in Files : shown[f].at <= list.reply.files[f].at

Sends(f) == running'[f].step = "command" /\ running[f] # running'[f] /\ running'[f].reply = Unserved

\* A command is sent only for the newest action the person asked for on the file:
\* a delayed or retried one never follows the one that replaced it (the test "a
\* later cancellation supersedes a delayed accept without automatic retry").
SupersededIsNotSent == [][\A f \in Files : Sends(f) => waiting'[f] = "none"]_vars

\* The requests under way.
Requests ==
    {<<"file", f, running[f].action, running[f].attempt>> :
        f \in {g \in Files : running[g].step = "command"}}
    \cup {<<"list">> : l \in {list.asked} \cap {TRUE}}
    \cup {<<"job", job.step, job.left>> : j \in {job.step} \ {"none", "list"}}

\* After stop() nothing more is sent: no retry, list, piece or commit (the test
\* "clears private view on lock and never commits an interrupted import").
StoppedSendsNothing == [][~alive => Requests' \subseteq Requests]_vars

\* When changes and failures end, the view shows what the service has: the poll
\* survives failed, outdated and shared lists, and busy times end.
ViewCatchesUp == <>[](alive => \A f \in Files : shown[f].state = server[f])

=============================================================================
