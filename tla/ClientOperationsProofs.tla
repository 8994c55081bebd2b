-------------------------- MODULE ClientOperationsProofs --------------------------
(***************************************************************************)
(* Theorems about ClientOperations for any operations and any bounds: its  *)
(* type, that nothing that was carried out is lost from sight, that an     *)
(* outcome acts on the view once (an invitation's twice at most), and that *)
(* the view keeps its promise.                                             *)
(***************************************************************************)
EXTENDS ClientOperations, TLAPS

-----------------------------------------------------------------------------
(* Type correctness.                                                       *)

Recordings == {"none", "open"} \cup Outcomes
Wires      == {"idle", "call", "waiting", "status"} \cup Replies
Awaiting   == SUBSET {"request", "check"}
Showings   == {"none", "pending", "unknown", "rejected", "complete"}

ServiceOK ==
    /\ open \in BOOLEAN /\ record \in [Ops -> Recordings]
    /\ effects \subseteq Ops /\ stray \subseteq Ops

WireOK == wire \in [Ops -> Wires] /\ waiters \in [Ops -> Awaiting]

ResultsOK ==
    /\ result \in [Ops -> Showings]
    /\ checked \subseteq Ops /\ delivered \subseteq Ops /\ acted \in [Ops -> Nat]

PageOK ==
    /\ locked \in BOOLEAN
    /\ retryable \subseteq Ops /\ pending \subseteq Ops
    /\ saved \subseteq Ops /\ autoChecked \subseteq Ops

CountsOK ==
    /\ retained \subseteq Ops
    /\ dismissed \subseteq Ops /\ answered \subseteq Ops /\ refused \subseteq Ops
    /\ asks \in [Ops -> Nat] /\ reloads \in Nat /\ locks \in Nat

LEMMA TypeParts ==
    /\ TypeOK <=> /\ ServiceOK /\ WireOK /\ ResultsOK /\ PageOK /\ CountsOK
                  /\ snapshot \in Snapshots
    /\ TypeOK' <=> /\ ServiceOK' /\ WireOK' /\ ResultsOK' /\ PageOK' /\ CountsOK'
                   /\ snapshot' \in Snapshots
  BY DEF TypeOK, ServiceOK, WireOK, ResultsOK, PageOK, CountsOK, Recordings, Wires, Awaiting,
         Showings

LEMMA ShownIs == \A code : Shown(code) \in {"rejected", "unknown"}
  BY DEF Shown

LEMMA BegunType ==
    ASSUME NEW op \in Ops, result \in [Ops -> Showings]
    PROVE  /\ Begun(op) \in [Ops -> Showings]
           /\ Begun(op)[op] # "none"
           /\ \A o \in Ops : result[o] # "none" => Begun(op)[o] = result[o]
           /\ \A o \in Ops : Begun(op)[o] \in {result[o], "pending"}
  BY DEF Begun, Showings

LEMMA WithErrorType ==
    ASSUME NEW op \in Ops, NEW code, NEW res \in [Ops -> Showings]
    PROVE  /\ WithError(res, op, code) \in [Ops -> Showings]
           /\ \A o \in Ops : WithError(res, op, code)[o] \in
                  {res[o]} \cup (IF o = op THEN {Shown(code)} ELSE {})
           /\ \A o \in Ops : res[o] = "complete" => WithError(res, op, code)[o] = "complete"
  BY ShownIs DEF WithError, Showings

LEMMA CheckedByType ==
    ASSUME NEW op \in Ops, NEW res, checked \subseteq Ops
    PROVE  CheckedBy(res, op) \subseteq Ops
  BY DEF CheckedBy

LEMMA NoSnapshotType == NoSnapshot \in Snapshots /\ [NoSnapshot EXCEPT !.stage = "asked"] \in Snapshots
  <1>1. NoSnapshot \in Snapshots
    BY DEF NoSnapshot, Snapshots, Details
  <1>2. \A s \in Snapshots : [s EXCEPT !.stage = "asked"] \in Snapshots
    BY DEF Snapshots
  <1>. QED
    BY <1>1, <1>2

LEMMA DetailType ==
    ASSUME ServiceOK, NEW op \in Ops
    PROVE  /\ Detail(op) \in Details
           /\ Detail(op) = "complete" => record[op] = "applied"
           /\ Detail(op) = "rejected" => record[op] = "rejected"
  BY DEF ServiceOK, Recordings, Outcomes, Detail, Details

LEMMA RestoredType ==
    ASSUME NEW op \in Ops, NEW detail \in Details, result \in [Ops -> Showings]
    PROVE  /\ Restored(op, detail) \in Showings
           /\ Restored(op, detail) \in {result[op], detail}
           /\ result[op] = "complete" => Restored(op, detail) = "complete"
  BY DEF Restored, Showings, Details

LEMMA BlankType ==
    ASSUME BlankView
    PROVE  /\ ResultsOK'
           /\ retryable' \subseteq Ops /\ pending' \subseteq Ops /\ autoChecked' \subseteq Ops
           /\ \A op \in Ops : result'[op] = "none" /\ acted'[op] = 0
  BY DEF BlankView, ResultsOK, Cleared, Uncounted, Showings

\* What is left of the exchange when it ends.
LEMMA EndType ==
    ASSUME WireOK, pending \subseteq Ops, NEW op \in Ops, EndExchange(op)
    PROVE  /\ WireOK' /\ pending' \subseteq Ops
           /\ wire'[op] = "idle" /\ \A o \in Ops : o # op => wire'[o] = wire[o]
  BY DEF WireOK, EndExchange, Wires, Awaiting

LEMMA DeliverType ==
    ASSUME ResultsOK, NEW op \in Ops, Deliver(op)
    PROVE  /\ ResultsOK'
           /\ \A o \in Ops : o # op => result'[o] = result[o]
           /\ result'[op] \in {result[op], "complete"}
  <1>1. Firsts(op) \subseteq {0, 1} /\ Again(op) \subseteq {0, 1}
    BY DEF Firsts, Again
  <1>2. PICK first \in Firsts(op), again \in Again(op) :
           acted' = [acted EXCEPT ![op] = @ + first + again]
    BY DEF Deliver
  <1>3. acted' \in [Ops -> Nat]
    BY <1>1, <1>2 DEF ResultsOK
  <1>4. /\ result' \in [Ops -> Showings] /\ checked' \subseteq Ops /\ delivered' \subseteq Ops
        /\ \A o \in Ops : o # op => result'[o] = result[o]
        /\ result'[op] \in {result[op], "complete"}
    BY DEF ResultsOK, Deliver, Showings
  <1>. QED
    BY <1>3, <1>4 DEF ResultsOK

\* The steps of the person.
LEMMA TypePerson ==
    ASSUME TypeOK, NEW op \in Ops, Person(op)
    PROVE  TypeOK'
  <1>. USE TypeParts
  <1>1. CASE Ask(op)
    <2>1. asks' \in [Ops -> Nat] /\ retryable' \subseteq Ops /\ retained' \subseteq Ops
      BY <1>1 DEF Ask, Asking, Retain, CountsOK, PageOK
    <2>2. result' \in [Ops -> Showings]
      BY <1>1, BegunType DEF Ask, ResultsOK
    <2>3. WireOK'
      BY <1>1 DEF Ask, WireOK, Wires, Awaiting
    <2>. QED
      BY <1>1, <2>1, <2>2, <2>3
         DEF Ask, service, ServiceOK, ResultsOK, PageOK, history, CountsOK
  <1>2. CASE AskConflicts(op)
    <2>1. asks' \in [Ops -> Nat] /\ retryable' \subseteq Ops
      BY <1>2 DEF AskConflicts, Asking, CountsOK, PageOK
    <2>2. result' \in [Ops -> Showings] /\ checked' \subseteq Ops
      BY <1>2, BegunType, WithErrorType, CheckedByType DEF AskConflicts, ResultsOK
    <2>. QED
      BY <1>2, <2>1, <2>2
         DEF AskConflicts, service, ServiceOK, ResultsOK, WireOK, PageOK, history, CountsOK
  <1>3. CASE Check(op)
    <2>1. result' \in [Ops -> Showings]
      BY <1>3, BegunType DEF Check, ResultsOK
    <2>2. WireOK'
      BY <1>3 DEF Check, WireOK, Wires, Awaiting
    <2>. QED
      BY <1>3, <2>1, <2>2
         DEF Check, service, ServiceOK, ResultsOK, PageOK, bounds, history, CountsOK
  <1>4. CASE CheckFindsNothing(op)
    <2>1. result' \in [Ops -> Showings] /\ checked' \subseteq Ops
      BY <1>4, BegunType, WithErrorType, CheckedByType DEF CheckFindsNothing, ResultsOK
    <2>. QED
      BY <1>4, <2>1
         DEF CheckFindsNothing, service, ServiceOK, ResultsOK, WireOK, PageOK, bounds, history,
             CountsOK
  <1>5. CASE Dismiss(op)
    BY <1>5 DEF Dismiss, service, results, ServiceOK, ResultsOK, WireOK, PageOK, bounds, CountsOK
  <1>. QED
    BY <1>1, <1>2, <1>3, <1>4, <1>5 DEF Person

\* The records after a failure.
LEMMA FailsType ==
    ASSUME TypeOK, NEW op \in Ops, NEW code, Fails(op, code)
    PROVE  /\ ResultsOK' /\ PageOK' /\ WireOK' /\ UNCHANGED <<bounds, dismissed, refused, snapshot>>
           /\ \A o \in Ops : o # op => wire'[o] = wire[o]
           /\ wire'[op] = "idle"
           /\ \A o \in Ops : result'[o] \in {result[o]} \cup
                                 (IF o = op THEN {Shown(code)} ELSE {})
           /\ \A o \in Ops : result[o] = "complete" => result'[o] = "complete"
           /\ UNCHANGED <<delivered, acted>>
  <1>. USE TypeParts
  <1>1. /\ WireOK' /\ pending' \subseteq Ops
        /\ wire'[op] = "idle" /\ \A o \in Ops : o # op => wire'[o] = wire[o]
    BY EndType DEF Fails, PageOK
  <1>2. /\ result' \in [Ops -> Showings] /\ checked' \subseteq Ops
        /\ \A o \in Ops : result'[o] \in {result[o]} \cup
                              (IF o = op THEN {Shown(code)} ELSE {})
        /\ \A o \in Ops : result[o] = "complete" => result'[o] = "complete"
    <2>1. CASE Records(op)
      BY <2>1, WithErrorType, CheckedByType DEF Fails, ResultsOK
    <2>2. CASE ~Records(op)
      BY <2>2 DEF Fails, ResultsOK
    <2>. QED
      BY <2>1, <2>2
  <1>3. retryable' \subseteq Ops
    BY DEF Fails, PageOK
  <1>. QED
    BY <1>1, <1>2, <1>3 DEF Fails, ResultsOK, PageOK

\* The ends of an exchange.
LEMMA TypeExchange ==
    ASSUME TypeOK, NEW op \in Ops, Exchange(op)
    PROVE  TypeOK'
  <1>. USE TypeParts
  <1>1. CASE Succeeds(op)
    <2>1. WireOK' /\ pending' \subseteq Ops
      BY <1>1, EndType DEF Succeeds, PageOK
    <2>2. ResultsOK'
      BY <1>1, DeliverType DEF Succeeds
    <2>3. saved' \subseteq Ops /\ retryable' \subseteq Ops
      BY <1>1 DEF Succeeds, PageOK
    <2>. QED
      BY <1>1, <2>1, <2>2, <2>3
         DEF Succeeds, service, ServiceOK, PageOK, bounds, CountsOK
  <1>2. CASE FailureArrives(op)
    <2>1. ResultsOK' /\ PageOK' /\ WireOK' /\ UNCHANGED <<bounds, dismissed, refused, snapshot>>
      BY <1>2, FailsType DEF FailureArrives
    <2>2. retained' \subseteq Ops /\ answered' \subseteq Ops
      BY <1>2 DEF FailureArrives, KeepHandle, CountsOK
    <2>. QED
      BY <1>2, <2>1, <2>2 DEF FailureArrives, service, ServiceOK, bounds, CountsOK
  <1>3. CASE ExchangeBreaks(op)
    <2>1. ResultsOK' /\ PageOK' /\ WireOK' /\ UNCHANGED <<bounds, dismissed, refused, snapshot>>
      BY <1>3, FailsType DEF ExchangeBreaks
    <2>. QED
      BY <1>3, <2>1 DEF ExchangeBreaks, ServiceOK, bounds, CountsOK
  <1>. QED
    BY <1>1, <1>2, <1>3 DEF Exchange

\* The steps of the service.
LEMMA TypeService ==
    ASSUME TypeOK, NEW op \in Ops, Service(op)
    PROVE  TypeOK'
  <1>. USE TypeParts
  <1>1. /\ ServiceOK' /\ WireOK'
        /\ refused' \subseteq Ops /\ UNCHANGED <<view, snapshot, bounds, retained, dismissed, answered>>
    <2>1. CASE CallArrives(op)
      BY <2>1 DEF CallArrives, Admit, ServiceOK, WireOK, Recordings, Wires, Replies, Failures,
                  history, CountsOK
    <2>2. CASE CallRefused(op)
      BY <2>2 DEF CallRefused, ServiceOK, service, WireOK, Wires, Replies, Failures, CountsOK
    <2>3. CASE StrayArrives(op)
      BY <2>3 DEF StrayArrives, Admit, ServiceOK, WireOK, Recordings, history, CountsOK
    <2>4. CASE Finish(op)
      BY <2>4 DEF Finish, ServiceOK, WireOK, Recordings, Outcomes, history, CountsOK
    <2>5. CASE Respond(op)
      <3>1. (IF open THEN record[op] ELSE "shut") \in Wires
        BY <2>5 DEF Respond, Outcomes, Wires, Replies, Failures
      <3>. QED
        BY <2>5, <3>1 DEF Respond, ServiceOK, service, WireOK, history, CountsOK
    <2>6. CASE StatusArrives(op)
      <3>1. (IF ~open THEN "shut" ELSE IF record[op] = "none" THEN "unknown" ELSE "waiting")
               \in Wires
        BY DEF Wires, Replies, Failures
      <3>. QED
        BY <2>6, <3>1 DEF StatusArrives, ServiceOK, service, WireOK, history, CountsOK
    <2>. QED
      BY <2>1, <2>2, <2>3, <2>4, <2>5, <2>6 DEF Service
  <1>. QED
    BY <1>1 DEF view, results, bounds, ResultsOK, PageOK, CountsOK

\* What the view looks at in a snapshot.
LEMMA OpensType ==
    ASSUME TypeOK, SnapshotOpens
    PROVE  /\ WireOK' /\ ResultsOK' /\ PageOK' /\ snapshot' = NoSnapshot
           /\ UNCHANGED <<service, retained, bounds, history, delivered, acted>>
           /\ \A op \in Ops :
                 /\ wire'[op] = wire[op] \/ (wire[op] = "idle" /\ wire'[op] = "status")
                 /\ result'[op] \in {result[op], snapshot.details[op], "pending"}
                 /\ result[op] = "complete" => result'[op] = "complete"
  <1>. USE TypeParts
  <1>. DEFINE left   == {op \in retained : wire[op] = "idle" /\ op \notin pending}
              check  == {op \in left : op \notin autoChecked}
              after  == [op \in Ops |-> Restored(op, snapshot.details[op])]
  <1>1. \A op \in Ops : snapshot.details[op] \in Details
    BY DEF Snapshots
  <1>2. \A op \in Ops : /\ after[op] \in Showings
                        /\ after[op] \in {result[op], snapshot.details[op]}
                        /\ result[op] = "complete" => after[op] = "complete"
    BY <1>1, RestoredType DEF ResultsOK
  <1>3. left \subseteq Ops /\ check \subseteq left
    BY DEF CountsOK
  <1>4. /\ wire' = [op \in Ops |-> IF op \in check THEN "status" ELSE wire[op]]
        /\ waiters' = [op \in Ops |-> IF op \in check THEN {"check"} ELSE waiters[op]]
        /\ result' = [op \in Ops |-> IF op \in check /\ after[op] = "none"
                                     THEN "pending" ELSE after[op]]
        /\ checked' = {op \in checked : after[op] = result[op]}
        /\ saved' = left /\ autoChecked' = autoChecked \cup check
        /\ locked' = FALSE /\ snapshot' = NoSnapshot
        /\ UNCHANGED <<service, retained, delivered, acted, retryable, pending, bounds, history>>
    BY DEF SnapshotOpens
  <1>5. \A op \in check : wire[op] = "idle"
    OBVIOUS
  <1>. HIDE DEF left, check, after
  <1>6. WireOK'
    BY <1>4 DEF WireOK, Wires, Awaiting
  <1>7. ResultsOK'
    BY <1>2, <1>4 DEF ResultsOK, Showings
  <1>8. PageOK'
    BY <1>3, <1>4 DEF PageOK
  <1>9. \A op \in Ops : /\ wire'[op] = wire[op] \/ (wire[op] = "idle" /\ wire'[op] = "status")
                        /\ result'[op] \in {result[op], snapshot.details[op], "pending"}
                        /\ result[op] = "complete" => result'[op] = "complete"
    BY <1>2, <1>4, <1>5
  <1>. QED
    BY <1>4, <1>6, <1>7, <1>8, <1>9

\* The steps of snapshots, locks and reloads.
LEMMA TypeView ==
    ASSUME TypeOK,
           \/ AskSnapshot \/ AnswerSnapshot \/ SnapshotShut \/ SnapshotOpens \/ SnapshotLost
           \/ LockReply \/ UnlockReply \/ Reload
           \/ ServiceLocks \/ ServiceOpens \/ UNCHANGED vars
    PROVE  TypeOK'
  <1>. USE TypeParts, NoSnapshotType
  <1>1. CASE AskSnapshot \/ SnapshotLost
    BY <1>1 DEF AskSnapshot, SnapshotLost, service, view, results, bounds, history,
                ServiceOK, WireOK, ResultsOK, PageOK, CountsOK
  <1>2. CASE AnswerSnapshot
    <2>. DEFINE details == [op \in Ops |-> IF open THEN Detail(op) ELSE "absent"]
    <2>1. details \in [Ops -> Details]
      BY DetailType DEF Details
    <2>2. (~open) \in BOOLEAN
      OBVIOUS
    <2>3. snapshot' = [stage |-> "here", shut |-> ~open, details |-> details]
      BY <1>2 DEF AnswerSnapshot
    <2>. HIDE DEF details
    <2>4. snapshot' \in Snapshots
      BY <2>1, <2>2, <2>3 DEF Snapshots
    <2>. QED
      BY <1>2, <2>4 DEF AnswerSnapshot, service, view, results, bounds, history,
                        ServiceOK, WireOK, ResultsOK, PageOK, CountsOK
  <1>3. CASE SnapshotShut
    <2>1. /\ ResultsOK' /\ retryable' \subseteq Ops /\ pending' \subseteq Ops
          /\ autoChecked' \subseteq Ops
      BY <1>3, BlankType DEF SnapshotShut, results, ResultsOK, PageOK
    <2>. QED
      BY <1>3, <2>1
         DEF SnapshotShut, service, bounds, history, ServiceOK, WireOK, PageOK, CountsOK
  <1>4. CASE SnapshotOpens
    BY <1>4, OpensType DEF service, bounds, history, ServiceOK, CountsOK
  <1>5. CASE LockReply
    BY <1>5, BlankType
       DEF LockReply, service, bounds, history, ServiceOK, WireOK, PageOK, CountsOK
  <1>6. CASE UnlockReply
    BY <1>6 DEF UnlockReply, service, results, bounds, history,
                ServiceOK, WireOK, ResultsOK, PageOK, CountsOK
  <1>7. CASE Reload
    <2>1. WireOK'
      BY <1>7 DEF Reload, WireOK, Wires, Awaiting
    <2>2. ServiceOK'
      BY <1>7 DEF Reload, ServiceOK
    <2>3. CountsOK'
      BY <1>7 DEF Reload, history, CountsOK
    <2>4. ResultsOK' /\ PageOK'
      BY <1>7, BlankType DEF Reload, PageOK
    <2>. QED
      BY <1>7, <2>1, <2>2, <2>3, <2>4 DEF Reload
  <1>8. CASE ServiceLocks \/ ServiceOpens
    <2>1. ServiceOK'
      BY <1>8 DEF ServiceLocks, ServiceOpens, ServiceOK
    <2>3. UNCHANGED <<retained, asks, reloads, history>> /\ locks' \in Nat
      <3>1. locks \in Nat
        BY DEF CountsOK
      <3>. QED
        BY <1>8, <3>1 DEF ServiceLocks, ServiceOpens, bounds
    <2>4. CountsOK'
      BY <2>3 DEF history, CountsOK
    <2>2. UNCHANGED <<wire, waiters, view, snapshot>>
      BY <1>8 DEF ServiceLocks, ServiceOpens
    <2>. QED
      BY <2>1, <2>2, <2>4 DEF view, results, WireOK, ResultsOK, PageOK
  <1>9. CASE UNCHANGED vars
    BY <1>9 DEF vars, service, view, results, bounds, history,
                ServiceOK, WireOK, ResultsOK, PageOK, CountsOK
  <1>. QED
    BY <1>1, <1>2, <1>3, <1>4, <1>5, <1>6, <1>7, <1>8, <1>9

LEMMA TypeStep ==
    ASSUME TypeOK, [Next]_vars
    PROVE  TypeOK'
  BY TypePerson, TypeExchange, TypeService, TypeView DEF Next

LEMMA TypeInit == Init => TypeOK
  <1>. SUFFICES ASSUME Init PROVE TypeOK
    OBVIOUS
  <1>1. ServiceOK /\ WireOK
    BY DEF Init, Cleared, ServiceOK, WireOK, Recordings, Wires, Awaiting
  <1>2. ResultsOK /\ PageOK /\ CountsOK
    BY DEF Init, Cleared, Uncounted, ResultsOK, Showings, PageOK, CountsOK
  <1>. QED
    BY <1>1, <1>2, TypeParts, NoSnapshotType DEF Init

\* The journal, the handles, the exchanges and the view's records keep their
\* shape (rpc-transport.ts, operation-results.ts).
THEOREM TypeCorrect == Spec => []TypeOK
  <1>1. TypeOK /\ [Next]_vars => TypeOK'
    BY TypeStep
  <1>. QED
    BY TypeInit, <1>1, PTL DEF Spec

-----------------------------------------------------------------------------
(* The inductive invariant.                                                *)

\* The view can still ask about the operation, has its outcome or gave it up.
Known(op) == op \in retained \cup answered \cup dismissed

\* What the journal says of an operation and what became of it.
Recorded ==
    \A op \in Ops :
        /\ record[op] = "applied" => op \in effects
        /\ record[op] \in {"none", "open", "rejected"} => op \notin effects

\* Whatever may reach the service, or has, is known.
Sent == \A op \in Ops : wire[op] = "call" \/ op \in stray \/ record[op] # "none" => Known(op)

\* A submission is called once, so that a refused call, a stray one and one
\* under way exclude each other and an admission.
Once ==
    \A op \in Sends :
        /\ asks[op] = 0 => /\ wire[op] # "call" /\ op \notin stray \cup refused
                           /\ record[op] = "none"
        /\ wire[op] = "call" => op \notin stray \cup refused /\ record[op] = "none"
        /\ op \in stray => op \notin refused /\ record[op] = "none"
        /\ op \in refused => record[op] = "none"

\* What is on its way to the view is true.
Answers ==
    \A op \in Ops :
        /\ wire[op] = "applied" => op \in effects
        /\ wire[op] = "rejected" => record[op] = "rejected"
        /\ wire[op] = "refused" => op \in refused

Snaps ==
    \A op \in Ops :
        /\ snapshot.details[op] = "complete" => op \in effects
        /\ snapshot.details[op] = "rejected" => record[op] = "rejected"

\* And so is what it shows.
Told ==
    \A op \in Ops :
        /\ result[op] = "complete" => op \in effects
        /\ op \in Sends /\ result[op] = "rejected" => record[op] = "rejected" \/ op \in refused

\* How often an outcome may have acted: once for whoever delivered it first, and
\* once for the form of an invitation that has its answer and is not sent again.
Spent(op) ==
    op \in NetJoins /\ asks[op] # 0 /\ op \notin retryable /\ "request" \notin waiters[op]

Allowed(op) == (IF op \in delivered THEN 1 ELSE 0) + (IF Spent(op) THEN 1 ELSE 0)

Acts ==
    \A op \in Ops :
        /\ acted[op] <= Allowed(op)
        /\ "request" \in waiters[op] => asks[op] # 0

Inv == TypeOK /\ Recorded /\ Sent /\ Once /\ Answers /\ Snaps /\ Told /\ Acts

Facts == Recorded /\ Sent /\ Once /\ Answers /\ Snaps /\ Told /\ Acts

\* What is decided stays so, and "complete" is only forgotten with the rest.
Lasts ==
    /\ \A op \in Ops : /\ op \in effects => op \in effects'
                       /\ op \in refused => op \in refused'
                       /\ record[op] = "rejected" => record'[op] = "rejected"
    /\ \/ \A op \in Ops : result[op] = "complete" => result'[op] = "complete"
       \/ locked' /\ \A op \in Ops : result'[op] = "none"

LEMMA AllowedIs ==
    ASSUME NEW op \in Ops
    PROVE  /\ Allowed(op) \in 0..2 /\ Allowed(op)' \in 0..2
           /\ op \notin NetJoins => Allowed(op) \in 0..1
  BY DEF Allowed, Spent

\* A step in which no outcome acts.
LEMMA ActsKept ==
    ASSUME TypeOK, Acts,
           \A o \in Ops :
              /\ acted'[o] = 0 \/ (acted'[o] = acted[o] /\ (o \in delivered => o \in delivered'))
              /\ Spent(o) => Spent(o)'
              /\ "request" \in waiters'[o] => "request" \in waiters[o] \/ asks'[o] # 0
              /\ asks[o] # 0 => asks'[o] # 0
    PROVE  Acts'
  <1>. SUFFICES ASSUME NEW o \in Ops
                PROVE  /\ acted'[o] <= Allowed(o)'
                       /\ "request" \in waiters'[o] => asks'[o] # 0
    BY DEF Acts
  <1>1. "request" \in waiters'[o] => asks'[o] # 0
    BY DEF Acts
  <1>2. acted[o] \in Nat
    BY TypeParts DEF ResultsOK
  <1>3. ASSUME acted'[o] = acted[o], o \in delivered => o \in delivered'
        PROVE  acted'[o] <= Allowed(o)'
    <2>1. acted[o] <= Allowed(o) /\ (Spent(o) => Spent(o)')
      BY DEF Acts
    <2>2. Allowed(o) <= Allowed(o)'
      <3>. HIDE DEF Spent
      <3>. QED
        BY <1>3, <2>1 DEF Allowed
    <2>. QED
      BY <1>2, <1>3, <2>1, <2>2, AllowedIs
  <1>. QED
    BY <1>1, <1>3, AllowedIs

\* The answer of one operation acts, whoever hears it.
LEMMA ActsDelivered ==
    ASSUME TypeOK, Acts, NEW op \in Ops, Succeeds(op)
    PROVE  Acts'
  <1>. USE TypeParts
  <1>1. PICK first \in Firsts(op), again \in Again(op) :
           acted' = [acted EXCEPT ![op] = @ + first + again]
    BY DEF Succeeds, Deliver
  <1>2. /\ asks' = asks /\ waiters' = [waiters EXCEPT ![op] = {}]
        /\ retryable' = IF "request" \in waiters[op] /\ ~locked
                        THEN retryable \ {op} ELSE retryable
        /\ delivered' = IF Completes(op) THEN delivered \cup {op} ELSE delivered
    BY DEF Succeeds, bounds, EndExchange, Deliver
  <1>3. acted \in [Ops -> Nat] /\ waiters \in [Ops -> Awaiting]
    BY DEF ResultsOK, WireOK
  <1>4. /\ first \in {0, 1} /\ again \in {0, 1}
        /\ first = 1 => Completes(op) /\ op \notin delivered
        /\ again = 1 => op \in NetJoins /\ "request" \in waiters[op] /\ ~locked
    <2>1. Hears(op) \ {"request"} # Hears(op) => "request" \in waiters[op] /\ (op \in Sends \/ ~locked)
      BY DEF Hears
    <2>2. op \in NetJoins => op \notin Sends
      BY OperationsAssumption DEF Retried
    <2>. QED
      BY <2>1, <2>2 DEF Firsts, Again, Careful
  <1>5. ASSUME NEW o \in Ops, o # op
        PROVE  /\ acted'[o] <= Allowed(o)'
               /\ "request" \in waiters'[o] => asks'[o] # 0
    <2>1. /\ acted'[o] = acted[o] /\ waiters'[o] = waiters[o]
          /\ o \in retryable' <=> o \in retryable
          /\ o \in delivered' <=> o \in delivered
      BY <1>1, <1>2, <1>3, <1>5
    <2>2. Allowed(o)' = Allowed(o)
      BY <1>2, <2>1 DEF Allowed, Spent
    <2>. QED
      BY <1>2, <2>1, <2>2 DEF Acts
  <1>6. "request" \notin waiters'[op]
    BY <1>2, <1>3
  <1>7. acted'[op] <= Allowed(op)'
    <2>1. acted'[op] = acted[op] + first + again /\ acted[op] \in Nat /\ acted[op] <= Allowed(op)
      BY <1>1, <1>3 DEF Acts
    <2>2. Spent(op) => Spent(op)'
      BY <1>2, <1>6 DEF Spent
    <2>3. again = 1 => ~Spent(op) /\ Spent(op)'
      BY <1>2, <1>4, <1>6 DEF Spent, Acts
    <2>4. op \in delivered => op \in delivered'
      BY <1>2
    <2>5. first = 1 => op \notin delivered /\ op \in delivered'
      BY <1>2, <1>4
    <2>. DEFINE D == IF op \in delivered THEN 1 ELSE 0
                E == IF op \in delivered' THEN 1 ELSE 0
                S == IF Spent(op) THEN 1 ELSE 0
                T == IF Spent(op)' THEN 1 ELSE 0
    <2>6. D + first <= E /\ S + again <= T
      BY <1>4, <2>2, <2>3, <2>4, <2>5
    <2>7. Allowed(op) = D + S /\ Allowed(op)' = E + T
      BY DEF Allowed
    <2>8. D \in {0, 1} /\ E \in {0, 1} /\ S \in {0, 1} /\ T \in {0, 1}
      OBVIOUS
    <2>. HIDE DEF D, E, S, T
    <2>. QED
      BY <1>4, <2>1, <2>6, <2>7, <2>8
  <1>. QED
    BY <1>5, <1>6, <1>7 DEF Acts

\* A person asks, checks or dismisses.
LEMMA PersonFacts ==
    ASSUME TypeOK, Facts, NEW op \in Ops, Person(op)
    PROVE  Facts' /\ Lasts
  <1>. USE TypeParts
  <1>1. /\ UNCHANGED <<service, answered, refused, snapshot, delivered, acted>>
        /\ \A o \in Ops : Known(o) => Known(o)'
    BY DEF Person, Ask, AskConflicts, Check, CheckFindsNothing, Dismiss, Retain, history,
           results, Known
  <1>2. \A o \in Ops : /\ result'[o] \in {result[o], "pending", "unknown"}
                       /\ result[o] = "complete" => result'[o] = "complete"
    <2>1. CASE Ask(op) \/ Check(op)
      BY <2>1, BegunType DEF Ask, Check, ResultsOK
    <2>2. CASE AskConflicts(op) \/ CheckFindsNothing(op)
      <3>1. Shown("conflict") = "unknown" /\ Shown("missing") = "unknown"
        BY DEF Shown, NotCarriedOut
      <3>2. Begun(op) \in [Ops -> Showings]
        BY BegunType DEF ResultsOK
      <3>3. result' \in {Begun(op), WithError(Begun(op), op, "conflict"),
                         WithError(Begun(op), op, "missing")}
        BY <2>2 DEF AskConflicts, CheckFindsNothing
      <3>4. \A o \in Ops : /\ result'[o] \in {Begun(op)[o], "unknown"}
                           /\ Begun(op)[o] = "complete" => result'[o] = "complete"
        BY <3>1, <3>2, <3>3, WithErrorType
      <3>. QED
        BY <3>4, BegunType DEF ResultsOK
    <2>3. CASE Dismiss(op)
      BY <2>3 DEF Dismiss, results
    <2>. QED
      BY <2>1, <2>2, <2>3 DEF Person
  <1>3. /\ \A o \in Ops : o # op => wire'[o] = wire[o] /\ asks'[o] = asks[o]
        /\ asks'[op] = 0 => asks[op] = 0
        /\ wire'[op] = "call" => wire[op] = "call" \/ asks'[op] # 0
        /\ \/ wire'[op] = wire[op]
           \/ wire'[op] = "status"
           \/ wire'[op] = "call" /\ Ask(op)
    <2>1. CASE Ask(op)
      BY <2>1 DEF Ask, Asking, WireOK, CountsOK
    <2>2. CASE AskConflicts(op)
      BY <2>2 DEF AskConflicts, Asking, CountsOK
    <2>3. CASE Check(op)
      BY <2>3 DEF Check, WireOK, bounds
    <2>4. CASE CheckFindsNothing(op) \/ Dismiss(op)
      BY <2>4 DEF CheckFindsNothing, Dismiss, bounds
    <2>. QED
      BY <2>1, <2>2, <2>3, <2>4 DEF Person
  <1>4. Ask(op) => Known(op)' /\ (op \in Sends => asks[op] = 0)
    BY DEF Ask, Asking, MayAsk, Retain, Known, CountsOK
  <1>8. Acts'
    <2>1. /\ \A o \in Ops : /\ asks[o] # 0 => asks'[o] # 0
                            /\ "request" \in waiters'[o] =>
                                  "request" \in waiters[o] \/ asks'[o] # 0
                            /\ o # op => waiters'[o] = waiters[o] /\ asks'[o] = asks[o]
                                         /\ (o \in retryable' <=> o \in retryable)
          /\ Spent(op) => waiters'[op] \ {"check"} = waiters[op] \ {"check"} /\ asks'[op] = asks[op]
                          /\ (op \in retryable' <=> op \in retryable)
      <3>1. CASE Ask(op)
        BY <3>1 DEF Ask, Asking, MayAsk, WireOK, CountsOK, Spent
      <3>2. CASE AskConflicts(op)
        BY <3>2 DEF AskConflicts, Asking, MayAsk, WireOK, CountsOK, Spent
      <3>3. CASE Check(op)
        BY <3>3 DEF Check, WireOK, bounds
      <3>4. CASE CheckFindsNothing(op) \/ Dismiss(op)
        BY <3>4 DEF CheckFindsNothing, Dismiss, bounds
      <3>. QED
        BY <3>1, <3>2, <3>3, <3>4 DEF Person
    <2>2. \A o \in Ops : Spent(o) => Spent(o)'
      BY <2>1 DEF Spent
    <2>. QED
      BY <1>1, <2>1, <2>2, ActsKept DEF Facts
  <1>5. Recorded' /\ Snaps' /\ Told' /\ Lasts
    BY <1>1, <1>2 DEF Facts, service, Recorded, Snaps, Told, Lasts
  <1>6. Sent' /\ Answers'
    BY <1>1, <1>3, <1>4 DEF Facts, service, Sent, Answers
  <1>7. Once'
    BY <1>1, <1>3, <1>4 DEF Facts, service, Once, Ops
  <1>. QED
    BY <1>5, <1>6, <1>7, <1>8 DEF Facts

\* An exchange ends.
LEMMA ExchangeFacts ==
    ASSUME TypeOK, Facts, NEW op \in Ops, Exchange(op)
    PROVE  Facts' /\ Lasts
  <1>. USE TypeParts
  <1>1. /\ UNCHANGED <<open, record, effects, dismissed, refused, asks, snapshot>>
        /\ wire'[op] = "idle"
        /\ \A o \in Ops : o # op => wire'[o] = wire[o]
    <2>1. CASE Succeeds(op)
      BY <2>1, EndType DEF Succeeds, service, bounds, PageOK
    <2>2. CASE FailureArrives(op)
      BY <2>2, FailsType DEF FailureArrives, service, bounds
    <2>3. CASE ExchangeBreaks(op)
      BY <2>3, FailsType DEF ExchangeBreaks, bounds
    <2>. QED
      BY <2>1, <2>2, <2>3 DEF Exchange
  <1>2. /\ \A o \in Ops : /\ o # op => result'[o] = result[o]
                          /\ result[o] = "complete" => result'[o] = "complete"
        /\ \/ result'[op] \in {result[op], "unknown"}
           \/ result'[op] = "complete" /\ wire[op] = "applied"
           \/ result'[op] = "rejected" /\ wire[op] \in {"rejected", "refused"}
    <2>1. CASE Succeeds(op)
      BY <2>1, DeliverType DEF Succeeds
    <2>2. CASE FailureArrives(op)
      <3>1. \A o \in Ops : /\ result'[o] \in {result[o]} \cup
                                 (IF o = op THEN {Shown(wire[op])} ELSE {})
                           /\ result[o] = "complete" => result'[o] = "complete"
        BY <2>2, FailsType DEF FailureArrives
      <3>2. \/ Shown(wire[op]) = "unknown"
            \/ Shown(wire[op]) = "rejected" /\ wire[op] \in {"rejected", "refused"}
        BY DEF Shown, NotCarriedOut
      <3>. QED
        BY <3>1, <3>2
    <2>3. CASE ExchangeBreaks(op)
      <3>1. \A o \in Ops : /\ result'[o] \in {result[o]} \cup
                                 (IF o = op THEN {Shown("lost")} ELSE {})
                           /\ result[o] = "complete" => result'[o] = "complete"
        BY <2>3, FailsType DEF ExchangeBreaks
      <3>2. Shown("lost") = "unknown"
        BY DEF Shown, NotCarriedOut
      <3>. QED
        BY <3>1, <3>2
    <2>. QED
      BY <2>1, <2>2, <2>3 DEF Exchange
  <1>3. \/ stray' = stray
        \/ wire[op] = "call" /\ stray' = stray \cup {op}
    BY DEF Exchange, Succeeds, FailureArrives, ExchangeBreaks, service
  <1>4. \A o \in Ops : Known(o) => Known(o)'
    <2>1. CASE Succeeds(op)
      BY <2>1 DEF Succeeds, Known
    <2>2. CASE FailureArrives(op)
      BY <1>1, <2>2 DEF FailureArrives, KeepHandle, Known
    <2>3. CASE ExchangeBreaks(op)
      BY <1>1, <2>3 DEF ExchangeBreaks, Known
    <2>. QED
      BY <2>1, <2>2, <2>3 DEF Exchange
  <1>5. Acts'
    <2>1. CASE Succeeds(op)
      BY <2>1, ActsDelivered DEF Facts
    <2>2. CASE FailureArrives(op) \/ ExchangeBreaks(op)
      <3>1. PICK code : Fails(op, code)
        BY <2>2 DEF FailureArrives, ExchangeBreaks
      <3>2. UNCHANGED <<delivered, acted, asks>>
        BY <3>1, FailsType DEF bounds
      <3>3. /\ waiters' = [waiters EXCEPT ![op] = {}]
            /\ retryable' \subseteq retryable
        BY <3>1 DEF Fails, EndExchange
      <3>4. \A o \in Ops : /\ Spent(o) => Spent(o)'
                           /\ "request" \in waiters'[o] => "request" \in waiters[o]
        BY <3>2, <3>3 DEF Spent, WireOK
      <3>. QED
        BY <3>2, <3>4, ActsKept DEF Facts
    <2>. QED
      BY <2>1, <2>2 DEF Exchange
  <1>6. Recorded' /\ Snaps' /\ Answers'
    BY <1>1 DEF Facts, Recorded, Snaps, Answers
  <1>7. Told' /\ Lasts
    BY <1>1, <1>2 DEF Facts, Told, Answers, Lasts
  <1>8. Sent'
    BY <1>1, <1>3, <1>4 DEF Facts, Sent
  <1>9. Once'
    BY <1>1, <1>3 DEF Facts, Once, Ops
  <1>. QED
    BY <1>5, <1>6, <1>7, <1>8, <1>9 DEF Facts

\* The service works.
LEMMA ServiceFacts ==
    ASSUME TypeOK, Facts, NEW op \in Ops, Service(op)
    PROVE  Facts' /\ Lasts
  <1>. USE TypeParts
  <1>1. /\ UNCHANGED <<view, snapshot, bounds, retained, dismissed, answered>>
        /\ \A o \in Ops : Known(o) <=> Known(o)'
    BY DEF Service, CallArrives, CallRefused, StrayArrives, Finish, Respond, StatusArrives,
           history, Known
  <1>2. \A o \in Ops : /\ o # op => wire'[o] = wire[o] /\ record'[o] = record[o]
                                    /\ (o \in effects' <=> o \in effects)
                                    /\ (o \in stray' <=> o \in stray)
                                    /\ (o \in refused' <=> o \in refused)
                       /\ o \in stray' => o \in stray
                       /\ o \in effects => o \in effects'
                       /\ o \in refused => o \in refused'
    BY DEF Service, CallArrives, CallRefused, StrayArrives, Finish, Respond, StatusArrives,
           Admit, service, history, ServiceOK, WireOK
  <1>3. \/ /\ wire[op] = "call" /\ record'[op] \in {record[op], "open"}
           /\ record'[op] # record[op] => record[op] = "none"
           /\ wire'[op] \in {"waiting", "shut"} /\ UNCHANGED <<effects, refused, stray>>
        \/ /\ wire[op] = "call" /\ wire'[op] = "refused" /\ op \in refused'
           /\ UNCHANGED <<record, effects, stray>>
        \/ /\ op \in stray /\ op \notin stray' /\ UNCHANGED <<effects, refused, wire>>
           /\ record'[op] = record[op] \/ (record[op] = "none" /\ record'[op] = "open")
        \/ /\ record[op] = "open" /\ UNCHANGED <<refused, wire, stray>>
           /\ \/ record'[op] = "applied" /\ op \in effects'
              \/ record'[op] = "rejected" /\ effects' = effects
              \/ record'[op] = "unknown"
        \/ /\ UNCHANGED <<record, effects, stray, refused>>
           /\ wire[op] # "call"
           /\ wire'[op] \in {"shut", "unknown", "waiting"} \/ wire'[op] = record[op]
    <2>1. CASE CallArrives(op) \/ CallRefused(op)
      BY <2>1 DEF CallArrives, CallRefused, Admit, service, history, ServiceOK, WireOK
    <2>2. CASE StrayArrives(op)
      BY <2>2 DEF StrayArrives, Admit, history, ServiceOK
    <2>3. CASE Finish(op)
      BY <2>3 DEF Finish, history, ServiceOK
    <2>4. CASE Respond(op) \/ StatusArrives(op)
      BY <2>4 DEF Respond, StatusArrives, service, history, WireOK
    <2>. QED
      BY <2>1, <2>2, <2>3, <2>4 DEF Service
  <1>4. record[op] \in Recordings /\ wire[op] \in Wires
    BY DEF ServiceOK, WireOK
  <1>5. \A o \in Ops : record[o] = "rejected" => record'[o] = "rejected"
    BY <1>2, <1>3
  <1>6. Recorded'
    BY <1>2, <1>3 DEF Facts, Recorded
  <1>7. Sent'
    BY <1>1, <1>2, <1>3 DEF Facts, Sent
  <1>8. Once'
    <2>1. asks' = asks /\ Sends \subseteq Ops
      BY <1>1 DEF bounds, Ops
    <2>2. wire'[op] = "call" => wire'[op] = wire[op]
      BY <1>3, <1>4 DEF Recordings, Outcomes
    <2>3. ASSUME NEW o \in Sends, o # op
          PROVE  /\ asks'[o] = 0 => /\ wire'[o] # "call" /\ o \notin stray' \cup refused'
                                    /\ record'[o] = "none"
                 /\ wire'[o] = "call" => o \notin stray' \cup refused' /\ record'[o] = "none"
                 /\ o \in stray' => o \notin refused' /\ record'[o] = "none"
                 /\ o \in refused' => record'[o] = "none"
      BY <1>2, <2>1, <2>3 DEF Facts, Once
    <2>4. ASSUME op \in Sends
          PROVE  /\ asks'[op] = 0 => /\ wire'[op] # "call" /\ op \notin stray' \cup refused'
                                     /\ record'[op] = "none"
                 /\ wire'[op] = "call" => op \notin stray' \cup refused' /\ record'[op] = "none"
                 /\ op \in stray' => op \notin refused' /\ record'[op] = "none"
                 /\ op \in refused' => record'[op] = "none"
      <3>1. /\ asks[op] = 0 => /\ wire[op] # "call" /\ op \notin stray \cup refused
                               /\ record[op] = "none"
            /\ wire[op] = "call" => op \notin stray \cup refused /\ record[op] = "none"
            /\ op \in stray => op \notin refused /\ record[op] = "none"
            /\ op \in refused => record[op] = "none"
        BY <2>4 DEF Facts, Once
      <3>. QED
        BY <1>2, <1>3, <2>1, <2>2, <3>1
    <2>. QED
      BY <2>3, <2>4 DEF Once
  <1>9. Answers'
    BY <1>2, <1>3, <1>4, <1>5 DEF Facts, Answers, Recorded, Recordings, Outcomes
  <1>10. Snaps' /\ Told' /\ Lasts
    BY <1>1, <1>2, <1>5 DEF Facts, Snaps, Told, Lasts, view, results
  <1>11. Acts'
    <2>1. UNCHANGED <<asks, waiters, retryable, acted, delivered>>
      BY <1>1 DEF Service, CallArrives, CallRefused, StrayArrives, Finish, Respond,
         StatusArrives, view, results, bounds
    <2>2. \A o \in Ops : Spent(o) => Spent(o)'
      BY <2>1 DEF Spent
    <2>. QED
      BY <2>1, <2>2, ActsKept DEF Facts
  <1>. QED
    BY <1>6, <1>7, <1>8, <1>9, <1>10, <1>11 DEF Facts

\* Snapshots come and go, the session is locked and unlocked, the page reloads.
LEMMA ViewFacts ==
    ASSUME TypeOK, Facts,
           \/ AskSnapshot \/ AnswerSnapshot \/ SnapshotShut \/ SnapshotOpens \/ SnapshotLost
           \/ LockReply \/ UnlockReply \/ Reload
           \/ ServiceLocks \/ ServiceOpens \/ UNCHANGED vars
    PROVE  Facts' /\ Lasts
  <1>. USE TypeParts
  <1>1. /\ UNCHANGED <<record, effects, retained, asks, history>>
        /\ \/ UNCHANGED stray
           \/ /\ stray' = stray \cup {op \in Ops : wire[op] = "call"}
              /\ \A op \in Ops : wire'[op] = "idle"
        /\ \A op \in Ops : wire'[op] \in {wire[op], "idle", "status"}
    <2>1. CASE SnapshotOpens
      BY <2>1, OpensType DEF service, bounds
    <2>2. CASE Reload
      BY <2>2 DEF Reload
    <2>. QED
      BY <2>1, <2>2 DEF AskSnapshot, AnswerSnapshot, SnapshotShut, SnapshotLost, LockReply,
         UnlockReply, ServiceLocks, ServiceOpens, vars, service, bounds
  <1>2. \/ UNCHANGED results
        \/ /\ \A op \in Ops : result'[op] = "none" /\ acted'[op] = 0
           /\ locked'
        \/ /\ UNCHANGED <<delivered, acted>>
           /\ \A op \in Ops : /\ result'[op] \in {result[op], snapshot.details[op], "pending"}
                              /\ result[op] = "complete" => result'[op] = "complete"
    <2>1. CASE SnapshotOpens
      BY <2>1, OpensType
    <2>2. CASE SnapshotShut
      BY <2>2, BlankType DEF SnapshotShut
    <2>3. CASE LockReply \/ Reload
      BY <2>3, BlankType DEF LockReply, Reload
    <2>. QED
      BY <2>1, <2>2, <2>3 DEF AskSnapshot, AnswerSnapshot, SnapshotLost, UnlockReply,
         ServiceLocks, ServiceOpens, vars, view
  <1>3. \A op \in Ops : \/ snapshot'.details[op] \in {snapshot.details[op], "absent"}
                        \/ snapshot'.details[op] = Detail(op)
    <2>1. \A s \in Snapshots : \A op \in Ops :
             [s EXCEPT !.stage = "asked"].details[op] = s.details[op]
      BY DEF Snapshots
    <2>2. \A op \in Ops : NoSnapshot.details[op] = "absent"
      BY DEF NoSnapshot
    <2>3. CASE AskSnapshot
      BY <2>1, <2>2, <2>3, NoSnapshotType DEF AskSnapshot
    <2>4. CASE AnswerSnapshot
      BY <2>4 DEF AnswerSnapshot
    <2>5. CASE SnapshotOpens
      BY <2>2, <2>5, OpensType
    <2>. QED
      BY <2>2, <2>3, <2>4, <2>5 DEF SnapshotShut, SnapshotLost, LockReply, UnlockReply, Reload,
         ServiceLocks, ServiceOpens, vars
  <1>4. Recorded' /\ Answers'
    BY <1>1 DEF Facts, Recorded, Answers, history
  <1>5. Sent'
    BY <1>1 DEF Facts, Sent, Known, history
  <1>6. Once'
    <2>1. Sends \subseteq Ops /\ UNCHANGED <<record, asks, refused>>
      BY <1>1 DEF Ops, history
    <2>. SUFFICES ASSUME NEW op \in Sends
                  PROVE  /\ asks[op] = 0 => /\ wire'[op] # "call"
                                            /\ op \notin stray' \cup refused
                                            /\ record[op] = "none"
                         /\ wire'[op] = "call" => /\ op \notin stray' \cup refused
                                                  /\ record[op] = "none"
                         /\ op \in stray' => op \notin refused /\ record[op] = "none"
                         /\ op \in refused => record[op] = "none"
      BY <2>1 DEF Once
    <2>2. wire'[op] = "call" => wire[op] = "call"
      BY <1>1, <2>1
    <2>3. op \in stray' => op \in stray \/ wire[op] = "call"
      BY <1>1
    <2>4. wire'[op] = "call" => stray' = stray
      BY <1>1, <2>1
    <2>. QED
      BY <2>1, <2>2, <2>3, <2>4 DEF Facts, Once
  <1>7. Snaps'
    BY <1>1, <1>3, DetailType DEF Facts, Snaps, Recorded
  <1>8. Told'
    <2>1. CASE UNCHANGED results
      BY <1>1, <2>1 DEF Facts, Told, results, history
    <2>2. CASE \A op \in Ops : result'[op] = "none"
      BY <2>2 DEF Told
    <2>3. CASE \A op \in Ops : result'[op] \in {result[op], snapshot.details[op], "pending"}
      BY <1>1, <2>3 DEF Facts, Told, Snaps, history
    <2>. QED
      BY <1>2, <2>1, <2>2, <2>3
  <1>9. Acts'
    <2>1. /\ \A o \in Ops : "request" \in waiters'[o] => "request" \in waiters[o]
          /\ \A o \in Ops : o \in retryable' => o \in retryable
      <3>1. CASE SnapshotOpens
        <4>1. retryable' = retryable
          BY <3>1 DEF SnapshotOpens
        <4>2. \A o \in Ops : waiters'[o] = waiters[o] \/ waiters'[o] = {"check"}
          BY <3>1 DEF SnapshotOpens
        <4>. QED
          BY <4>1, <4>2
      <3>2. CASE Reload
        BY <3>2 DEF Reload, BlankView
      <3>. QED
        BY <3>1, <3>2 DEF AskSnapshot, AnswerSnapshot, SnapshotShut, SnapshotLost, LockReply,
           UnlockReply, ServiceLocks, ServiceOpens, vars, view, BlankView
    <2>2. \A o \in Ops : Spent(o) => Spent(o)'
      BY <1>1, <2>1 DEF Spent
    <2>3. \A o \in Ops : acted'[o] = 0 \/ (acted'[o] = acted[o] /\ delivered' = delivered)
      BY <1>2 DEF results
    <2>. QED
      BY <1>1, <2>1, <2>2, <2>3, ActsKept DEF Facts
  <1>10. Lasts
    BY <1>1, <1>2 DEF Lasts, results, history
  <1>. QED
    BY <1>4, <1>5, <1>6, <1>7, <1>8, <1>9, <1>10 DEF Facts

LEMMA InvParts ==
    /\ Inv <=> TypeOK /\ Facts
    /\ Inv' <=> TypeOK' /\ Facts'
  BY DEF Inv, Facts

LEMMA InvStep ==
    ASSUME Inv, [Next]_vars
    PROVE  Inv' /\ Lasts
  BY InvParts, TypeStep, PersonFacts, ExchangeFacts, ServiceFacts, ViewFacts DEF Next

LEMMA InvInit == Init => Inv
  <1>. SUFFICES ASSUME Init PROVE Inv
    OBVIOUS
  <1>1. \A op \in Ops : /\ record[op] = "none" /\ wire[op] = "idle" /\ result[op] = "none"
                        /\ acted[op] = 0 /\ snapshot.details[op] = "absent"
    BY DEF Init, Cleared, Uncounted, NoSnapshot
  <1>2. effects = {} /\ stray = {} /\ refused = {} /\ Sends \subseteq Ops
    BY DEF Init, Ops
  <1>3. Recorded /\ Sent /\ Once /\ Answers /\ Snaps /\ Told
    BY <1>1, <1>2 DEF Recorded, Sent, Once, Answers, Snaps, Told
  <1>4. Acts
    <2>1. \A op \in Ops : waiters[op] = {}
      BY DEF Init
    <2>. QED
      BY <1>1, <2>1, AllowedIs DEF Acts
  <1>. QED
    BY <1>3, <1>4, TypeInit, InvParts DEF Facts

LEMMA Invariance == Spec => []Inv
  <1>1. Inv /\ [Next]_vars => Inv'
    BY InvStep
  <1>. QED
    BY InvInit, <1>1, PTL DEF Spec

-----------------------------------------------------------------------------
(* What follows from it.                                                   *)

\* An operation that was carried out can be asked about until its outcome is
\* known or the person dismisses it (rpc-transport.ts retainedOperations).
THEOREM Recoverable == Spec => []UnconfirmedIsRecoverable
  <1>1. Inv => UnconfirmedIsRecoverable
    <2>. SUFFICES ASSUME Inv, NEW op \in effects
                  PROVE  op \in retained \cup answered \cup dismissed
      BY DEF UnconfirmedIsRecoverable
    <2>1. op \in Ops /\ record[op] \in Recordings
      BY TypeParts DEF Inv, ServiceOK
    <2>2. record[op] # "none"
      BY <2>1 DEF Inv, Recorded
    <2>. QED
      BY <2>1, <2>2 DEF Inv, Sent, Known
  <1>. QED
    BY <1>1, Invariance, PTL

\* The answer of a submission or of the Join dialog acts on the view once, whoever
\* of the requests and the checks delivers it (operation-results.ts complete); that
\* of an invitation twice at most, since performJoin asks nobody, but drops the form.
THEOREM ActedOnce == Spec => []ActsOnce
  <1>1. Inv => ActsOnce
    <2>. SUFFICES ASSUME Inv, NEW op \in Ops
                  PROVE  acted[op] <= (IF op \in NetJoins THEN 2 ELSE 1)
      BY DEF ActsOnce
    <2>1. acted[op] \in Nat /\ acted[op] <= Allowed(op)
      BY TypeParts DEF Inv, ResultsOK, Acts
    <2>. QED
      BY <2>1, AllowedIs
  <1>. QED
    BY <1>1, Invariance, PTL

-----------------------------------------------------------------------------
(* The refinement.                                                         *)

FateNow == [op \in Ops |-> FateOf(op)]
WordNow == [op \in Ops |-> WordOf(op)]

LEMMA FateIs ==
    \A op \in Ops : /\ FateNow[op] = FateOf(op) /\ FateNow'[op] = FateOf(op)'
                    /\ FateOf(op) \in {"open", "done", "void"}
                    /\ FateOf(op)' \in {"open", "done", "void"}
  BY DEF FateNow, FateOf

LEMMA WordIs ==
    \A op \in Ops : /\ WordNow[op] = WordOf(op) /\ WordNow'[op] = WordOf(op)'
                    /\ WordOf(op) \in {"silent", "complete", "rejected"}
                    /\ WordOf(op)' \in {"silent", "complete", "rejected"}
  BY DEF WordNow, WordOf

\* The fate of an operation is decided once.
LEMMA Decides ==
    ASSUME Inv, Inv', Lasts, NEW op \in Ops
    PROVE  FateOf(op) = "open" \/ FateOf(op)' = FateOf(op)
  <1>1. op \in effects => FateOf(op) = "done" /\ FateOf(op)' = "done"
    BY DEF Lasts, FateOf
  <1>2. CASE op \notin effects /\ record[op] = "rejected"
    BY <1>2 DEF Lasts, FateOf, Inv, Recorded
  <1>3. CASE op \notin effects /\ op \in refused /\ op \in Sends
    BY <1>3 DEF Lasts, FateOf, Inv, Recorded, Once
  <1>. QED
    BY <1>1, <1>2, <1>3 DEF FateOf

\* The word of the view is silent or true.
Honest == \A op \in Ops : WordOf(op) \in {"silent", Promise!Truth(FateOf(op))}

LEMMA Speaks == (Inv => Honest) /\ (Inv' => Honest')
  <1>1. Inv => Honest
    <2>. SUFFICES ASSUME Inv, NEW op \in Ops
                  PROVE  WordOf(op) \in {"silent", Promise!Truth(FateOf(op))}
      BY DEF Honest
    <2>1. CASE result[op] = "complete"
      BY <2>1 DEF Inv, Told, WordOf, FateOf, Promise!Truth
    <2>2. CASE result[op] = "rejected" /\ op \in Sends
      <3>1. record[op] = "rejected" \/ op \in refused
        BY <2>2 DEF Inv, Told
      <3>2. op \notin effects
        BY <2>2, <3>1 DEF Inv, Recorded, Once
      <3>. QED
        BY <2>2, <3>1, <3>2 DEF WordOf, FateOf, Promise!Truth
    <2>. QED
      BY <2>1, <2>2 DEF WordOf
  <1>. QED
    BY <1>1, PTL

\* The view keeps its promise: an operation's fate is decided once, the view's
\* word about it is silent or true, and "complete" is never taken back
\* (operation-results.ts error, complete and restore).
THEOREM Refinement == Spec => PromiseIsKept
  <1>1. Init => Promise!PromiseInit
    <2>. SUFFICES ASSUME Init PROVE Promise!PromiseInit
      OBVIOUS
    <2>1. \A op \in Ops : FateOf(op) = "open" /\ WordOf(op) = "silent"
      BY DEF Init, Cleared, FateOf, WordOf
    <2>. QED
      BY <2>1 DEF Promise!PromiseInit, Init
  <1>2. Inv /\ [Next]_vars => [Promise!PromiseNext]_(Promise!promise)
    <2>. SUFFICES ASSUME Inv, [Next]_vars PROVE Promise!PromiseNext
      OBVIOUS
    <2>1. Inv' /\ Lasts
      BY InvStep
    <2>2. locked' \in BOOLEAN
      BY <2>1, TypeParts DEF Inv, PageOK
    <2>3. \A op \in Ops : FateOf(op) = "open" \/ FateOf(op)' = FateOf(op)
      BY <2>1, Decides
    <2>4. \A op \in Ops : WordOf(op)' \in {"silent", Promise!Truth(FateOf(op)')}
      BY <2>1, Speaks DEF Honest, Promise!Truth
    <2>5. \/ \A op \in Ops : WordOf(op)' = WordOf(op) \/ WordOf(op) # "complete"
          \/ locked' /\ \A op \in Ops : WordOf(op)' = "silent"
      BY <2>1 DEF Lasts, WordOf
    <2>6. /\ FateNow' \in [Ops -> {"open", "done", "void"}]
          /\ WordNow' \in [Ops -> {"silent", "complete", "rejected"}]
      BY FateIs, WordIs DEF FateNow, WordNow
    <2>7. \A op \in Ops : FateNow[op] = "open" \/ FateNow'[op] = FateNow[op]
      BY <2>3, FateIs
    <2>8. \/ locked' /\ WordNow' = [op \in Ops |-> "silent"]
          \/ \A op \in Ops : \/ WordNow'[op] = WordNow[op]
                             \/ /\ WordNow[op] # "complete"
                                /\ WordNow'[op] \in {"silent", Promise!Truth(FateNow'[op])}
      <3>1. CASE locked' /\ \A op \in Ops : WordOf(op)' = "silent"
        BY <3>1 DEF WordNow
      <3>2. CASE \A op \in Ops : WordOf(op)' = WordOf(op) \/ WordOf(op) # "complete"
        BY <2>4, <3>2, FateIs, WordIs DEF Promise!Truth
      <3>. QED
        BY <2>5, <3>1, <3>2
    <2>. QED
      BY <2>2, <2>6, <2>7, <2>8 DEF Promise!PromiseNext, Promise!Decide, Promise!Speak,
         Promise!CloseView, FateNow, WordNow
  <1>. QED
    BY <1>1, <1>2, Invariance, PTL DEF Spec, PromiseIsKept, Promise!PromiseSpec

=============================================================================
