----------------------------- MODULE ContactDelivery -----------------------------
(***************************************************************************)
(* Private messages between independent contacts (chat_service/contacts.rs)*)
(*                                                                         *)
(* A message is archived and put in the outbox by one save; the contact    *)
(* worker submits outbox entries to the SDK again and again until the      *)
(* recipient's own receipt comes back.  The recipient archives a message   *)
(* and queues its receipt by one save, and only then commits the delivery, *)
(* which makes the SDK forget it.  A receipt leaves the outbox as soon as  *)
(* the SDK took it: when it is lost, the sender's next copy asks for it    *)
(* again.                                                                  *)
(*                                                                         *)
(* The SDK is external: what it accepted may be lost, delivered late, out  *)
(* of order and more than once; deliveries stay in the inbox until they    *)
(* are committed, through crashes too.  A packet on its way and one in the *)
(* inbox are not told apart: the worker may look at either or later.       *)
(* Presence packets share the outbox in the code and are left out.         *)
(*                                                                         *)
(* Operators named Fault... or Forgetful... are wrong versions of the      *)
(* definition that follows; no specification uses one.                     *)
(***************************************************************************)
EXTENDS Naturals, FiniteSets

CONSTANTS
    Nodes,        \* the services that exchange contact cards
    Messages,     \* message ids (random, never used twice)
    From, To,     \* the sender and the recipient of each message
    MaxPending,   \* entries an outbox may hold (MAX_PENDING, 512)
    Batch,        \* entries one pass of the worker submits (4)
    MaxFailures,  \* bound on failing saves, submissions and commits
    MaxRestarts   \* bound on restarts

ASSUME ContactAssumption ==
    /\ IsFiniteSet(Messages)
    /\ From \in [Messages -> Nodes] /\ To \in [Messages -> Nodes]
    /\ \A m \in Messages : From[m] # To[m]
    /\ MaxPending \in Nat /\ Batch \in Nat \ {0}
    /\ MaxFailures \in Nat /\ MaxRestarts \in Nat

VARIABLES
    mem,          \* the Book of each node's session
    disk,         \* the Book of its contacts file
    worker,       \* where each node's contact worker is
    used,         \* message ids that have been drawn
    inbox,        \* packets on their way to each node, or not committed yet
    failures, restarts

bounds == <<failures, restarts>>
vars == <<mem, disk, worker, used, inbox, bounds>>

\* Envelope::Message and Envelope::Receipt, also as the outbox keeps them:
\* the key of an entry names the message, and whether it is a receipt.
Packets == [kind : {"message", "receipt"}, message : Messages]

MessageOf(m) == [kind |-> "message", message |-> m]
ReceiptOf(m) == [kind |-> "receipt", message |-> m]

Source(p) == IF p.kind = "message" THEN From[p.message] ELSE To[p.message]
Target(p) == IF p.kind = "message" THEN To[p.message] ELSE From[p.message]

\* Book::default: nobody is known.
EmptyBook ==
    [contacts |-> {}, blocked |-> {}, status |-> [m \in Messages |-> "none"],
     shown |-> [m \in Messages |-> 0], seen |-> {}, outbox |-> {}]

Scanning == [at |-> "scan", packet |-> {}, batch |-> {}, sent |-> FALSE]

Init ==
    /\ mem = [n \in Nodes |-> EmptyBook]
    /\ disk = [n \in Nodes |-> EmptyBook]
    /\ worker = [n \in Nodes |-> Scanning]
    /\ used = {}
    /\ inbox = [n \in Nodes |-> {}]
    /\ failures = 0
    /\ restarts = 0

-----------------------------------------------------------------------------
(* Saves.  The session lock is held from the candidate to the end of the   *)
(* save, and no save awaits anything.                                      *)

Saved(n, book) ==
    /\ disk' = [disk EXCEPT ![n] = book]
    /\ mem' = [mem EXCEPT ![n] = book]

\* A save that reports an error may have replaced the file or not.
SaveFails(n, book) ==
    /\ failures < MaxFailures
    /\ failures' = failures + 1
    /\ disk' \in {disk, [disk EXCEPT ![n] = book]}
    /\ UNCHANGED <<mem, restarts>>

\* Every other mutation of the service saves the contacts file too.
OtherSave(n) ==
    /\ disk[n] # mem[n]
    /\ disk' = [disk EXCEPT ![n] = mem[n]]
    /\ UNCHANGED <<mem, worker, used, inbox, bounds>>

-----------------------------------------------------------------------------
(* What the user does.                                                     *)

\* Commands that are not ordinary sends take the operations lock for writing,
\* which the worker holds for reading from its second look at an entry until
\* it has recorded the submission.
Sending(n) == worker[n].at \in {"submit", "record"}

\* Commands take no lock.
FaultMayOrder(n) == TRUE

MayOrder(n) == ~Sending(n)

Edit(n, book) ==
    /\ \/ Saved(n, book) /\ UNCHANGED bounds
       \/ SaveFails(n, book)
    /\ UNCHANGED <<worker, used, inbox>>

\* /contact add: the signed card is explicit consent.
AddContact(n, peer) ==
    /\ MayOrder(n)
    /\ peer \notin mem[n].contacts
    /\ Edit(n, [mem[n] EXCEPT !.contacts = @ \cup {peer}])

\* The outbox is cleared, the messages stay accepted.
FaultBlocked(book, n, peer) ==
    [book EXCEPT !.blocked = @ \cup {peer}, !.outbox = {p \in @ : Target(p) # peer}]

\* What was accepted for the contact fails, and nothing is kept for it.
Blocked(book, n, peer) ==
    [book EXCEPT !.blocked = @ \cup {peer},
        !.status = [m \in Messages |->
            IF From[m] = n /\ To[m] = peer /\ book.status[m] = "LocalAccepted"
            THEN "Failed" ELSE book.status[m]],
        !.outbox = {p \in @ : Target(p) # peer}]

Block(n, peer) ==
    /\ MayOrder(n)
    /\ peer \in mem[n].contacts
    /\ Edit(n, Blocked(mem[n], n, peer))

Unblock(n, peer) ==
    /\ MayOrder(n)
    /\ peer \in mem[n].blocked
    /\ Edit(n, [mem[n] EXCEPT !.blocked = @ \ {peer}])

Full(book) == Cardinality(book.outbox) >= MaxPending

\* /say and /me are ordinary sends.  A repeated operation finds its message and
\* only saves again; the operation journal hardly lets one come this far.
Queue(n, m) ==
    /\ From[m] = n
    /\ m \notin used
    /\ ~Full(mem[n])
    /\ To[m] \in mem[n].contacts \ mem[n].blocked
    /\ used' = used \cup {m}
    /\ LET book == [mem[n] EXCEPT !.status[m] = "LocalAccepted",
                                  !.outbox = @ \cup {MessageOf(m)}]
       IN  \/ Saved(n, book) /\ UNCHANGED bounds
           \/ SaveFails(n, book)
    /\ UNCHANGED <<worker, inbox>>

-----------------------------------------------------------------------------
(* The worker takes deliveries from the inbox.                             *)

At(n, at) == worker[n].at = at

\* Strangers are welcome.
FaultWelcome(book, p) == Source(p) \notin book.blocked

Welcome(book, p) == Source(p) \in book.contacts \ book.blocked

\* A message that does not find room for its receipt stays in the inbox; the
\* scan goes on to the next delivery.
Deferred(book, p) == Welcome(book, p) /\ p.kind = "message" /\ Full(book)

\* A receipt settles the message it names as long as it is pending.
Settled(book, m) ==
    IF MessageOf(m) \notin book.outbox THEN book
    ELSE [book EXCEPT !.status[m] = "Delivered", !.outbox = @ \ {MessageOf(m)}]

\* A message is archived when it is new, and always receipted.
Archived(book, m) ==
    [book EXCEPT !.shown[m] = IF m \in book.seen THEN @ ELSE @ + 1,
                 !.seen = @ \cup {m},
                 !.outbox = @ \cup {ReceiptOf(m)}]

\* A copy is archived again.
FaultReceived(book, p) ==
    IF ~Welcome(book, p) THEN book
    ELSE IF p.kind = "receipt" THEN Settled(book, p.message)
    ELSE [Archived(book, p.message) EXCEPT !.shown[p.message] = book.shown[p.message] + 1]

\* A copy is not receipted again.
ForgetfulReceived(book, p) ==
    IF ~Welcome(book, p) \/ (p.kind = "message" /\ p.message \in book.seen) THEN book
    ELSE IF p.kind = "receipt" THEN Settled(book, p.message)
    ELSE Archived(book, p.message)

Received(book, p) ==
    IF ~Welcome(book, p) THEN book
    ELSE IF p.kind = "receipt" THEN Settled(book, p.message)
    ELSE Archived(book, p.message)

Take(n, p) ==
    /\ At(n, "scan")
    /\ p \in inbox[n]
    /\ ~Deferred(mem[n], p)
    /\ LET book == Received(mem[n], p)
       IN  IF book = mem[n] THEN UNCHANGED <<mem, disk>> ELSE Saved(n, book)
    /\ worker' = [worker EXCEPT ![n] = [Scanning EXCEPT !.at = "commit", !.packet = {p}]]
    /\ UNCHANGED <<used, inbox, bounds>>

\* The save fails: the scan starts again at the same delivery.
TakeFails(n, p) ==
    /\ At(n, "scan")
    /\ p \in inbox[n]
    /\ ~Deferred(mem[n], p)
    /\ Received(mem[n], p) # mem[n]
    /\ SaveFails(n, Received(mem[n], p))
    /\ UNCHANGED <<worker, used, inbox>>

\* commit_application: the SDK forgets the delivery, unless the call fails or
\* another copy is on its way.
Commit(n) ==
    /\ At(n, "commit")
    /\ inbox' \in {inbox, [inbox EXCEPT ![n] = @ \ worker[n].packet]}
    /\ worker' = [worker EXCEPT ![n] = Scanning]
    /\ UNCHANGED <<mem, disk, used, bounds>>

-----------------------------------------------------------------------------
(* The worker submits what is pending.                                     *)

\* A copy of the entries that are due: which ones is up to the clock.
Select(n, batch) ==
    /\ At(n, "scan")
    /\ batch # {} /\ Cardinality(batch) <= Batch
    /\ \A p \in batch : p \in mem[n].outbox /\ Target(p) \notin mem[n].blocked
    /\ worker' = [worker EXCEPT ![n] = [Scanning EXCEPT !.at = "send", !.batch = batch]]
    /\ UNCHANGED <<mem, disk, used, inbox, bounds>>

\* Receipts go first.
First(batch) == {p \in batch : p.kind = "receipt" \/ \A q \in batch : q.kind = "message"}

Rest(batch, p) ==
    IF batch = {p} THEN Scanning ELSE [Scanning EXCEPT !.at = "send", !.batch = batch \ {p}]

StillPending(n, p) == p \in mem[n].outbox /\ Target(p) \notin mem[n].blocked

Skip(n) == \E p \in First(worker[n].batch) :
    /\ At(n, "send")
    /\ ~StillPending(n, p)
    /\ worker' = [worker EXCEPT ![n] = Rest(@.batch, p)]
    /\ UNCHANGED <<mem, disk, used, inbox, bounds>>

Prepare(n) == \E p \in First(worker[n].batch) :
    /\ At(n, "send")
    /\ StillPending(n, p)
    /\ worker' = [worker EXCEPT ![n].at = "submit", ![n].packet = {p}]
    /\ UNCHANGED <<mem, disk, used, inbox, bounds>>

Sent(p) == [inbox EXCEPT ![Target(p)] = @ \cup {p}]

\* submit_durable_opaque takes the packet, which may get through or not; an
\* error does not prove that it does not.
Submit(n) == \E p \in worker[n].packet :
    /\ At(n, "submit")
    /\ inbox' \in {inbox, Sent(p)}
    /\ \/ worker' = [worker EXCEPT ![n].at = "record", ![n].sent = TRUE] /\ UNCHANGED bounds
       \/ /\ failures < MaxFailures
          /\ failures' = failures + 1
          /\ worker' = [worker EXCEPT ![n].at = "record"]
          /\ UNCHANGED restarts
    /\ UNCHANGED <<mem, disk, used>>

\* Admission by the SDK counts as delivery.
FaultRecorded(book, p, sent) ==
    IF ~sent THEN book
    ELSE [book EXCEPT !.outbox = @ \ {p},
              !.status[p.message] = IF p.kind = "message" THEN "Delivered" ELSE @]

\* A receipt the SDK took is done with; a message waits for its receipt.
Recorded(book, p, sent) ==
    IF p.kind = "receipt" /\ sent THEN [book EXCEPT !.outbox = @ \ {p}] ELSE book

Record(n) == \E p \in worker[n].packet :
    /\ At(n, "record")
    /\ IF p \in mem[n].outbox
       THEN Saved(n, Recorded(mem[n], p, worker[n].sent))
       ELSE UNCHANGED <<mem, disk>>
    /\ worker' = [worker EXCEPT ![n] = Rest(@.batch, p)]
    /\ UNCHANGED <<used, inbox, bounds>>

\* The rest of the batch waits for the next pass.
RecordFails(n) == \E p \in worker[n].packet :
    /\ At(n, "record")
    /\ p \in mem[n].outbox
    /\ SaveFails(n, Recorded(mem[n], p, worker[n].sent))
    /\ worker' = [worker EXCEPT ![n] = Scanning]
    /\ UNCHANGED <<used, inbox>>

-----------------------------------------------------------------------------
(* The process.                                                            *)

\* A crash, or a disconnect, which drops the worker at whatever it awaits, and
\* the next unlock.
Restart(n) ==
    /\ restarts < MaxRestarts
    /\ restarts' = restarts + 1
    /\ mem' = [mem EXCEPT ![n] = disk[n]]
    /\ worker' = [worker EXCEPT ![n] = Scanning]
    /\ UNCHANGED <<disk, used, inbox, failures>>

Next ==
    \E n \in Nodes :
        \/ \E peer \in Nodes \ {n} : AddContact(n, peer) \/ Block(n, peer) \/ Unblock(n, peer)
        \/ \E m \in Messages : Queue(n, m)
        \/ \E p \in inbox[n] : Take(n, p) \/ TakeFails(n, p)
        \/ Commit(n)
        \/ \E batch \in SUBSET mem[n].outbox : Select(n, batch)
        \/ Skip(n) \/ Prepare(n) \/ Submit(n) \/ Record(n) \/ RecordFails(n)
        \/ OtherSave(n) \/ Restart(n)

Spec == Init /\ [][Next]_vars

\* The worker wakes twice a second, finishes what it began, visits every
\* delivery in turn and finds every entry due again after thirty seconds; a
\* packet that is submitted again and again gets through.
FairSpec ==
    /\ Spec
    /\ \A n \in Nodes : WF_vars(Commit(n) \/ Skip(n) \/ Prepare(n) \/ Submit(n) \/ Record(n))
    /\ \A p \in Packets :
        /\ SF_vars(Take(Target(p), p))
        /\ SF_vars(\E batch \in SUBSET mem[Source(p)].outbox :
                       p \in batch /\ Select(Source(p), batch))
        /\ SF_vars(worker[Source(p)].packet = {p} /\ Submit(Source(p)) /\ inbox' = Sent(p))

-----------------------------------------------------------------------------
(* Correctness.                                                            *)

Statuses == {"none", "LocalAccepted", "Delivered", "Failed"}

Books ==
    [contacts : SUBSET Nodes, blocked : SUBSET Nodes, status : [Messages -> Statuses],
     shown : [Messages -> Nat], seen : SUBSET Messages, outbox : SUBSET Packets]

Workers ==
    [at : {"scan", "commit", "send", "submit", "record"}, packet : SUBSET Packets,
     batch : SUBSET Packets, sent : BOOLEAN]

\* The shape of every variable; a node keeps and queues only what is its own.
TypeOK ==
    /\ mem \in [Nodes -> Books] /\ disk \in [Nodes -> Books]
    /\ worker \in [Nodes -> Workers]
    /\ used \subseteq Messages
    /\ inbox \in [Nodes -> SUBSET Packets]
    /\ failures \in Nat /\ restarts \in Nat
    /\ \A n \in Nodes : \A p \in inbox[n] : Target(p) = n
    /\ \A n \in Nodes : \A p \in mem[n].outbox \cup disk[n].outbox : Source(p) = n
    /\ \A n \in Nodes : Sending(n) => \E p \in worker[n].batch : worker[n].packet = {p}

\* The same packet delivered again, a delivery whose commit failed and one
\* archived by a save that reported failure before a restart: a message is in
\* the archive once (receive, seen).
MessageArchivedOnce ==
    \A n \in Nodes : \A m \in Messages :
        \A book \in {mem[n], disk[n]} : book.shown[m] = IF m \in book.seen THEN 1 ELSE 0

\* "Local queue admission is not recipient delivery": what the sender's archive
\* calls delivered is in the recipient's file, and stays there.
DeliveredIsTrue ==
    \A m \in Messages : \A book \in {mem[From[m]], disk[From[m]]} :
        book.status[m] = "Delivered" => m \in disk[To[m]].seen

\* A message shown as accepted is one the worker will still send, and nothing
\* else is sent, in memory and in what a restart finds.
AcceptedIsPending ==
    \A n \in Nodes : \A book \in {mem[n], disk[n]} : \A m \in Messages :
        book.status[m] = "LocalAccepted" <=> MessageOf(m) \in book.outbox

\* "Order block/remove commands against new transport admissions": once a block
\* was answered nothing goes to the contact, not even what the worker had
\* already picked.
BlockedIsSilent ==
    \A n \in Nodes :
        /\ \A p \in mem[n].outbox : Target(p) \notin mem[n].blocked
        /\ At(n, "submit") => \A p \in worker[n].packet : Target(p) \notin mem[n].blocked

\* validate_book: the file a restart finds is one the service accepts
\* ("Contact archive is outside supported bounds").
FileReopens ==
    \A n \in Nodes :
        /\ Cardinality(disk[n].outbox) <= MaxPending
        /\ \A p \in disk[n].outbox : Target(p) \in disk[n].contacts

\* An accepted message does not wait for ever while its recipient knows and
\* does not block the sender ("wait for pending delivery", queue).
AcceptedIsSettled ==
    \A m \in Messages :
        LET Waiting == mem[From[m]].status[m] = "LocalAccepted"
            Open == Welcome(mem[To[m]], MessageOf(m))
        IN  (Waiting /\ Open) ~> ~(Waiting /\ Open)
=============================================================================
