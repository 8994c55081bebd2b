-------------------------- MODULE ContactDeliveryProofs --------------------------
(***************************************************************************)
(* Theorems about ContactDelivery for any nodes and messages, any outbox   *)
(* and batch size, and any number of failures and restarts: all the safety *)
(* properties of the module.                                               *)
(*                                                                         *)
(* The argument is local to a node except for one thread: a receipt, where *)
(* ever it is, names a message its sender holds in memory and on disk, and *)
(* what a node has seen it never forgets.                                  *)
(***************************************************************************)
EXTENDS ContactDelivery, FiniteSetTheorems, TLAPS

-----------------------------------------------------------------------------
(* The inductive invariant.                                                *)

\* What a node may keep for later: its own packets to contacts it does not
\* block, and receipts for what it has seen.
Sendable(n, book, p) ==
    /\ Source(p) = n
    /\ Target(p) \in book.contacts \ book.blocked
    /\ p.kind = "receipt" => p.message \in book.seen

Sound(n, book) ==
    /\ book \in Books
    /\ \A p \in book.outbox : Sendable(n, book, p)
    /\ \A m \in Messages : book.shown[m] = IF m \in book.seen THEN 1 ELSE 0
    /\ \A m \in Messages : book.status[m] = "LocalAccepted" <=> MessageOf(m) \in book.outbox
    /\ IsFiniteSet(book.outbox) /\ Cardinality(book.outbox) <= MaxPending

\* What a book calls delivered its recipient has seen.
Truthful(n, book) ==
    \A m \in Messages :
        From[m] = n /\ book.status[m] = "Delivered" => m \in mem[To[m]].seen

Stored ==
    /\ mem \in [Nodes -> Books] /\ disk \in [Nodes -> Books]
    /\ \A n \in Nodes :
        /\ Sound(n, mem[n]) /\ Sound(n, disk[n])
        /\ mem[n].seen \subseteq disk[n].seen
        /\ Truthful(n, mem[n]) /\ Truthful(n, disk[n])

\* What is on its way to a node is meant for it, and a receipt is true.
Arriving ==
    /\ inbox \in [Nodes -> SUBSET Packets]
    /\ \A n \in Nodes : \A p \in inbox[n] :
        /\ Target(p) = n
        /\ p.kind = "receipt" => p.message \in mem[Source(p)].seen

\* The packet a worker submits is still one it may keep.
Leaving ==
    /\ worker \in [Nodes -> Workers]
    /\ \A n \in Nodes : Sending(n) => \E p \in worker[n].batch : worker[n].packet = {p}
    /\ \A n \in Nodes : \A p \in worker[n].packet : Sending(n) => Sendable(n, mem[n], p)

Counted == used \subseteq Messages /\ failures \in Nat /\ restarts \in Nat

Inv == Stored /\ Arriving /\ Leaving /\ Counted

-----------------------------------------------------------------------------
(* Packets.                                                                *)

LEMMA PacketFacts ==
    ASSUME NEW m \in Messages
    PROVE  /\ MessageOf(m) \in Packets /\ MessageOf(m).kind = "message"
           /\ MessageOf(m).message = m
           /\ Source(MessageOf(m)) = From[m] /\ Target(MessageOf(m)) = To[m]
           /\ ReceiptOf(m) \in Packets /\ ReceiptOf(m).kind = "receipt"
           /\ ReceiptOf(m).message = m
           /\ Source(ReceiptOf(m)) = To[m] /\ Target(ReceiptOf(m)) = From[m]
  BY DEF MessageOf, ReceiptOf, Packets, Source, Target

LEMMA PacketShape ==
    ASSUME NEW p \in Packets
    PROVE  /\ p.kind \in {"message", "receipt"} /\ p.message \in Messages
           /\ p = IF p.kind = "message" THEN MessageOf(p.message) ELSE ReceiptOf(p.message)
           /\ Source(p) \in Nodes /\ Target(p) \in Nodes
  <1>1. /\ p.kind \in {"message", "receipt"} /\ p.message \in Messages
        /\ p = [kind |-> p.kind, message |-> p.message]
    BY DEF Packets
  <1>2. From[p.message] \in Nodes /\ To[p.message] \in Nodes
    BY <1>1, ContactAssumption
  <1>. QED
    BY <1>1, <1>2 DEF MessageOf, ReceiptOf, Source, Target

-----------------------------------------------------------------------------
(* What each handler does to a book.                                       *)

LEMMA EmptySound ==
    ASSUME NEW n \in Nodes
    PROVE  EmptyBook \in Books /\ Sound(n, EmptyBook)
  <1>1. EmptyBook \in Books
    BY DEF EmptyBook, Books, Statuses
  <1>2. IsFiniteSet(EmptyBook.outbox) /\ Cardinality(EmptyBook.outbox) = 0
    BY FS_EmptySet DEF EmptyBook
  <1>. QED
    BY <1>1, <1>2, ContactAssumption DEF EmptyBook, Sound

LEMMA AddSound ==
    ASSUME NEW n \in Nodes, NEW peer \in Nodes, NEW book, Sound(n, book)
    PROVE  LET new == [book EXCEPT !.contacts = @ \cup {peer}]
           IN  Sound(n, new) /\ new.seen = book.seen /\ new.status = book.status
  <1>. DEFINE new == [book EXCEPT !.contacts = @ \cup {peer}]
  <1>1. /\ new \in Books /\ new.contacts = book.contacts \cup {peer}
        /\ new.blocked = book.blocked /\ new.status = book.status /\ new.shown = book.shown
        /\ new.seen = book.seen /\ new.outbox = book.outbox
    BY DEF Sound, Books
  <1>. HIDE DEF new
  <1>2. Sound(n, new)
    BY <1>1 DEF Sound, Sendable
  <1>. QED
    BY <1>1, <1>2 DEF new

LEMMA UnblockSound ==
    ASSUME NEW n \in Nodes, NEW peer \in Nodes, NEW book, Sound(n, book)
    PROVE  LET new == [book EXCEPT !.blocked = @ \ {peer}]
           IN  Sound(n, new) /\ new.seen = book.seen /\ new.status = book.status
  <1>. DEFINE new == [book EXCEPT !.blocked = @ \ {peer}]
  <1>1. /\ new \in Books /\ new.contacts = book.contacts
        /\ new.blocked = book.blocked \ {peer} /\ new.status = book.status /\ new.shown = book.shown
        /\ new.seen = book.seen /\ new.outbox = book.outbox
    BY DEF Sound, Books
  <1>. HIDE DEF new
  <1>2. Sound(n, new)
    BY <1>1 DEF Sound, Sendable
  <1>. QED
    BY <1>1, <1>2 DEF new

LEMMA BlockSound ==
    ASSUME NEW n \in Nodes, NEW peer \in Nodes, NEW book, Sound(n, book)
    PROVE  LET new == Blocked(book, n, peer)
           IN  /\ Sound(n, new) /\ new.seen = book.seen
               /\ \A m \in Messages : new.status[m] = "Delivered" => book.status[m] = "Delivered"
  <1>. DEFINE new == Blocked(book, n, peer)
              status == [m \in Messages |->
                            IF From[m] = n /\ To[m] = peer /\ book.status[m] = "LocalAccepted"
                            THEN "Failed" ELSE book.status[m]]
              kept == {p \in book.outbox : Target(p) # peer}
  <1>1. book \in Books
    BY DEF Sound
  <1>2. status \in [Messages -> Statuses]
    BY <1>1 DEF Books, Statuses
  <1>3. /\ new \in Books /\ new.contacts = book.contacts /\ new.blocked = book.blocked \cup {peer}
        /\ new.status = status /\ new.shown = book.shown /\ new.seen = book.seen
        /\ new.outbox = kept
    BY <1>1, <1>2 DEF Blocked, Books
  <1>4. \A p \in kept : Sendable(n, new, p)
    BY <1>3 DEF Sound, Sendable
  <1>5. ASSUME NEW m \in Messages
        PROVE  status[m] = "LocalAccepted" <=> MessageOf(m) \in kept
    <2>1. MessageOf(m) \in book.outbox => From[m] = n
      BY PacketFacts DEF Sound, Sendable
    <2>2. MessageOf(m) \in kept <=> MessageOf(m) \in book.outbox /\ To[m] # peer
      BY PacketFacts
    <2>. QED
      BY <2>1, <2>2 DEF Sound
  <1>6. IsFiniteSet(kept) /\ Cardinality(kept) <= MaxPending
    <2>1. /\ IsFiniteSet(kept) /\ Cardinality(kept) \in Nat /\ Cardinality(book.outbox) \in Nat
          /\ Cardinality(kept) <= Cardinality(book.outbox)
      BY FS_Subset, FS_CardinalityType DEF Sound
    <2>. QED
      BY <2>1, ContactAssumption DEF Sound
  <1>. HIDE DEF new
  <1>7. Sound(n, new)
    BY <1>3, <1>4, <1>5, <1>6 DEF Sound
  <1>. QED
    BY <1>3, <1>7 DEF new

LEMMA QueueSound ==
    ASSUME NEW n \in Nodes, NEW book, Sound(n, book), NEW m \in Messages,
           From[m] = n, ~Full(book), To[m] \in book.contacts \ book.blocked
    PROVE  LET new == [book EXCEPT !.status[m] = "LocalAccepted",
                                   !.outbox = @ \cup {MessageOf(m)}]
           IN  /\ Sound(n, new) /\ new.seen = book.seen /\ new.blocked = book.blocked
               /\ \A k \in Messages : new.status[k] = "Delivered" => book.status[k] = "Delivered"
  <1>. DEFINE new == [book EXCEPT !.status[m] = "LocalAccepted",
                                  !.outbox = @ \cup {MessageOf(m)}]
  <1>1. book \in Books
    BY DEF Sound
  <1>2. /\ new \in Books /\ new.contacts = book.contacts /\ new.blocked = book.blocked
        /\ new.status = [book.status EXCEPT ![m] = "LocalAccepted"]
        /\ new.shown = book.shown /\ new.seen = book.seen
        /\ new.outbox = book.outbox \cup {MessageOf(m)}
    <2>1. /\ [book.status EXCEPT ![m] = "LocalAccepted"] \in [Messages -> Statuses]
          /\ book.outbox \cup {MessageOf(m)} \in SUBSET Packets
      BY <1>1, PacketFacts DEF Books, Statuses
    <2>2. new = [book EXCEPT !.status = [book.status EXCEPT ![m] = "LocalAccepted"],
                             !.outbox = book.outbox \cup {MessageOf(m)}]
      BY <1>1 DEF Books
    <2>. QED
      BY <1>1, <2>1, <2>2 DEF Books
  <1>3. \A k \in Messages : new.status[k] = IF k = m THEN "LocalAccepted" ELSE book.status[k]
    BY <1>1, <1>2 DEF Books
  <1>. HIDE DEF new
  <1>4. \A p \in new.outbox : Sendable(n, new, p)
    BY <1>2, PacketFacts DEF Sound, Sendable
  <1>5. ASSUME NEW k \in Messages
        PROVE  new.status[k] = "LocalAccepted" <=> MessageOf(k) \in new.outbox
    <2>1. MessageOf(k) = MessageOf(m) <=> k = m
      BY PacketFacts
    <2>. QED
      BY <1>2, <1>3, <2>1 DEF Sound
  <1>6. IsFiniteSet(new.outbox) /\ Cardinality(new.outbox) <= MaxPending
    <2>1. /\ IsFiniteSet(new.outbox) /\ Cardinality(book.outbox) \in Nat
          /\ Cardinality(new.outbox) \in {Cardinality(book.outbox), Cardinality(book.outbox) + 1}
      BY <1>2, FS_AddElement, FS_CardinalityType DEF Sound
    <2>. QED
      BY <2>1, ContactAssumption DEF Full
  <1>7. Sound(n, new)
    BY <1>2, <1>4, <1>5, <1>6 DEF Sound
  <1>. QED
    BY <1>2, <1>3, <1>7 DEF new

\* An entry that is not a pending message may leave the outbox.
LEMMA DropSound ==
    ASSUME NEW n \in Nodes, NEW book, Sound(n, book), NEW m \in Messages
    PROVE  LET new == [book EXCEPT !.outbox = @ \ {ReceiptOf(m)}]
           IN  Sound(n, new) /\ new.seen = book.seen /\ new.status = book.status
               /\ new.blocked = book.blocked
  <1>. DEFINE new == [book EXCEPT !.outbox = @ \ {ReceiptOf(m)}]
  <1>1. book \in Books
    BY DEF Sound
  <1>2. /\ new \in Books /\ new.contacts = book.contacts /\ new.blocked = book.blocked
        /\ new.status = book.status /\ new.shown = book.shown /\ new.seen = book.seen
        /\ new.outbox = book.outbox \ {ReceiptOf(m)}
    BY <1>1 DEF Books
  <1>3. \A k \in Messages : MessageOf(k) # ReceiptOf(m)
    BY PacketFacts
  <1>4. IsFiniteSet(new.outbox) /\ Cardinality(new.outbox) <= MaxPending
    <2>1. /\ IsFiniteSet(new.outbox) /\ Cardinality(new.outbox) \in Nat
          /\ Cardinality(book.outbox) \in Nat /\ Cardinality(new.outbox) <= Cardinality(book.outbox)
      BY <1>2, FS_Subset, FS_CardinalityType DEF Sound
    <2>. QED
      BY <2>1, ContactAssumption DEF Sound
  <1>. HIDE DEF new
  <1>5. Sound(n, new)
    BY <1>2, <1>3, <1>4 DEF Sound, Sendable
  <1>. QED
    BY <1>2, <1>5 DEF new

LEMMA SettledSound ==
    ASSUME NEW n \in Nodes, NEW book, Sound(n, book), NEW m \in Messages
    PROVE  LET new == Settled(book, m)
           IN  /\ Sound(n, new) /\ new.seen = book.seen /\ new.blocked = book.blocked
               /\ \A k \in Messages :
                     new.status[k] = "Delivered" => k = m \/ book.status[k] = "Delivered"
  <1>. DEFINE new == Settled(book, m)
  <1>1. CASE MessageOf(m) \notin book.outbox
    BY <1>1 DEF Settled
  <1>2. CASE MessageOf(m) \in book.outbox
    <2>1. book \in Books
      BY DEF Sound
    <2>2. /\ new \in Books /\ new.contacts = book.contacts /\ new.blocked = book.blocked
          /\ new.status = [book.status EXCEPT ![m] = "Delivered"]
          /\ new.shown = book.shown /\ new.seen = book.seen
          /\ new.outbox = book.outbox \ {MessageOf(m)}
      BY <1>2, <2>1 DEF Books, Statuses, Settled
    <2>3. \A k \in Messages : new.status[k] = IF k = m THEN "Delivered" ELSE book.status[k]
      BY <2>1, <2>2 DEF Books
    <2>4. IsFiniteSet(new.outbox) /\ Cardinality(new.outbox) <= MaxPending
      <3>1. /\ IsFiniteSet(new.outbox) /\ Cardinality(new.outbox) \in Nat
            /\ Cardinality(book.outbox) \in Nat /\ Cardinality(new.outbox) <= Cardinality(book.outbox)
        BY <2>2, FS_Subset, FS_CardinalityType DEF Sound
      <3>. QED
        BY <3>1, ContactAssumption DEF Sound
    <2>. HIDE DEF new
    <2>5. \A k \in Messages : new.status[k] = "LocalAccepted" <=> MessageOf(k) \in new.outbox
      <3>. TAKE k \in Messages
      <3>1. MessageOf(k) = MessageOf(m) <=> k = m
        BY PacketFacts
      <3>. QED
        BY <2>2, <2>3, <3>1 DEF Sound
    <2>6. Sound(n, new)
      BY <2>2, <2>4, <2>5 DEF Sound, Sendable
    <2>. QED
      BY <2>2, <2>3, <2>6 DEF new
  <1>. QED
    BY <1>1, <1>2

LEMMA ArchivedSound ==
    ASSUME NEW n \in Nodes, NEW book, Sound(n, book), NEW m \in Messages,
           To[m] = n, From[m] \in book.contacts \ book.blocked, ~Full(book)
    PROVE  LET new == Archived(book, m)
           IN  /\ Sound(n, new) /\ new.seen = book.seen \cup {m}
               /\ new.blocked = book.blocked /\ new.status = book.status
  <1>. DEFINE new == Archived(book, m)
  <1>1. book \in Books
    BY DEF Sound
  <1>2. /\ new \in Books /\ new.contacts = book.contacts /\ new.blocked = book.blocked
        /\ new.status = book.status /\ new.seen = book.seen \cup {m}
        /\ new.shown = [book.shown EXCEPT ![m] = IF m \in book.seen THEN @ ELSE @ + 1]
        /\ new.outbox = book.outbox \cup {ReceiptOf(m)}
    <2>. DEFINE shown == [book.shown EXCEPT ![m] = IF m \in book.seen THEN @ ELSE @ + 1]
    <2>1. /\ shown \in [Messages -> Nat]
          /\ book.outbox \cup {ReceiptOf(m)} \in SUBSET Packets
          /\ book.seen \cup {m} \in SUBSET Messages
      BY <1>1, PacketFacts DEF Books
    <2>2. new = [book EXCEPT !.shown = shown, !.seen = book.seen \cup {m},
                             !.outbox = book.outbox \cup {ReceiptOf(m)}]
      BY <1>1 DEF Books, Archived
    <2>. HIDE DEF shown
    <2>3. /\ new \in Books /\ new.contacts = book.contacts /\ new.blocked = book.blocked
          /\ new.status = book.status /\ new.seen = book.seen \cup {m} /\ new.shown = shown
          /\ new.outbox = book.outbox \cup {ReceiptOf(m)}
      BY <1>1, <2>1, <2>2 DEF Books
    <2>. QED
      BY <2>3 DEF shown
  <1>3. \A k \in Messages : new.shown[k] = IF k \in new.seen THEN 1 ELSE 0
    BY <1>1, <1>2 DEF Books, Sound
  <1>. HIDE DEF new
  <1>4. \A p \in new.outbox : Sendable(n, new, p)
    BY <1>2, PacketFacts DEF Sound, Sendable
  <1>5. \A k \in Messages : MessageOf(k) # ReceiptOf(m)
    BY PacketFacts
  <1>6. IsFiniteSet(new.outbox) /\ Cardinality(new.outbox) <= MaxPending
    <2>1. /\ IsFiniteSet(new.outbox) /\ Cardinality(book.outbox) \in Nat
          /\ Cardinality(new.outbox) \in {Cardinality(book.outbox), Cardinality(book.outbox) + 1}
      BY <1>2, FS_AddElement, FS_CardinalityType DEF Sound
    <2>. QED
      BY <2>1, ContactAssumption DEF Full
  <1>7. Sound(n, new)
    BY <1>2, <1>3, <1>4, <1>5, <1>6 DEF Sound
  <1>. QED
    BY <1>2, <1>7 DEF new

-----------------------------------------------------------------------------
(* What a change of one node's books does to the invariant.                *)

\* Memory becomes `kept', the file `written'; nothing seen is forgotten.
LEMMA StoredChanges ==
    ASSUME Stored, NEW n \in Nodes, NEW kept, NEW written,
           Sound(n, kept), Sound(n, written), Truthful(n, kept), Truthful(n, written),
           mem[n].seen \subseteq kept.seen, kept.seen \subseteq written.seen,
           mem' = [mem EXCEPT ![n] = kept], disk' = [disk EXCEPT ![n] = written]
    PROVE  /\ Stored'
           /\ \A k \in Nodes : mem[k].seen \subseteq mem'[k].seen
           /\ \A k \in Nodes : mem'[k] = IF k = n THEN kept ELSE mem[k]
  <1>1. mem \in [Nodes -> Books] /\ disk \in [Nodes -> Books]
    BY DEF Stored
  <1>2. kept \in Books /\ written \in Books
    BY DEF Sound
  <1>3. /\ mem' \in [Nodes -> Books] /\ disk' \in [Nodes -> Books]
        /\ \A k \in Nodes : mem'[k] = IF k = n THEN kept ELSE mem[k]
        /\ \A k \in Nodes : disk'[k] = IF k = n THEN written ELSE disk[k]
    BY <1>1, <1>2
  <1>4. \A k \in Nodes : mem[k].seen \subseteq mem'[k].seen
    BY <1>3
  <1>5. ASSUME NEW k \in Nodes
        PROVE  /\ Sound(k, mem[k])' /\ Sound(k, disk[k])' /\ (mem[k].seen \subseteq disk[k].seen)'
    <2>1. Sound(k, mem'[k]) /\ Sound(k, disk'[k]) /\ mem'[k].seen \subseteq disk'[k].seen
      BY <1>3 DEF Stored
    <2>. QED
      BY <2>1 DEF Sound, Sendable
  <1>6. ASSUME NEW k \in Nodes
        PROVE  Truthful(k, mem[k])' /\ Truthful(k, disk[k])'
    <2>1. Truthful(k, mem'[k]) /\ Truthful(k, disk'[k])
      BY <1>3 DEF Stored
    <2>2. \A m \in Messages : mem[To[m]].seen \subseteq mem'[To[m]].seen
      BY <1>4, ContactAssumption
    <2>. QED
      BY <2>1, <2>2 DEF Truthful
  <1>. QED
    BY <1>3, <1>4, <1>5, <1>6 DEF Stored

\* What a node receives and sends stays true.
LEMMA ArrivingKept ==
    ASSUME Arriving, \A k \in Nodes : mem[k].seen \subseteq mem'[k].seen, inbox' = inbox
    PROVE  Arriving'
  <1>1. \A n \in Nodes : \A p \in inbox[n] : Source(p) \in Nodes
    BY PacketShape DEF Arriving
  <1>. QED
    BY <1>1 DEF Arriving, Source, Target

LEMMA LeavingKept ==
    ASSUME Leaving, NEW n \in Nodes,
           mem[n].seen \subseteq mem'[n].seen,
           (mem'[n].contacts = mem[n].contacts /\ mem'[n].blocked = mem[n].blocked) \/ ~Sending(n),
           \A k \in Nodes \ {n} : mem'[k] = mem[k],
           worker' = worker
    PROVE  Leaving'
  <1>1. \A k \in Nodes : Sending(k)' <=> Sending(k)
    BY DEF Sending
  <1>2. ASSUME NEW k \in Nodes, Sending(k), NEW p \in worker[k].packet
        PROVE  Sendable(k, mem[k], p)'
    <2>1. Sendable(k, mem[k], p)
      BY <1>2 DEF Leaving
    <2>. QED
      BY <1>2, <2>1 DEF Sendable, Source, Target
  <1>. QED
    BY <1>1, <1>2 DEF Leaving

\* A worker that goes on without a packet to submit.
LEMMA LeavingMoves ==
    ASSUME Leaving, NEW n \in Nodes, NEW state \in Workers,
           state.at \notin {"submit", "record"},
           \A k \in Nodes \ {n} : mem'[k] = mem[k],
           worker' = [worker EXCEPT ![n] = state]
    PROVE  Leaving'
  <1>1. worker \in [Nodes -> Workers]
    BY DEF Leaving
  <1>2. /\ worker' \in [Nodes -> Workers]
        /\ \A k \in Nodes : worker'[k] = IF k = n THEN state ELSE worker[k]
    BY <1>1
  <1>3. ~Sending(n)' /\ \A k \in Nodes \ {n} : Sending(k)' <=> Sending(k)
    BY <1>2 DEF Sending
  <1>4. ASSUME NEW k \in Nodes \ {n}, Sending(k), NEW p \in worker[k].packet
        PROVE  Sendable(k, mem[k], p)'
    <2>1. Sendable(k, mem[k], p)
      BY <1>4 DEF Leaving
    <2>. QED
      BY <2>1 DEF Sendable, Source, Target
  <1>. QED
    BY <1>2, <1>3, <1>4 DEF Leaving

LEMMA ScanningType == Scanning \in Workers /\ Scanning.at = "scan"
  BY DEF Scanning, Workers

LEMMA RestType ==
    ASSUME NEW batch \in SUBSET Packets, NEW p
    PROVE  Rest(batch, p) \in Workers /\ Rest(batch, p).at \in {"scan", "send"}
  BY DEF Rest, Scanning, Workers

LEMMA SaveStep ==
    ASSUME Stored, NEW n \in Nodes, NEW book, Sound(n, book), Truthful(n, book),
           mem[n].seen \subseteq book.seen, Saved(n, book) \/ SaveFails(n, book)
    PROVE  /\ Stored'
           /\ \A k \in Nodes : mem[k].seen \subseteq mem'[k].seen
           /\ \A k \in Nodes \ {n} : mem'[k] = mem[k]
           /\ mem'[n] \in {mem[n], book}
  <1>1. mem = [mem EXCEPT ![n] = mem[n]] /\ disk = [disk EXCEPT ![n] = disk[n]]
    BY DEF Stored
  <1>2. CASE Saved(n, book)
    <2>1. mem' = [mem EXCEPT ![n] = book] /\ disk' = [disk EXCEPT ![n] = book]
      BY <1>2 DEF Saved
    <2>. QED
      BY <2>1, StoredChanges
  <1>3. CASE SaveFails(n, book)
    <2>1. PICK written \in {disk[n], book} : disk' = [disk EXCEPT ![n] = written]
      BY <1>1, <1>3 DEF SaveFails
    <2>2. mem' = [mem EXCEPT ![n] = mem[n]]
      BY <1>1, <1>3 DEF SaveFails
    <2>3. /\ Sound(n, mem[n]) /\ Truthful(n, mem[n]) /\ Sound(n, written) /\ Truthful(n, written)
          /\ mem[n].seen \subseteq written.seen
      BY <2>1 DEF Stored
    <2>4. /\ Stored'
          /\ \A k \in Nodes : mem[k].seen \subseteq mem'[k].seen
          /\ \A k \in Nodes : mem'[k] = IF k = n THEN mem[n] ELSE mem[k]
      BY <2>1, <2>2, <2>3, StoredChanges
    <2>. QED
      BY <2>4
  <1>. QED
    BY <1>2, <1>3

LEMMA CountedSaves ==
    ASSUME Counted, NEW n, NEW book, SaveFails(n, book), used' = used
    PROVE  Counted'
  BY DEF Counted, SaveFails

LEMMA EditStep ==
    ASSUME Inv, NEW n \in Nodes, NEW book, Sound(n, book), Truthful(n, book),
           mem[n].seen \subseteq book.seen, MayOrder(n), Edit(n, book)
    PROVE  Inv'
  <1>1. /\ Stored'
        /\ \A k \in Nodes : mem[k].seen \subseteq mem'[k].seen
        /\ \A k \in Nodes \ {n} : mem'[k] = mem[k]
    BY SaveStep DEF Inv, Edit
  <1>2. Arriving'
    BY <1>1, ArrivingKept DEF Inv, Edit
  <1>3. Leaving'
    BY <1>1, LeavingKept DEF Inv, Edit, MayOrder
  <1>4. Counted'
    BY CountedSaves DEF Inv, Edit, Counted, bounds
  <1>. QED
    BY <1>1, <1>2, <1>3, <1>4 DEF Inv

-----------------------------------------------------------------------------
(* The steps of the user.                                                  *)

LEMMA InvBooks ==
    ASSUME Stored, NEW n \in Nodes
    PROVE  Sound(n, mem[n]) /\ Truthful(n, mem[n]) /\ mem[n] \in Books
  BY DEF Stored

LEMMA AddContactStep ==
    ASSUME Inv, NEW n \in Nodes, NEW peer \in Nodes, AddContact(n, peer)
    PROVE  Inv'
  <1>. DEFINE book == [mem[n] EXCEPT !.contacts = @ \cup {peer}]
  <1>1. Sound(n, mem[n]) /\ Truthful(n, mem[n])
    BY InvBooks DEF Inv
  <1>2. Sound(n, book) /\ book.seen = mem[n].seen /\ book.status = mem[n].status
    BY <1>1, AddSound
  <1>3. MayOrder(n) /\ Edit(n, book)
    BY DEF AddContact
  <1>. HIDE DEF book
  <1>4. Truthful(n, book)
    BY <1>1, <1>2 DEF Truthful
  <1>. QED
    BY <1>2, <1>3, <1>4, EditStep

LEMMA UnblockStep ==
    ASSUME Inv, NEW n \in Nodes, NEW peer \in Nodes, Unblock(n, peer)
    PROVE  Inv'
  <1>. DEFINE book == [mem[n] EXCEPT !.blocked = @ \ {peer}]
  <1>1. Sound(n, mem[n]) /\ Truthful(n, mem[n])
    BY InvBooks DEF Inv
  <1>2. Sound(n, book) /\ book.seen = mem[n].seen /\ book.status = mem[n].status
    BY <1>1, UnblockSound
  <1>3. MayOrder(n) /\ Edit(n, book)
    BY DEF Unblock
  <1>. HIDE DEF book
  <1>4. Truthful(n, book)
    BY <1>1, <1>2 DEF Truthful
  <1>. QED
    BY <1>2, <1>3, <1>4, EditStep

LEMMA BlockStep ==
    ASSUME Inv, NEW n \in Nodes, NEW peer \in Nodes, Block(n, peer)
    PROVE  Inv'
  <1>. DEFINE book == Blocked(mem[n], n, peer)
  <1>1. Sound(n, mem[n]) /\ Truthful(n, mem[n])
    BY InvBooks DEF Inv
  <1>2. /\ Sound(n, book) /\ book.seen = mem[n].seen
        /\ \A m \in Messages : book.status[m] = "Delivered" => mem[n].status[m] = "Delivered"
    BY <1>1, BlockSound
  <1>3. MayOrder(n) /\ Edit(n, book)
    BY DEF Block
  <1>. HIDE DEF book
  <1>4. Truthful(n, book)
    BY <1>1, <1>2 DEF Truthful
  <1>. QED
    BY <1>2, <1>3, <1>4, EditStep

\* An ordinary send may come while the worker submits: it blocks nobody.
LEMMA QueueStep ==
    ASSUME Inv, NEW n \in Nodes, NEW m \in Messages, Queue(n, m)
    PROVE  Inv'
  <1>. DEFINE book == [mem[n] EXCEPT !.status[m] = "LocalAccepted",
                                     !.outbox = @ \cup {MessageOf(m)}]
  <1>1. Sound(n, mem[n]) /\ Truthful(n, mem[n])
    BY InvBooks DEF Inv
  <1>2. From[m] = n /\ ~Full(mem[n]) /\ To[m] \in mem[n].contacts \ mem[n].blocked
    BY DEF Queue
  <1>3. /\ Sound(n, book) /\ book.seen = mem[n].seen /\ book.blocked = mem[n].blocked
        /\ \A k \in Messages : book.status[k] = "Delivered" => mem[n].status[k] = "Delivered"
    BY <1>1, <1>2, QueueSound
  <1>4. book.contacts = mem[n].contacts
    BY <1>1 DEF Sound, Books
  <1>5. /\ (Saved(n, book) /\ UNCHANGED bounds) \/ SaveFails(n, book)
        /\ used' = used \cup {m} /\ UNCHANGED <<worker, inbox>>
    BY DEF Queue
  <1>. HIDE DEF book
  <1>6. Truthful(n, book)
    BY <1>1, <1>3 DEF Truthful
  <1>7. /\ Stored'
        /\ \A k \in Nodes : mem[k].seen \subseteq mem'[k].seen
        /\ \A k \in Nodes \ {n} : mem'[k] = mem[k]
        /\ mem'[n] \in {mem[n], book}
    BY <1>3, <1>5, <1>6, SaveStep DEF Inv
  <1>8. Arriving'
    BY <1>5, <1>7, ArrivingKept DEF Inv
  <1>9. Leaving'
    BY <1>3, <1>4, <1>5, <1>7, LeavingKept DEF Inv
  <1>10. Counted'
    BY <1>5 DEF Inv, Counted, bounds, SaveFails
  <1>. QED
    BY <1>7, <1>8, <1>9, <1>10 DEF Inv

-----------------------------------------------------------------------------
(* The steps of the worker.                                                *)

\* The receipt that settles a message is true; a message finds room.
LEMMA ReceivedSound ==
    ASSUME Inv, NEW n \in Nodes, NEW p \in inbox[n], ~Deferred(mem[n], p)
    PROVE  LET book == Received(mem[n], p)
           IN  Sound(n, book) /\ Truthful(n, book) /\ mem[n].seen \subseteq book.seen
  <1>1. Sound(n, mem[n]) /\ Truthful(n, mem[n])
    BY InvBooks DEF Inv
  <1>2. p \in Packets /\ Target(p) = n /\ (p.kind = "receipt" => p.message \in mem[Source(p)].seen)
    BY DEF Inv, Arriving
  <1>3. p.message \in Messages /\ p.kind \in {"message", "receipt"}
    BY <1>2, PacketShape
  <1>4. CASE ~Welcome(mem[n], p)
    BY <1>1, <1>4 DEF Received
  <1>5. CASE Welcome(mem[n], p) /\ p.kind = "receipt"
    <2>. DEFINE book == Settled(mem[n], p.message)
    <2>1. Received(mem[n], p) = book
      BY <1>5 DEF Received
    <2>2. /\ Sound(n, book) /\ book.seen = mem[n].seen
          /\ \A k \in Messages :
                book.status[k] = "Delivered" => k = p.message \/ mem[n].status[k] = "Delivered"
      BY <1>1, <1>3, SettledSound
    <2>3. p.message \in mem[To[p.message]].seen
      BY <1>2, <1>5 DEF Source
    <2>. HIDE DEF book
    <2>4. Truthful(n, book)
      BY <1>1, <2>2, <2>3 DEF Truthful
    <2>. QED
      BY <2>1, <2>2, <2>4
  <1>6. CASE Welcome(mem[n], p) /\ p.kind = "message"
    <2>. DEFINE book == Archived(mem[n], p.message)
    <2>1. Received(mem[n], p) = book
      BY <1>6 DEF Received
    <2>2. To[p.message] = n /\ From[p.message] \in mem[n].contacts \ mem[n].blocked /\ ~Full(mem[n])
      BY <1>2, <1>6 DEF Welcome, Deferred, Source, Target
    <2>3. /\ Sound(n, book) /\ book.seen = mem[n].seen \cup {p.message}
          /\ book.status = mem[n].status
      BY <1>1, <1>3, <2>2, ArchivedSound
    <2>. HIDE DEF book
    <2>4. Truthful(n, book)
      BY <1>1, <2>3 DEF Truthful
    <2>. QED
      BY <2>1, <2>3, <2>4
  <1>. QED
    BY <1>3, <1>4, <1>5, <1>6

LEMMA UnchangedBooks ==
    ASSUME Stored, UNCHANGED <<mem, disk>>
    PROVE  Stored'
  BY DEF Stored, Sound, Sendable, Truthful

LEMMA TakeStep ==
    ASSUME Inv, NEW n \in Nodes, NEW p \in inbox[n], Take(n, p)
    PROVE  Inv'
  <1>. DEFINE book == Received(mem[n], p)
              state == [Scanning EXCEPT !.at = "commit", !.packet = {p}]
  <1>1. Sound(n, book) /\ Truthful(n, book) /\ mem[n].seen \subseteq book.seen
    BY ReceivedSound DEF Take
  <1>2. p \in Packets
    BY DEF Inv, Arriving
  <1>3. state \in Workers /\ state.at = "commit"
    BY <1>2 DEF Scanning, Workers
  <1>4. /\ UNCHANGED <<mem, disk>> \/ Saved(n, book)
        /\ worker' = [worker EXCEPT ![n] = state]
        /\ UNCHANGED <<used, inbox, bounds>>
    BY DEF Take
  <1>. HIDE DEF book, state
  <1>5. /\ Stored'
        /\ \A k \in Nodes : mem[k].seen \subseteq mem'[k].seen
        /\ \A k \in Nodes \ {n} : mem'[k] = mem[k]
    BY <1>1, <1>4, SaveStep, UnchangedBooks DEF Inv
  <1>6. Arriving'
    BY <1>4, <1>5, ArrivingKept DEF Inv
  <1>7. Leaving'
    BY <1>3, <1>4, <1>5, LeavingMoves DEF Inv
  <1>. QED
    BY <1>4, <1>5, <1>6, <1>7 DEF Inv, Counted, bounds

LEMMA TakeFailsStep ==
    ASSUME Inv, NEW n \in Nodes, NEW p \in inbox[n], TakeFails(n, p)
    PROVE  Inv'
  <1>. DEFINE book == Received(mem[n], p)
  <1>1. Sound(n, book) /\ Truthful(n, book) /\ mem[n].seen \subseteq book.seen
    BY ReceivedSound DEF TakeFails
  <1>2. SaveFails(n, book) /\ UNCHANGED <<worker, used, inbox>> /\ ~Sending(n)
    BY DEF TakeFails, At, Sending
  <1>. HIDE DEF book
  <1>3. Edit(n, book) /\ MayOrder(n)
    BY <1>2 DEF Edit, MayOrder
  <1>. QED
    BY <1>1, <1>3, EditStep

\* Steps that leave both books alone and end with no packet to submit.
LEMMA MoveStep ==
    ASSUME Inv, NEW n \in Nodes, NEW state \in Workers, state.at \notin {"submit", "record"},
           UNCHANGED <<mem, disk, used, bounds>>, worker' = [worker EXCEPT ![n] = state],
           inbox' \in [Nodes -> SUBSET Packets], \A k \in Nodes : inbox'[k] \subseteq inbox[k]
    PROVE  Inv'
  <1>1. Stored'
    BY UnchangedBooks DEF Inv
  <1>2. Arriving'
    BY DEF Inv, Arriving, Source, Target
  <1>3. Leaving'
    BY LeavingMoves DEF Inv
  <1>. QED
    BY <1>1, <1>2, <1>3 DEF Inv, Counted, bounds

LEMMA CommitStep ==
    ASSUME Inv, NEW n \in Nodes, Commit(n)
    PROVE  Inv'
  <1>1. inbox \in [Nodes -> SUBSET Packets]
    BY DEF Inv, Arriving
  <1>2. inbox' \in [Nodes -> SUBSET Packets] /\ \A k \in Nodes : inbox'[k] \subseteq inbox[k]
    BY <1>1 DEF Commit
  <1>3. worker' = [worker EXCEPT ![n] = Scanning] /\ UNCHANGED <<mem, disk, used, bounds>>
    BY DEF Commit
  <1>. QED
    BY <1>2, <1>3, ScanningType, MoveStep

LEMMA SelectStep ==
    ASSUME Inv, NEW n \in Nodes, NEW batch \in SUBSET mem[n].outbox, Select(n, batch)
    PROVE  Inv'
  <1>. DEFINE state == [Scanning EXCEPT !.at = "send", !.batch = batch]
  <1>1. mem[n].outbox \subseteq Packets
    BY InvBooks DEF Inv, Books
  <1>2. state \in Workers /\ state.at = "send"
    BY <1>1 DEF Scanning, Workers
  <1>3. inbox \in [Nodes -> SUBSET Packets]
    BY DEF Inv, Arriving
  <1>4. worker' = [worker EXCEPT ![n] = state] /\ UNCHANGED <<mem, disk, used, inbox, bounds>>
    BY DEF Select
  <1>. HIDE DEF state
  <1>. QED
    BY <1>2, <1>3, <1>4, MoveStep

LEMMA SkipStep ==
    ASSUME Inv, NEW n \in Nodes, Skip(n)
    PROVE  Inv'
  <1>1. PICK p : /\ worker' = [worker EXCEPT ![n] = Rest(worker[n].batch, p)]
                 /\ UNCHANGED <<mem, disk, used, inbox, bounds>>
    BY DEF Skip
  <1>2. worker[n].batch \in SUBSET Packets /\ inbox \in [Nodes -> SUBSET Packets]
    BY DEF Inv, Leaving, Arriving, Workers
  <1>3. Rest(worker[n].batch, p) \in Workers /\ Rest(worker[n].batch, p).at \in {"scan", "send"}
    BY <1>2, RestType
  <1>. QED
    BY <1>1, <1>2, <1>3, MoveStep

\* The batch is a copy: the second look makes the packet one the node may keep.
LEMMA PrepareStep ==
    ASSUME Inv, NEW n \in Nodes, Prepare(n)
    PROVE  Inv'
  <1>1. PICK p \in worker[n].batch :
            /\ p \in mem[n].outbox
            /\ worker' = [worker EXCEPT ![n].at = "submit", ![n].packet = {p}]
            /\ UNCHANGED <<mem, disk, used, inbox, bounds>>
    BY DEF Prepare, First, StillPending
  <1>2. /\ worker \in [Nodes -> Workers]
        /\ worker[n].batch \in SUBSET Packets /\ worker[n].sent \in BOOLEAN
    BY DEF Inv, Leaving, Workers
  <1>. DEFINE state == [worker[n] EXCEPT !.at = "submit", !.packet = {p}]
  <1>3. state \in Workers /\ state.packet = {p} /\ state.batch = worker[n].batch
    BY <1>1, <1>2 DEF Workers
  <1>4. worker' = [worker EXCEPT ![n] = state]
    BY <1>1, <1>2 DEF Workers
  <1>. HIDE DEF state
  <1>5. /\ worker' \in [Nodes -> Workers]
        /\ \A k \in Nodes : worker'[k] = IF k = n THEN state ELSE worker[k]
    BY <1>2, <1>3, <1>4
  <1>6. Sendable(n, mem[n], p)
    BY <1>1 DEF Inv, Stored, Sound
  <1>7. \A k \in Nodes : Sending(k)' => k = n \/ Sending(k)
    BY <1>5 DEF Sending
  <1>8. ASSUME NEW k \in Nodes, Sending(k)'
        PROVE  /\ \E q \in worker'[k].batch : worker'[k].packet = {q}
               /\ \A q \in worker'[k].packet : Sendable(k, mem[k], q)
    <2>1. CASE k = n
      BY <1>1, <1>3, <1>5, <1>6, <2>1
    <2>2. CASE k # n
      BY <1>5, <1>7, <1>8, <2>2 DEF Inv, Leaving
    <2>. QED
      BY <2>1, <2>2
  <1>9. Leaving'
    <2>1. mem' = mem
      BY <1>1
    <2>. QED
      BY <1>5, <1>8, <2>1 DEF Leaving, Sendable, Source, Target
  <1>10. Stored' /\ Arriving'
    BY <1>1, UnchangedBooks, ArrivingKept DEF Inv
  <1>. QED
    BY <1>1, <1>9, <1>10 DEF Inv, Counted, bounds

LEMMA SubmitStep ==
    ASSUME Inv, NEW n \in Nodes, Submit(n)
    PROVE  Inv'
  <1>1. PICK p \in worker[n].packet :
            /\ At(n, "submit")
            /\ inbox' \in {inbox, Sent(p)}
            /\ \/ worker' = [worker EXCEPT ![n].at = "record", ![n].sent = TRUE]
               \/ worker' = [worker EXCEPT ![n].at = "record"]
            /\ UNCHANGED <<mem, disk, used, restarts>>
            /\ failures' \in Nat
    BY DEF Submit, bounds, Inv, Counted
  <1>2. worker \in [Nodes -> Workers] /\ Sending(n)
    BY <1>1 DEF Inv, Leaving, At, Sending
  <1>3. worker[n] \in Workers /\ p \in Packets
    BY <1>2 DEF Workers
  <1>4. Sendable(n, mem[n], p)
    BY <1>2 DEF Inv, Leaving
  <1>5. PICK state \in Workers :
            /\ state.at = "record" /\ state.packet = worker[n].packet
            /\ state.batch = worker[n].batch
            /\ worker' = [worker EXCEPT ![n] = state]
    <2>1. CASE worker' = [worker EXCEPT ![n].at = "record", ![n].sent = TRUE]
      <3>. DEFINE new == [worker[n] EXCEPT !.at = "record", !.sent = TRUE]
      <3>1. /\ new \in Workers /\ new.at = "record" /\ new.packet = worker[n].packet
            /\ new.batch = worker[n].batch
        BY <1>3 DEF Workers
      <3>2. worker' = [worker EXCEPT ![n] = new]
        BY <1>2, <1>3, <2>1 DEF Workers
      <3>. QED
        BY <3>1, <3>2
    <2>2. CASE worker' = [worker EXCEPT ![n].at = "record"]
      <3>. DEFINE new == [worker[n] EXCEPT !.at = "record"]
      <3>1. /\ new \in Workers /\ new.at = "record" /\ new.packet = worker[n].packet
            /\ new.batch = worker[n].batch
        BY <1>3 DEF Workers
      <3>2. worker' = [worker EXCEPT ![n] = new]
        BY <1>2, <1>3, <2>2 DEF Workers
      <3>. QED
        BY <3>1, <3>2
    <2>. QED
      BY <1>1, <2>1, <2>2
  <1>6. /\ worker' \in [Nodes -> Workers]
        /\ \A k \in Nodes : worker'[k] = IF k = n THEN state ELSE worker[k]
    BY <1>2, <1>5
  <1>7. Leaving'
    <2>1. \A k \in Nodes : /\ Sending(k)' => Sending(k)
                           /\ worker'[k].packet = worker[k].packet
                           /\ worker'[k].batch = worker[k].batch
      BY <1>2, <1>5, <1>6 DEF Sending
    <2>2. mem' = mem
      BY <1>1
    <2>. QED
      BY <1>6, <2>1, <2>2 DEF Inv, Leaving, Sendable, Source, Target
  <1>8. Arriving'
    <2>1. inbox \in [Nodes -> SUBSET Packets] /\ Target(p) \in Nodes
      BY <1>3, PacketShape DEF Inv, Arriving
    <2>2. /\ inbox' \in [Nodes -> SUBSET Packets]
          /\ \A k \in Nodes : \A q \in inbox'[k] : q \in inbox[k] \/ (q = p /\ k = Target(p))
      BY <1>1, <1>3, <2>1 DEF Sent
    <2>3. p.kind = "receipt" => p.message \in mem[Source(p)].seen
      BY <1>4 DEF Sendable
    <2>4. mem' = mem
      BY <1>1
    <2>. QED
      BY <2>2, <2>3, <2>4 DEF Inv, Arriving, Source, Target
  <1>9. Stored' /\ Counted'
    BY <1>1, UnchangedBooks DEF Inv, Counted
  <1>. QED
    BY <1>7, <1>8, <1>9 DEF Inv

LEMMA RecordedSound ==
    ASSUME Stored, NEW n \in Nodes, NEW p \in Packets, NEW sent
    PROVE  LET book == Recorded(mem[n], p, sent)
           IN  Sound(n, book) /\ Truthful(n, book) /\ mem[n].seen \subseteq book.seen
  <1>1. Sound(n, mem[n]) /\ Truthful(n, mem[n])
    BY InvBooks
  <1>2. CASE p.kind = "receipt" /\ sent
    <2>. DEFINE book == [mem[n] EXCEPT !.outbox = @ \ {ReceiptOf(p.message)}]
    <2>1. p.message \in Messages /\ p = ReceiptOf(p.message)
      BY <1>2, PacketShape
    <2>2. Recorded(mem[n], p, sent) = book
      BY <1>2, <2>1 DEF Recorded
    <2>3. Sound(n, book) /\ book.seen = mem[n].seen /\ book.status = mem[n].status
      BY <1>1, <2>1, DropSound
    <2>. HIDE DEF book
    <2>4. Truthful(n, book)
      BY <1>1, <2>3 DEF Truthful
    <2>. QED
      BY <2>2, <2>3, <2>4
  <1>3. CASE ~(p.kind = "receipt" /\ sent)
    BY <1>1, <1>3 DEF Recorded
  <1>. QED
    BY <1>2, <1>3

LEMMA RecordStep ==
    ASSUME Inv, NEW n \in Nodes, Record(n)
    PROVE  Inv'
  <1>1. PICK p \in worker[n].packet :
            /\ UNCHANGED <<mem, disk>> \/ Saved(n, Recorded(mem[n], p, worker[n].sent))
            /\ worker' = [worker EXCEPT ![n] = Rest(worker[n].batch, p)]
            /\ UNCHANGED <<used, inbox, bounds>>
    BY DEF Record
  <1>2. p \in Packets /\ worker[n].batch \in SUBSET Packets
    BY DEF Inv, Leaving, Workers
  <1>. DEFINE book == Recorded(mem[n], p, worker[n].sent)
  <1>3. Sound(n, book) /\ Truthful(n, book) /\ mem[n].seen \subseteq book.seen
    BY <1>2, RecordedSound DEF Inv
  <1>. HIDE DEF book
  <1>4. /\ Stored'
        /\ \A k \in Nodes : mem[k].seen \subseteq mem'[k].seen
        /\ \A k \in Nodes \ {n} : mem'[k] = mem[k]
    <2>1. CASE UNCHANGED <<mem, disk>>
      BY <2>1, UnchangedBooks DEF Inv
    <2>2. CASE Saved(n, book)
      BY <1>3, <2>2, SaveStep DEF Inv
    <2>. QED
      BY <1>1, <2>1, <2>2 DEF book
  <1>5. Arriving'
    BY <1>1, <1>4, ArrivingKept DEF Inv
  <1>6. Rest(worker[n].batch, p) \in Workers /\ Rest(worker[n].batch, p).at \in {"scan", "send"}
    BY <1>2, RestType
  <1>7. Leaving'
    BY <1>1, <1>4, <1>6, LeavingMoves DEF Inv
  <1>. QED
    BY <1>1, <1>4, <1>5, <1>7 DEF Inv, Counted, bounds

LEMMA RecordFailsStep ==
    ASSUME Inv, NEW n \in Nodes, RecordFails(n)
    PROVE  Inv'
  <1>1. PICK p \in worker[n].packet :
            /\ SaveFails(n, Recorded(mem[n], p, worker[n].sent))
            /\ worker' = [worker EXCEPT ![n] = Scanning]
            /\ UNCHANGED <<used, inbox>>
    BY DEF RecordFails
  <1>2. p \in Packets
    BY DEF Inv, Leaving, Workers
  <1>. DEFINE book == Recorded(mem[n], p, worker[n].sent)
  <1>3. Sound(n, book) /\ Truthful(n, book) /\ mem[n].seen \subseteq book.seen
    BY <1>2, RecordedSound DEF Inv
  <1>4. SaveFails(n, book)
    BY <1>1
  <1>. HIDE DEF book
  <1>5. /\ Stored'
        /\ \A k \in Nodes : mem[k].seen \subseteq mem'[k].seen
        /\ \A k \in Nodes \ {n} : mem'[k] = mem[k]
    BY <1>3, <1>4, SaveStep DEF Inv
  <1>6. Arriving'
    BY <1>1, <1>5, ArrivingKept DEF Inv
  <1>7. Leaving'
    BY <1>1, <1>5, ScanningType, LeavingMoves DEF Inv
  <1>8. Counted'
    BY <1>1, <1>4, CountedSaves DEF Inv
  <1>. QED
    BY <1>5, <1>6, <1>7, <1>8 DEF Inv

-----------------------------------------------------------------------------
(* The process.                                                            *)

LEMMA OtherSaveStep ==
    ASSUME Inv, NEW n \in Nodes, OtherSave(n)
    PROVE  Inv'
  <1>1. mem' = [mem EXCEPT ![n] = mem[n]] /\ disk' = [disk EXCEPT ![n] = mem[n]]
    BY DEF Inv, Stored, OtherSave
  <1>2. UNCHANGED <<mem, worker, used, inbox, bounds>>
    BY DEF OtherSave
  <1>3. Stored'
    BY <1>1, InvBooks, StoredChanges DEF Inv
  <1>4. Arriving' /\ Leaving'
    BY <1>2, ArrivingKept, LeavingKept DEF Inv
  <1>. QED
    BY <1>2, <1>3, <1>4 DEF Inv, Counted, bounds

LEMMA RestartStep ==
    ASSUME Inv, NEW n \in Nodes, Restart(n)
    PROVE  Inv'
  <1>1. /\ mem' = [mem EXCEPT ![n] = disk[n]] /\ disk' = [disk EXCEPT ![n] = disk[n]]
        /\ worker' = [worker EXCEPT ![n] = Scanning] /\ UNCHANGED <<used, inbox, failures>>
        /\ restarts' \in Nat
    BY DEF Inv, Stored, Counted, Restart
  <1>2. Sound(n, disk[n]) /\ Truthful(n, disk[n]) /\ mem[n].seen \subseteq disk[n].seen
    BY DEF Inv, Stored
  <1>3. /\ Stored'
        /\ \A k \in Nodes : mem[k].seen \subseteq mem'[k].seen
        /\ \A k \in Nodes : mem'[k] = IF k = n THEN disk[n] ELSE mem[k]
    BY <1>1, <1>2, StoredChanges DEF Inv
  <1>4. Arriving'
    BY <1>1, <1>3, ArrivingKept DEF Inv
  <1>5. Leaving'
    BY <1>1, <1>3, ScanningType, LeavingMoves DEF Inv
  <1>. QED
    BY <1>1, <1>3, <1>4, <1>5 DEF Inv, Counted

-----------------------------------------------------------------------------
(* The invariant holds.                                                    *)

LEMMA InitInv == Init => Inv
  <1>. SUFFICES ASSUME Init PROVE Inv
    OBVIOUS
  <1>1. /\ \A n \in Nodes : mem[n] = EmptyBook /\ disk[n] = EmptyBook
        /\ \A n \in Nodes : worker[n] = Scanning /\ inbox[n] = {}
    BY DEF Init
  <1>2. mem \in [Nodes -> Books] /\ disk \in [Nodes -> Books]
    BY EmptySound DEF Init
  <1>3. \A n \in Nodes : Truthful(n, EmptyBook)
    BY DEF Truthful, EmptyBook
  <1>4. Stored
    BY <1>1, <1>2, <1>3, EmptySound DEF Stored
  <1>5. Arriving
    BY <1>1 DEF Init, Arriving
  <1>6. Leaving
    BY <1>1, ScanningType DEF Init, Leaving, Sending
  <1>. QED
    BY <1>4, <1>5, <1>6 DEF Inv, Init, Counted

LEMMA NextInv == Inv /\ [Next]_vars => Inv'
  <1>. SUFFICES ASSUME Inv, [Next]_vars PROVE Inv'
    OBVIOUS
  <1>1. CASE UNCHANGED vars
    <2>1. UNCHANGED <<mem, disk, worker, used, inbox, failures, restarts>>
      BY <1>1 DEF vars, bounds
    <2>2. Stored' /\ Arriving'
      BY <2>1, UnchangedBooks, ArrivingKept DEF Inv
    <2>3. Leaving'
      BY <2>1 DEF Inv, Leaving, Sending, Sendable, Source, Target
    <2>. QED
      BY <2>1, <2>2, <2>3 DEF Inv, Counted
  <1>2. CASE Next
    <2>. PICK n \in Nodes :
            \/ \E peer \in Nodes \ {n} : AddContact(n, peer) \/ Block(n, peer) \/ Unblock(n, peer)
            \/ \E m \in Messages : Queue(n, m)
            \/ \E p \in inbox[n] : Take(n, p) \/ TakeFails(n, p)
            \/ Commit(n)
            \/ \E batch \in SUBSET mem[n].outbox : Select(n, batch)
            \/ Skip(n) \/ Prepare(n) \/ Submit(n) \/ Record(n) \/ RecordFails(n)
            \/ OtherSave(n) \/ Restart(n)
      BY <1>2 DEF Next
    <2>1. ASSUME NEW peer \in Nodes, AddContact(n, peer) \/ Block(n, peer) \/ Unblock(n, peer)
          PROVE  Inv'
      BY <2>1, AddContactStep, BlockStep, UnblockStep
    <2>2. ASSUME NEW m \in Messages, Queue(n, m) PROVE Inv'
      BY <2>2, QueueStep
    <2>3. ASSUME NEW p \in inbox[n], Take(n, p) \/ TakeFails(n, p) PROVE Inv'
      BY <2>3, TakeStep, TakeFailsStep
    <2>4. CASE Commit(n)
      BY <2>4, CommitStep
    <2>5. ASSUME NEW batch \in SUBSET mem[n].outbox, Select(n, batch) PROVE Inv'
      BY <2>5, SelectStep
    <2>6. CASE Skip(n) \/ Prepare(n) \/ Submit(n) \/ Record(n) \/ RecordFails(n)
      BY <2>6, SkipStep, PrepareStep, SubmitStep, RecordStep, RecordFailsStep
    <2>7. CASE OtherSave(n) \/ Restart(n)
      BY <2>7, OtherSaveStep, RestartStep
    <2>. QED
      BY <2>1, <2>2, <2>3, <2>4, <2>5, <2>6, <2>7
  <1>. QED
    BY <1>1, <1>2

\* Books that are sound and truthful, true packets: always.
THEOREM Invariance == Spec => []Inv
  <1>. QED
    BY InitInv, NextInv, PTL DEF Spec

-----------------------------------------------------------------------------
(* What it gives.                                                          *)

\* Every variable has its shape; nodes keep and queue only what is their own.
THEOREM TypeCorrect == Spec => []TypeOK
  <1>1. Inv => TypeOK
    BY DEF Inv, Stored, Arriving, Leaving, Counted, Sound, Sendable, TypeOK
  <1>. QED
    BY <1>1, Invariance, PTL

\* Whatever is delivered again, fails or restarts, a message is archived once
\* (receive).
THEOREM ArchivesOnce == Spec => []MessageArchivedOnce
  <1>1. Inv => MessageArchivedOnce
    BY DEF Inv, Stored, Sound, MessageArchivedOnce
  <1>. QED
    BY <1>1, Invariance, PTL

\* What the sender's archive calls delivered is in the recipient's file: a
\* receipt is only queued with the message it is for, and saves never forget.
THEOREM DeliveryIsTruth == Spec => []DeliveredIsTrue
  <1>1. ASSUME Inv, NEW m \in Messages, NEW book \in {mem[From[m]], disk[From[m]]},
               book.status[m] = "Delivered"
        PROVE  m \in disk[To[m]].seen
    <2>1. From[m] \in Nodes /\ To[m] \in Nodes
      BY ContactAssumption
    <2>2. m \in mem[To[m]].seen
      BY <1>1, <2>1 DEF Inv, Stored, Truthful
    <2>. QED
      BY <1>1, <2>1, <2>2 DEF Inv, Stored
  <1>2. Inv => DeliveredIsTrue
    BY <1>1 DEF DeliveredIsTrue
  <1>. QED
    BY <1>2, Invariance, PTL

\* A message shown as accepted is exactly one the worker will still send.
THEOREM AcceptedPends == Spec => []AcceptedIsPending
  <1>1. Inv => AcceptedIsPending
    BY DEF Inv, Stored, Sound, AcceptedIsPending
  <1>. QED
    BY <1>1, Invariance, PTL

\* Once a block was answered nothing more is submitted to the contact: the
\* worker holds the operations lock from its second look to the record.
THEOREM BlockSilences == Spec => []BlockedIsSilent
  <1>1. Inv => BlockedIsSilent
    BY DEF Inv, Stored, Leaving, Sound, Sendable, At, Sending, BlockedIsSilent
  <1>. QED
    BY <1>1, Invariance, PTL

\* validate_book accepts whatever file a crash leaves behind.
THEOREM FilesReopen == Spec => []FileReopens
  <1>1. Inv => FileReopens
    BY DEF Inv, Stored, Sound, Sendable, FileReopens
  <1>. QED
    BY <1>1, Invariance, PTL
=============================================================================
