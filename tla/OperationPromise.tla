-------------------------- MODULE OperationPromise --------------------------
(***************************************************************************)
(* What the web view promises the person in front of it about each         *)
(* operation asked of the service, whatever is lost on the way.  An        *)
(* operation has one fate, decided once: it is done, or it can never be    *)
(* done any more.  What the view says of it is silent (in progress, not    *)
(* confirmed or not shown), or the truth; "complete" is never taken back,  *)
(* only forgotten when the view closes and forgets everything.             *)
(* ClientOperations implements this specification.                         *)
(***************************************************************************)

CONSTANT Ops    \* the operations the person asks for

VARIABLES
    fate,       \* "open", "done" or "void", per operation
    word,       \* "silent", "complete" or "rejected", per operation
    closed      \* BOOLEAN: the view is closed

promise == <<fate, word, closed>>

Truth(f) == CASE f = "done" -> "complete"
              [] f = "void" -> "rejected"
              [] OTHER      -> "silent"

PromiseInit ==
    /\ fate = [op \in Ops |-> "open"]
    /\ word = [op \in Ops |-> "silent"]
    /\ closed = TRUE

\* What may become of one operation in a step.
Decide(op) == fate[op] = "open" \/ fate'[op] = fate[op]

Speak(op) ==
    \/ word'[op] = word[op]
    \/ word[op] # "complete" /\ word'[op] \in {"silent", Truth(fate'[op])}

CloseView == closed' /\ word' = [op \in Ops |-> "silent"]

PromiseNext ==
    /\ fate' \in [Ops -> {"open", "done", "void"}]
    /\ word' \in [Ops -> {"silent", "complete", "rejected"}]
    /\ closed' \in BOOLEAN
    /\ \A op \in Ops : Decide(op)
    /\ CloseView \/ \A op \in Ops : Speak(op)

PromiseSpec == PromiseInit /\ [][PromiseNext]_promise

=============================================================================
