---------------------------- MODULE MCContactDelivery ----------------------------
(* An instance of ContactDelivery for TLC: one of two contacts writes.     *)
EXTENDS ContactDelivery

CONSTANTS a, b, m1

FromOne == [m \in Messages |-> a]
ToOne == [m \in Messages |-> b]
=============================================================================
