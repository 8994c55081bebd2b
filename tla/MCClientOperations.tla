------------------------- MODULE MCClientOperations -------------------------
(* Instances of ClientOperations for TLC.                                  *)
EXTENDS ClientOperations
=============================================================================
