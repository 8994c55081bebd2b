------------------------------ MODULE MCJournal ------------------------------
(* Instances of OperationJournal for TLC.                                  *)
EXTENDS OperationJournal, TLC

\* Callers are interchangeable: no definition tells one from another.
Symmetry == Permutations(Callers)
=============================================================================
