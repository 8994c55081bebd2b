---------------------------- MODULE MCHostUpdates -----------------------------
(* Instances of HostUpdates for TLC.                                       *)
EXTENDS HostUpdates, TLC

\* Windows and releases are interchangeable.
Symmetry == Permutations(Views) \cup Permutations(Releases)
=============================================================================
