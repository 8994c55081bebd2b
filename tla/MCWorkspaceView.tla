--------------------------- MODULE MCWorkspaceView ---------------------------
(* Instances of WorkspaceView for TLC.                                     *)
EXTENDS WorkspaceView, TLC

\* No definition tells one conversation, or one task of the person, from another.
Symmetry == Permutations(Convs) \cup Permutations(UserTasks)
=============================================================================
