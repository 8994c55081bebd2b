--------------------------- MODULE MCFileTransfers ---------------------------
(* Instances of FileTransfers for TLC.                                     *)
EXTENDS FileTransfers

=============================================================================
