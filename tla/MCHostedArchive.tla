---------------------------- MODULE MCHostedArchive ----------------------------
(* Instances of HostedArchive for TLC.                                     *)
EXTENDS HostedArchive
=============================================================================
