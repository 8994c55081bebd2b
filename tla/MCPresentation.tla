---------------------------- MODULE MCPresentation ----------------------------
(* Instances of Presentation for TLC.                                      *)
EXTENDS Presentation
=============================================================================
