---------------------------- MODULE MCHostStream ----------------------------
(* Instances of HostStream for TLC. *)
EXTENDS HostStreamProofs

CONSTANTS stdout, stderr
=============================================================================
