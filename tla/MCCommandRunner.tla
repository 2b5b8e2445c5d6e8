---------------------------- MODULE MCCommandRunner ----------------------------
(* Instances of CommandRunner for TLC. *)
EXTENDS CommandRunner
=============================================================================
