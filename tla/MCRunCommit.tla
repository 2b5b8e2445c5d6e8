------------------------------ MODULE MCRunCommit ------------------------------
(* Instances of RunCommit for TLC. *)
EXTENDS RunCommit
=============================================================================
