---------------------------- MODULE MCWorkspaceLock ----------------------------
(* Instances of WorkspaceLock for TLC. *)
EXTENDS WorkspaceLock, TLC

ProcSymmetry == Permutations(Procs)
=============================================================================
