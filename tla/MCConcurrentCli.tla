---------------------------- MODULE MCConcurrentCli ----------------------------
(* Instances of ConcurrentCli for TLC. *)
EXTENDS ConcurrentCli, TLC

\* The processes are alike, and so are the workspaces: Init gives them every
\* command and every place.
Symmetry == Permutations(Procs) \cup Permutations(Workspaces)
=============================================================================
