----------------------------- MODULE SingleWriter -----------------------------
(***************************************************************************)
(* What the single-writer lock of AxiomRunner promises (docs/RUNBOOK.md,   *)
(* section 8): at most one mutating command works in a workspace at a      *)
(* time.  The lock has an owner from the moment a command reserves it; a   *)
(* command that disappears while it owns the lock leaves it owned.         *)
(***************************************************************************)
CONSTANTS Procs,    \* process identifiers
          NoOwner   \* the owner of a free lock

VARIABLES owner,    \* the process that reserved the lock, or NoOwner
          writers   \* the processes that work in the workspace

swVars == <<owner, writers>>

SWInit == owner = NoOwner /\ writers = {}

\* The lock is free: p takes it, and does not work yet.
Reserve(p) ==
    /\ owner = NoOwner
    /\ owner' = p
    /\ UNCHANGED writers

\* The owner starts to work; nobody else does.
Enter(p) ==
    /\ owner = p
    /\ writers = {}
    /\ writers' = {p}
    /\ UNCHANGED owner

\* The only writer ends and frees the lock.
Leave(p) ==
    /\ writers = {p}
    /\ owner = p
    /\ writers' = {}
    /\ owner' = NoOwner

\* A writer disappears; the lock it owned stays owned.
Abandon(p) ==
    /\ writers = {p}
    /\ writers' = {}
    /\ UNCHANGED owner

SWNext == \E p \in Procs : Reserve(p) \/ Enter(p) \/ Leave(p) \/ Abandon(p)

SWSpec == SWInit /\ [][SWNext]_swVars
=============================================================================
