----------------------------- MODULE ConcurrentCli -----------------------------
(***************************************************************************)
(* Several axiomrunner processes, in one workspace or in several.  Each    *)
(* loads the snapshot in CliRuntime::new, then takes the single-writer     *)
(* lock of its workspace in execute_command, works on what it loaded, and  *)
(* saves (src/crates/apps/src/cli_runtime.rs).  The lock and the trace are *)
(* in the workspace; the snapshot is where the state path says, which by   *)
(* default is one file in the home directory for all workspaces.  Commands *)
(* end with Ok, and a commit is one event and one save; RunCommit has its  *)
(* steps and failures for one command after the other.  A save is one      *)
(* step: what the file calls of two saves of one path do to each other is  *)
(* StateStore's.                                                           *)
(***************************************************************************)
EXTENDS Naturals, Sequences, FiniteSets

CONSTANTS Procs,       \* processes; each is one command
          Workspaces,  \* directories with a lock and a trace of their own
          Home,        \* the snapshot file of the default state path
          NoOwner      \* the owner of a free lock

ASSUME NoOwnerIsNoProcess == NoOwner \notin Procs

VARIABLES workspace,  \* where a process was started
          command,    \* what it was started for
          shared,     \* whether the state path is the default
          owner,      \* per workspace: who holds the lock
          snapshot,   \* the saved snapshots: last number and pending run
          loaded,     \* the snapshot a process has in memory
          pc,         \* where a process is
          events,     \* the traces of all workspaces, in the order of the events
          stale       \* history: a command worked on an outdated snapshot

started == <<workspace, command, shared>>
store == <<snapshot, loaded, events, stale>>
vars == <<started, owner, store, pc>>

Kinds == {"run", "resume", "abort"}
Empty == [seq |-> 0, pending |-> 0]
Files == Workspaces \cup {Home}

\* Mutant of File: the state path of the command line is not looked at.
FileInHome(w) == Home

\* StateStore::from_app_config: the file of the snapshot for workspace w.
File(w) == IF shared THEN Home ELSE w

Init ==
    /\ workspace \in [Procs -> Workspaces]
    /\ command \in [Procs -> Kinds]
    /\ shared \in BOOLEAN
    /\ owner = [w \in Workspaces |-> NoOwner]
    /\ snapshot = [f \in Files |-> Empty] /\ loaded = [p \in Procs |-> Empty]
    /\ pc = [p \in Procs |-> "new"]
    /\ events = <<>> /\ stale = FALSE

GoTo(p, next) == pc' = [pc EXCEPT ![p] = next] /\ UNCHANGED started

\* CliRuntime::new_with_compose: the snapshot is read, the lock is not held.
Load(p) ==
    /\ pc[p] = "new" /\ GoTo(p, "loaded")
    /\ loaded' = [loaded EXCEPT ![p] = snapshot[File(workspace[p])]]
    /\ UNCHANGED <<owner, snapshot, events, stale>>

\* Mutant of Acquire: the command goes on when the lock is held.
AcquireAnyway(p) ==
    /\ pc[p] = "loaded" /\ GoTo(p, "reserved")
    /\ owner' = [owner EXCEPT ![workspace[p]] = p]
    /\ UNCHANGED store

\* ensure_workspace_lock creates the lock file.
Acquire(p) ==
    /\ pc[p] = "loaded" /\ GoTo(p, "reserved")
    /\ owner[workspace[p]] = NoOwner
    /\ owner' = [owner EXCEPT ![workspace[p]] = p]
    /\ UNCHANGED store

\* ensure_workspace_lock finds it held: an error at once.
Refuse(p) ==
    /\ pc[p] = "loaded" /\ GoTo(p, "done")
    /\ owner[workspace[p]] # NoOwner
    /\ UNCHANGED <<owner, store>>

\* The command holds the lock and starts.
Start(p) ==
    /\ pc[p] = "reserved" /\ GoTo(p, "working")
    /\ UNCHANGED <<owner, store>>

Unlock(p) == owner' = [owner EXCEPT ![workspace[p]] = NoOwner]

\* alloc_seq_id for a run; resume and abort take the pending one.
Number(p) == IF command[p] = "run" THEN loaded[p].seq + 1 ELSE loaded[p].pending

Event(p) == [by |-> p, at |-> workspace[p], kind |-> command[p], run |-> Number(p)]

\* pending_resume_for_target and pending_abort_for_target find no pending run.
NothingPending(p) ==
    /\ pc[p] = "working" /\ command[p] # "run" /\ loaded[p].pending = 0
    /\ GoTo(p, "done")
    /\ Unlock(p) /\ UNCHANGED store

\* The snapshot p works on is not, or will not be, the saved one: it changed
\* since it was loaded, or another command is about to replace it.
Outdated(p) ==
    \/ loaded[p] # snapshot[File(workspace[p])]
    \/ \E q \in Procs \ {p} : pc[q] = "traced" /\ File(workspace[q]) = File(workspace[p])

\* Mutant of Work: the lock is dropped as soon as the goal was executed.
WorkUnlocked(p) ==
    /\ pc[p] = "working" /\ Number(p) # 0
    /\ GoTo(p, "traced")
    /\ events' = Append(events, Event(p))
    /\ loaded' = [loaded EXCEPT ![p] =
                    [seq |-> IF command[p] = "run" THEN Number(p) ELSE @.seq, pending |-> 0]]
    /\ stale' = (stale \/ Outdated(p))
    /\ Unlock(p) /\ UNCHANGED snapshot

\* The goal is executed and its event appended; a run may have to wait.
Work(p) ==
    /\ pc[p] = "working" /\ Number(p) # 0
    /\ GoTo(p, "traced")
    /\ events' = Append(events, Event(p))
    /\ \E waits \in IF command[p] = "run" THEN BOOLEAN ELSE {FALSE} :
         loaded' = [loaded EXCEPT ![p] =
                      [seq |-> IF command[p] = "run" THEN Number(p) ELSE @.seq,
                       pending |-> IF waits THEN Number(p) ELSE 0]]
    /\ stale' = (stale \/ Outdated(p))
    /\ UNCHANGED <<owner, snapshot>>

\* Mutant of Save: the command's snapshot is dropped.
SaveNothing(p) ==
    /\ pc[p] = "traced" /\ GoTo(p, "saved")
    /\ UNCHANGED <<owner, store>>

\* save_snapshot.
Save(p) ==
    /\ pc[p] = "traced" /\ GoTo(p, "saved")
    /\ snapshot' = [snapshot EXCEPT ![File(workspace[p])] = loaded[p]]
    /\ UNCHANGED <<owner, loaded, events, stale>>

\* release_workspace_lock.
Release(p) ==
    /\ pc[p] = "saved" /\ GoTo(p, "done")
    /\ Unlock(p) /\ UNCHANGED store

Next == \E p \in Procs :
    \/ Load(p) \/ Acquire(p) \/ Refuse(p) \/ Start(p) \/ NothingPending(p)
    \/ Work(p) \/ Save(p) \/ Release(p)

Spec == Init /\ [][Next]_vars
-----------------------------------------------------------------------------
Busy == {"working", "traced", "saved"}

\* The lock of workspace w as its abstract specification sees it.
LockOf(w) == INSTANCE SingleWriter
    WITH owner <- owner[w], writers <- {p \in Procs : workspace[p] = w /\ pc[p] \in Busy}

\* docs/RUNBOOK.md:130: in every workspace the commands use the lock as the
\* single-writer lock that WorkspaceLock implements, and only so.
EveryWorkspaceHasItsLock ==
    /\ \A w \in Workspaces : LockOf(w)!SWInit
    /\ [][\A w \in Workspaces : LockOf(w)!SWNext \/ UNCHANGED LockOf(w)!swVars]_vars

\* docs/RUNBOOK.md:130: from its event to its save a command is alone in its
\* workspace: no event of another command follows its own in the trace, and no
\* other command is between the two.
CommitsAreSerial ==
    \A p \in Procs : pc[p] = "traced" =>
        /\ \E i \in DOMAIN events :
             events[i].by = p /\ \A j \in (i + 1)..Len(events) : events[j].at # workspace[p]
        /\ \A q \in Procs \ {p} : workspace[q] = workspace[p] => pc[q] \notin Busy

\* Two events that start a run, or that end a waiting one.
BothStart(i, j) == events[i].kind = "run" /\ events[j].kind = "run"
BothEnd(i, j) == events[i].kind # "run" /\ events[j].kind # "run"

\* docs/RUNBOOK.md:66-67, tests/e2e_cli.rs:1212: as long as every command works
\* on the snapshot that is saved, no number is given out twice and no waiting
\* run is ended twice, by the commands of one snapshot file.
SecondTimeNeedsStaleLoad ==
    \A j \in DOMAIN events : \A i \in 1..(j - 1) :
        /\ File(events[i].at) = File(events[j].at)
        /\ events[i].run = events[j].run /\ (BothStart(i, j) \/ BothEnd(i, j))
        => stale

\* README.md:63: where each workspace has its own state path, a resume or an
\* abort ends a run that was started in the workspace it is given in, whatever
\* the commands loaded and when.  With the default path it may be one of
\* another workspace.
EndsWhereItStarted ==
    \A j \in DOMAIN events : events[j].kind # "run" /\ ~shared =>
        \E i \in 1..(j - 1) : /\ events[i].kind = "run" /\ events[i].run = events[j].run
                              /\ events[i].at = events[j].at

\* docs/RUNBOOK.md:67: an aborted run is closed and is not executed after that.
AbortedRunIsNotResumed ==
    \A j \in DOMAIN events : \A i \in 1..(j - 1) :
        events[i].kind = "abort" /\ events[j].kind = "resume"
            => events[i].run # events[j].run
=============================================================================
