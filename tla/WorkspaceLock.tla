----------------------------- MODULE WorkspaceLock -----------------------------
(***************************************************************************)
(* The workspace lock file .axiomrunner/runtime.lock                       *)
(* (src/crates/apps/src/workspace_lock.rs) as the processes that run       *)
(* `run`, `resume` and `abort` use it: acquire with create_new, read the   *)
(* holder, recover a stale lock once, remove the file on Drop.             *)
(*                                                                         *)
(* A member of Procs is an operating-system pid: when the process that had *)
(* it is gone, a new process may start under the same pid.  All processes  *)
(* run under one user: `kill -0` also fails for another user's process,    *)
(* and then answers as for a pid that is not in use.  Everything a process *)
(* does between two file-system calls is one step.  The file remembers     *)
(* which process created it, because a process that writes to a file       *)
(* another process has unlinked leaves the new file at that path           *)
(* untouched.                                                              *)
(***************************************************************************)
EXTENDS Naturals

CONSTANTS Procs,          \* pids
          Absent,         \* no file at the path, or nothing read from it
          Platforms       \* the values of staleDetection

ASSUME AbsentIsNothingElse ==
    Absent \notin Procs \cup [creator : Procs, written : BOOLEAN]
ASSUME PlatformsAreBoolean == Platforms \subseteq BOOLEAN

VARIABLES staleDetection, \* process_is_alive asks the system (unix, windows);
                          \* FALSE: it answers TRUE (every other platform)
          lockFile,       \* the file at the lock path
          pc,             \* where each process is
          holder,         \* the pid each process read from the file
          allowRecovery,  \* acquire_inner's allow_stale_recovery
          undecided,      \* history: the read of the holder failed, or the
                          \* question whether it is alive
          crowded         \* history: two processes were alive at a time

vars == <<staleDetection, lockFile, pc, holder, allowRecovery, undecided, crowded>>

LockFiles == [creator : Procs, written : BOOLEAN]
Acquiring == {"create", "write", "read", "check", "remove"}
PCs == Acquiring \cup {"held", "refused", "exiting", "gone"}

Live == {p \in Procs : pc[p] # "gone"}

\* What fs::read_to_string finds: the pid line is there once it is written;
\* a missing file and a file without a pid both read as holder=unknown.
PidInFile ==
    IF lockFile # Absent /\ lockFile.written THEN lockFile.creator ELSE Absent

\* Mutant of Stale: any pid that looks dead is stale, on every platform.
StaleEverywhere(q) == q # Absent /\ pc[q] = "gone"

\* lock_holder_is_stale: there is a pid, and the system answers that no process
\* has it (CheckHolder has the failing question).
Stale(q) == staleDetection /\ q # Absent /\ pc[q] = "gone"

Goto(p, label) == pc' = [pc EXCEPT ![p] = label]

Init ==
    /\ staleDetection \in Platforms
    /\ lockFile = Absent
    /\ pc = [p \in Procs |-> "gone"]
    /\ holder = [p \in Procs |-> Absent]
    /\ allowRecovery = [p \in Procs |-> TRUE]
    /\ undecided = [p \in Procs |-> FALSE]
    /\ crowded = FALSE

\* A mutating command starts under pid p and calls WorkspaceLock::acquire.
Start(p) ==
    /\ pc[p] = "gone"
    /\ Goto(p, "create")
    /\ holder' = [holder EXCEPT ![p] = Absent]
    /\ allowRecovery' = [allowRecovery EXCEPT ![p] = TRUE]
    /\ undecided' = [undecided EXCEPT ![p] = FALSE]
    /\ crowded' = (crowded \/ Live # {})
    /\ UNCHANGED lockFile

\* Mutant of CreateNew: create(true).truncate(true) takes an existing file.
CreateOrTruncate(p) ==
    /\ pc[p] = "create"
    /\ lockFile' = [creator |-> p, written |-> FALSE]
    /\ Goto(p, "write")
    /\ UNCHANGED <<holder, allowRecovery, undecided, crowded>>

\* OpenOptions::create_new.
CreateNew(p) ==
    /\ pc[p] = "create"
    /\ \/ /\ lockFile = Absent
          /\ lockFile' = [creator |-> p, written |-> FALSE]
          /\ Goto(p, "write")
       \/ /\ lockFile # Absent
          /\ Goto(p, "read")
          /\ UNCHANGED lockFile
    /\ UNCHANGED <<holder, allowRecovery, undecided, crowded>>

\* writeln!(file, "pid=..."): it reaches the path only while the path still
\* names the file this process created.
WriteHolder(p) ==
    /\ pc[p] = "write"
    /\ lockFile' = IF lockFile # Absent /\ lockFile.creator = p
                     THEN [lockFile EXCEPT !.written = TRUE]
                     ELSE lockFile
    /\ Goto(p, "held")
    /\ UNCHANGED <<holder, allowRecovery, undecided, crowded>>

\* The `?` after writeln!: no WorkspaceLock was built, so no Drop removes
\* the file.  (An error after the pid reached the file leaves what a kill
\* right after WriteHolder leaves.)
WriteHolderFails(p) ==
    /\ pc[p] = "write"
    /\ Goto(p, "exiting")
    /\ UNCHANGED <<lockFile, holder, allowRecovery, undecided, crowded>>

\* The AlreadyExists branch reads the holder.  A read that fails is taken for
\* holder=unknown, whatever the file holds (`.ok()`).
ReadHolder(p) ==
    /\ pc[p] = "read"
    /\ \/ /\ holder' = [holder EXCEPT ![p] = PidInFile]
          /\ UNCHANGED undecided
       \/ /\ holder' = [holder EXCEPT ![p] = Absent]
          /\ undecided' = [undecided EXCEPT ![p] = TRUE]
    /\ Goto(p, "check")
    /\ UNCHANGED <<lockFile, allowRecovery, crowded>>

\* Mutant of CheckHolder: the recovery flag is tested the wrong way round.
CheckHolderOnRetryOnly(p) ==
    /\ pc[p] = "check"
    /\ Goto(p, IF ~allowRecovery[p] /\ Stale(holder[p]) THEN "remove" ELSE "refused")
    /\ UNCHANGED <<lockFile, holder, allowRecovery, undecided, crowded>>

\* process_is_alive starts `kill` or `tasklist` (not for holder=unknown, and
\* not on the second attempt); when that fails it answers TRUE.
ProbeFails(p) ==
    /\ staleDetection /\ allowRecovery[p] /\ holder[p] # Absent
    /\ Goto(p, "refused")
    /\ undecided' = [undecided EXCEPT ![p] = TRUE]

\* A stale holder is recovered on the first attempt only; otherwise the
\* command is refused with "workspace lock is active".
CheckHolder(p) ==
    /\ pc[p] = "check"
    /\ \/ /\ Goto(p, IF allowRecovery[p] /\ Stale(holder[p]) THEN "remove" ELSE "refused")
          /\ UNCHANGED undecided
       \/ ProbeFails(p)
    /\ UNCHANGED <<lockFile, holder, allowRecovery, crowded>>

\* Mutant of RemoveStale: the recursive call may recover again.
RemoveStaleAgain(p) ==
    /\ pc[p] = "remove"
    /\ lockFile' = Absent
    /\ Goto(p, "create")
    /\ UNCHANGED <<holder, allowRecovery, undecided, crowded>>

\* remove_file of the stale lock, whatever file is there by now (Ok and
\* NotFound alike), and the recursive call with allow_stale_recovery = false.
RemoveStale(p) ==
    /\ pc[p] = "remove"
    /\ lockFile' = Absent
    /\ allowRecovery' = [allowRecovery EXCEPT ![p] = FALSE]
    /\ Goto(p, "create")
    /\ UNCHANGED <<holder, undecided, crowded>>

\* An I/O error of create_dir_all, of the open or of the removal.
AcquireFails(p) ==
    /\ pc[p] \in {"create", "remove"}
    /\ Goto(p, "exiting")
    /\ UNCHANGED <<lockFile, holder, allowRecovery, undecided, crowded>>

\* Drop for WorkspaceLock: remove_file(path), with no look at what is there.
\* The command ended, with or without an error.
Release(p) ==
    /\ pc[p] = "held"
    /\ lockFile' = Absent
    /\ Goto(p, "exiting")
    /\ UNCHANGED <<holder, allowRecovery, undecided, crowded>>

\* Mutant of Exit: a refused command removes the lock file as well.
ExitRemovesLock(p) ==
    /\ pc[p] \in {"refused", "exiting"}
    /\ Goto(p, "gone")
    /\ lockFile' = Absent
    /\ UNCHANGED <<holder, allowRecovery, undecided, crowded>>

\* The process ends and its pid is free again.
Exit(p) ==
    /\ pc[p] \in {"refused", "exiting"}
    /\ Goto(p, "gone")
    /\ UNCHANGED <<lockFile, holder, allowRecovery, undecided, crowded>>

\* The process is killed: nothing is dropped.
Crash(p) ==
    /\ pc[p] \in Acquiring \cup {"held"}
    /\ Goto(p, "gone")
    /\ UNCHANGED <<lockFile, holder, allowRecovery, undecided, crowded>>

Step(p) ==
    \/ CreateNew(p) \/ WriteHolder(p) \/ WriteHolderFails(p)
    \/ ReadHolder(p) \/ CheckHolder(p) \/ RemoveStale(p) \/ AcquireFails(p)
    \/ Release(p) \/ Exit(p)

Next ==
    /\ \E p \in Procs : Start(p) \/ Step(p) \/ Crash(p)
    /\ UNCHANGED staleDetection

Spec == Init /\ [][Next]_vars

\* A live process keeps running: the operating system schedules it.
FairSpec == Spec /\ \A p \in Procs : WF_vars(Step(p) /\ UNCHANGED staleDetection)
-----------------------------------------------------------------------------
TypeOK ==
    /\ staleDetection \in BOOLEAN
    /\ lockFile \in LockFiles \cup {Absent}
    /\ pc \in [Procs -> PCs]
    /\ holder \in [Procs -> Procs \cup {Absent}]
    /\ allowRecovery \in [Procs -> BOOLEAN]
    /\ undecided \in [Procs -> BOOLEAN] /\ crowded \in BOOLEAN

\* docs/RUNBOOK.md:128-131 "Single-writer Lock": no two commands are between
\* a successful acquire and the Drop of their lock at the same time.
MutualExclusion ==
    \A p, q \in Procs : pc[p] = "held" /\ pc[q] = "held" => p = q

\* The promise on a platform without stale detection, wherever processes are
\* killed.
FailClosedExclusion == ~staleDetection => MutualExclusion

\* Without stale detection, while a command works the lock path names its own
\* file and carries its pid, so that `doctor` and the next acquire see it as
\* active.
HolderIsVisible ==
    \A p \in Procs : ~staleDetection /\ pc[p] = "held" => PidInFile = p

\* With stale detection and commands that run one at a time, any number of them
\* killed: a command is refused only by what stale recovery cannot decide, a
\* lock file whose writer died before its pid line, or a pid that is in use
\* again.  Excepted are a command whose own read of the lock file failed and one
\* whose question to the system failed: the code takes both for an active lock
\* (`.ok()`, `unwrap_or(true)`), also when the holder is dead.
RefusedOnlyWhenUndecidable ==
    \A p \in Procs : staleDetection /\ ~crowded /\ pc[p] = "refused" /\ ~undecided[p] =>
        /\ lockFile # Absent
        /\ lockFile.written => lockFile.creator = p

\* Stale recovery is tried once: whatever the other processes do, an acquire
\* ends with the lock or with an error.
AcquireEnds ==
    \A p \in Procs : pc[p] \in Acquiring ~> pc[p] \notin Acquiring

\* How many file-system calls an acquire has left: with a recovery still allowed
\* it may go through all of it, and once more to the refusal.
CallsLeft(p) ==
    CASE pc[p] = "create" -> IF allowRecovery[p] THEN 7 ELSE 3
      [] pc[p] = "read"   -> IF allowRecovery[p] THEN 6 ELSE 2
      [] pc[p] = "check"  -> IF allowRecovery[p] THEN 5 ELSE 1
      [] pc[p] = "remove" -> 4
      [] pc[p] = "write"  -> 1
      [] OTHER            -> 0

\* AcquireEnds as a bound: an acquire never waits and is over after seven steps
\* of its own; no step of another process gives it more.
EveryAcquireStepCounts ==
    [][\A p \in Procs : pc[p] \in Acquiring =>
          IF pc'[p] = pc[p] THEN CallsLeft(p)' = CallsLeft(p) ELSE CallsLeft(p)' < CallsLeft(p)]_vars
-----------------------------------------------------------------------------
\* The abstract lock of a platform without stale detection: the creator of the
\* file owns it, and the processes in "held" are the writers.  (With stale
\* detection nothing is mapped: there the promise is broken.)
owner == IF staleDetection \/ lockFile = Absent THEN Absent ELSE lockFile.creator
writers == {p \in Procs : ~staleDetection /\ pc[p] = "held"}

Abstract == INSTANCE SingleWriter WITH NoOwner <- Absent

\* Without stale detection the lock implements the single-writer promise.
ImplementsSingleWriter == Abstract!SWSpec
=============================================================================
