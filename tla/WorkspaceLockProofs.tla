-------------------------- MODULE WorkspaceLockProofs --------------------------
(***************************************************************************)
(* Theorems about the workspace lock, for every set of pids.  On a         *)
(* platform where process_is_alive always answers TRUE, the lock is a      *)
(* correct single-writer lock whatever the processes do and wherever they  *)
(* are killed.                                                             *)
(***************************************************************************)
EXTENDS WorkspaceLock, TLAPS

(* The variables keep their types: the file at the path is absent or a     *)
(* record of its creator, and every process is at a known place.           *)
THEOREM LockTypeOK == Spec => []TypeOK
<1> USE DEF TypeOK, LockFiles, PCs, Acquiring
<1>1. Init => TypeOK
  BY PlatformsAreBoolean DEF Init
<1>2. TypeOK /\ [Next]_vars => TypeOK'
  <2> SUFFICES ASSUME TypeOK, [Next]_vars PROVE TypeOK'
    OBVIOUS
  <2> DEFINE Moved ==
        /\ lockFile \in LockFiles \cup {Absent}
        /\ pc \in [Procs -> PCs]
        /\ holder \in [Procs -> Procs \cup {Absent}]
        /\ allowRecovery \in [Procs -> BOOLEAN]
        /\ undecided \in [Procs -> BOOLEAN] /\ crowded \in BOOLEAN
  <2>0. staleDetection' \in BOOLEAN
    BY DEF Next, vars
  <2>1. ASSUME NEW p \in Procs, Start(p) PROVE Moved'
    BY <2>1 DEF Start, Goto
  <2>2. ASSUME NEW p \in Procs, CreateNew(p) PROVE Moved'
    <3>1. [creator |-> p, written |-> FALSE] \in LockFiles
      OBVIOUS
    <3>2. lockFile' \in LockFiles \cup {Absent}
      BY <2>2, <3>1 DEF CreateNew
    <3>3. pc' \in [Procs -> PCs]
      BY <2>2 DEF CreateNew, Goto
    <3>4. QED
      BY <2>2, <3>2, <3>3 DEF CreateNew
  <2>3. ASSUME NEW p \in Procs, WriteHolder(p) PROVE Moved'
    BY <2>3, AbsentIsNothingElse DEF WriteHolder, Goto
  <2>4. ASSUME NEW p \in Procs, WriteHolderFails(p) PROVE Moved'
    BY <2>4 DEF WriteHolderFails, Goto
  <2>5. ASSUME NEW p \in Procs, ReadHolder(p) PROVE Moved'
    BY <2>5 DEF ReadHolder, PidInFile, Goto
  <2>6. ASSUME NEW p \in Procs, CheckHolder(p) PROVE Moved'
    BY <2>6 DEF CheckHolder, ProbeFails, Goto
  <2>7. ASSUME NEW p \in Procs, RemoveStale(p) PROVE Moved'
    BY <2>7 DEF RemoveStale, Goto
  <2>8. ASSUME NEW p \in Procs, AcquireFails(p) PROVE Moved'
    BY <2>8 DEF AcquireFails, Goto
  <2>9. ASSUME NEW p \in Procs, Release(p) PROVE Moved'
    BY <2>9 DEF Release, Goto
  <2>10. ASSUME NEW p \in Procs, Exit(p) PROVE Moved'
    BY <2>10 DEF Exit, Goto
  <2>11. ASSUME NEW p \in Procs, Crash(p) PROVE Moved'
    BY <2>11 DEF Crash, Goto
  <2>12. CASE UNCHANGED vars
    BY <2>12 DEF vars
  <2>13. QED
    BY <2>0, <2>1, <2>2, <2>3, <2>4, <2>5, <2>6, <2>7, <2>8, <2>9, <2>10, <2>11, <2>12
    DEF Next, Step
<1>3. QED
  BY <1>1, <1>2, PTL DEF Spec

-----------------------------------------------------------------------------
\* Nobody removes a file as stale, the file of a process that has created it
\* and not written it yet is still there, and so is the holder's.
OwnFile ==
    /\ \A p \in Procs : pc[p] # "remove"
    /\ \A p \in Procs : pc[p] = "write" =>
          lockFile = [creator |-> p, written |-> FALSE]
    /\ \A p \in Procs : pc[p] = "held" =>
          lockFile = [creator |-> p, written |-> TRUE]

(* A file is not the absence of a file.                                    *)
LEMMA FileIsThere ==
    \A q \in Procs, b \in BOOLEAN : [creator |-> q, written |-> b] # Absent
<1> TAKE q \in Procs, b \in BOOLEAN
<1>1. [creator |-> q, written |-> b] \in [creator : Procs, written : BOOLEAN]
  OBVIOUS
<1>2. QED
  BY <1>1, AbsentIsNothingElse

(* At the start no process is in the lock protocol.                        *)
LEMMA OwnFileInit == Init => OwnFile
  BY DEF Init, OwnFile

(* Every step keeps OwnFile when no holder is ever found stale.            *)
LEMMA OwnFileStep ==
    ASSUME ~staleDetection, TypeOK, OwnFile, [Next]_vars
    PROVE  OwnFile'
<1> USE DEF TypeOK, LockFiles
<1>1. ASSUME NEW p \in Procs, Start(p) PROVE OwnFile'
  BY <1>1 DEF Start, Goto, OwnFile
<1>2. ASSUME NEW p \in Procs, CreateNew(p) PROVE OwnFile'
  <2>1. CASE lockFile = Absent
    <3>1. \A q \in Procs : pc[q] \notin {"write", "held"}
      BY <2>1, FileIsThere DEF OwnFile
    <3>2. lockFile' = [creator |-> p, written |-> FALSE] /\ pc' = [pc EXCEPT ![p] = "write"]
      BY <1>2, <2>1 DEF CreateNew, Goto
    <3>3. QED
      BY <3>1, <3>2 DEF OwnFile
  <2>2. CASE lockFile # Absent
    <3>1. lockFile' = lockFile /\ pc' = [pc EXCEPT ![p] = "read"]
      BY <1>2, <2>2 DEF CreateNew, Goto
    <3>2. QED
      BY <3>1 DEF OwnFile
  <2>3. QED
    BY <2>1, <2>2
<1>3. ASSUME NEW p \in Procs, WriteHolder(p) PROVE OwnFile'
  <2>1. lockFile = [creator |-> p, written |-> FALSE]
    BY <1>3 DEF WriteHolder, OwnFile
  <2>2. lockFile # Absent
    BY <2>1, FileIsThere
  <2>3. lockFile' = [creator |-> p, written |-> TRUE]
    BY <1>3, <2>1, <2>2 DEF WriteHolder
  <2>4. \A q \in Procs : q # p => pc[q] \notin {"write", "held"}
    BY <2>1 DEF OwnFile
  <2>5. QED
    BY <1>3, <2>3, <2>4 DEF WriteHolder, Goto, OwnFile
<1>4. ASSUME NEW p \in Procs, WriteHolderFails(p) PROVE OwnFile'
  BY <1>4 DEF WriteHolderFails, Goto, OwnFile
<1>5. ASSUME NEW p \in Procs, ReadHolder(p) PROVE OwnFile'
  BY <1>5 DEF ReadHolder, Goto, OwnFile
<1>6. ASSUME NEW p \in Procs, CheckHolder(p) PROVE OwnFile'
  BY <1>6 DEF CheckHolder, ProbeFails, Stale, Goto, OwnFile
<1>7. ASSUME NEW p \in Procs, RemoveStale(p) PROVE OwnFile'
  BY <1>7 DEF RemoveStale, OwnFile
<1>8. ASSUME NEW p \in Procs, AcquireFails(p) PROVE OwnFile'
  BY <1>8 DEF AcquireFails, Goto, OwnFile
<1>9. ASSUME NEW p \in Procs, Release(p) PROVE OwnFile'
  <2>1. \A q \in Procs : q # p => pc[q] \notin {"write", "held"}
    BY <1>9 DEF Release, OwnFile
  <2>2. QED
    BY <1>9, <2>1 DEF Release, Goto, OwnFile
<1>10. ASSUME NEW p \in Procs, Exit(p) PROVE OwnFile'
  BY <1>10 DEF Exit, Goto, OwnFile
<1>11. ASSUME NEW p \in Procs, Crash(p) PROVE OwnFile'
  BY <1>11 DEF Crash, Goto, OwnFile, Acquiring
<1>12. CASE UNCHANGED vars
  BY <1>12 DEF vars, OwnFile
<1>13. QED
  BY <1>1, <1>2, <1>3, <1>4, <1>5, <1>6, <1>7, <1>8, <1>9, <1>10, <1>11, <1>12
  DEF Next, Step

\* What holds on a platform without stale detection.
FailClosedInv == TypeOK /\ (~staleDetection => OwnFile)

(* No command moves to another platform.                                   *)
LEMMA PlatformIsFixed == ASSUME [Next]_vars PROVE staleDetection' <=> staleDetection
  BY DEF Next, vars

(* On a platform without stale detection the holders keep their file.      *)
LEMMA OwnFileInvariant == Spec => []FailClosedInv
<1>1. ASSUME TypeOK, ~staleDetection => OwnFile, [Next]_vars
      PROVE  ~staleDetection' => OwnFile'
  BY <1>1, OwnFileStep, PlatformIsFixed
<1> DEFINE Kept == ~staleDetection => OwnFile
<1>2. Init => Kept
  BY OwnFileInit
<1>3. TypeOK /\ Kept /\ [Next]_vars => Kept'
  BY <1>1
<1>4. Kept /\ TypeOK => FailClosedInv
  BY DEF FailClosedInv
<1> HIDE DEF Kept
<1>5. QED
  BY <1>2, <1>3, <1>4, LockTypeOK, PTL DEF Spec

(* docs/RUNBOOK.md:128, for every platform where process_is_alive answers  *)
(* TRUE: two commands never hold the lock at the same time, wherever       *)
(* processes are killed and restarted under the same pid.                  *)
THEOREM FailClosedMutualExclusion == Spec => []FailClosedExclusion
<1>1. OwnFile => MutualExclusion
  <2> SUFFICES ASSUME OwnFile, NEW p \in Procs, NEW q \in Procs,
                      pc[p] = "held", pc[q] = "held"
               PROVE  p = q
    BY DEF MutualExclusion
  <2>1. [creator |-> p, written |-> TRUE] = [creator |-> q, written |-> TRUE]
    BY DEF OwnFile
  <2>2. [creator |-> p, written |-> TRUE].creator = [creator |-> q, written |-> TRUE].creator
    BY <2>1
  <2>3. QED
    BY <2>2
<1>2. FailClosedInv => FailClosedExclusion
  BY <1>1 DEF FailClosedInv, FailClosedExclusion, TypeOK
<1>3. QED
  BY <1>2, OwnFileInvariant, PTL

(* While a command works, the lock path shows its pid to `doctor` and to   *)
(* every other acquire.                                                    *)
THEOREM FailClosedHolderIsVisible == Spec => []HolderIsVisible
<1>1. FailClosedInv => HolderIsVisible
  <2> SUFFICES ASSUME FailClosedInv, NEW p \in Procs, ~staleDetection, pc[p] = "held"
               PROVE  PidInFile = p
    BY DEF HolderIsVisible
  <2>1. lockFile = [creator |-> p, written |-> TRUE]
    BY DEF FailClosedInv, OwnFile, TypeOK
  <2>2. lockFile # Absent
    BY <2>1, FileIsThere
  <2>3. QED
    BY <2>1, <2>2 DEF PidInFile
<1>2. QED
  BY <1>1, OwnFileInvariant, PTL

-----------------------------------------------------------------------------
(* A process that reserves the lock in the abstract specification has just *)
(* created the file; it enters when its pid is written, leaves when Drop   *)
(* removes the file, and abandons the lock when it is killed.              *)
LEMMA StepImplements ==
    ASSUME ~staleDetection, TypeOK, OwnFile, [Next]_vars
    PROVE  [Abstract!SWNext]_(Abstract!swVars)
<1>0. ~staleDetection'
  BY PlatformIsFixed
<1> USE DEF TypeOK, LockFiles
<1> USE DEF Abstract!SWNext, Abstract!swVars, owner, writers
<1>1. ASSUME NEW p \in Procs, Start(p) PROVE UNCHANGED <<owner, writers>>
  BY <1>0, <1>1 DEF Start, Goto
<1>2. ASSUME NEW p \in Procs, CreateNew(p)
      PROVE  Abstract!Reserve(p) \/ UNCHANGED <<owner, writers>>
  <2>1. CASE lockFile = Absent
    <3>1. lockFile' = [creator |-> p, written |-> FALSE] /\ pc' = [pc EXCEPT ![p] = "write"]
      BY <1>0, <1>2, <2>1 DEF CreateNew, Goto
    <3>2. owner = Absent /\ owner' = p
      BY <1>0, <2>1, <3>1, FileIsThere
    <3>3. writers' = writers
      BY <1>0, <1>2, <3>1 DEF CreateNew
    <3>4. QED
      BY <1>0, <3>2, <3>3 DEF Abstract!Reserve
  <2>2. CASE lockFile # Absent
    BY <1>0, <1>2, <2>2 DEF CreateNew, Goto
  <2>3. QED
    BY <1>0, <2>1, <2>2
<1>3. ASSUME NEW p \in Procs, WriteHolder(p) PROVE Abstract!Enter(p)
  <2>1. lockFile = [creator |-> p, written |-> FALSE] /\ lockFile # Absent
    BY <1>0, <1>3, FileIsThere DEF WriteHolder, OwnFile
  <2>2. lockFile' = [creator |-> p, written |-> TRUE] /\ lockFile' # Absent
    BY <1>0, <1>3, <2>1, FileIsThere DEF WriteHolder
  <2>3. owner = p /\ owner' = p
    BY <1>0, <2>1, <2>2
  <2>4. writers = {}
    BY <1>0, <2>1 DEF OwnFile
  <2>5. writers' = {p}
    BY <1>0, <1>3, <2>4 DEF WriteHolder, Goto
  <2>6. QED
    BY <1>0, <2>3, <2>4, <2>5 DEF Abstract!Enter
<1>4. ASSUME NEW p \in Procs, WriteHolderFails(p) PROVE UNCHANGED <<owner, writers>>
  BY <1>0, <1>4 DEF WriteHolderFails, Goto
<1>5. ASSUME NEW p \in Procs, ReadHolder(p) PROVE UNCHANGED <<owner, writers>>
  BY <1>0, <1>5 DEF ReadHolder, Goto
<1>6. ASSUME NEW p \in Procs, CheckHolder(p) PROVE UNCHANGED <<owner, writers>>
  BY <1>0, <1>6 DEF CheckHolder, ProbeFails, Stale, Goto
<1>7. ASSUME NEW p \in Procs, RemoveStale(p) PROVE FALSE
  BY <1>0, <1>7 DEF RemoveStale, OwnFile
<1>8. ASSUME NEW p \in Procs, AcquireFails(p) PROVE UNCHANGED <<owner, writers>>
  BY <1>0, <1>8 DEF AcquireFails, Goto
<1>9. ASSUME NEW p \in Procs, Release(p) PROVE Abstract!Leave(p)
  <2>1. lockFile = [creator |-> p, written |-> TRUE] /\ lockFile # Absent
    BY <1>0, <1>9, FileIsThere DEF Release, OwnFile
  <2>2. owner = p /\ owner' = Absent
    BY <1>0, <1>9, <2>1 DEF Release
  <2>3. \A q \in Procs : q # p => pc[q] # "held"
    BY <1>0, <2>1 DEF OwnFile
  <2>4. writers = {p} /\ writers' = {}
    BY <1>0, <1>9, <2>3 DEF Release, Goto
  <2>5. QED
    BY <1>0, <2>2, <2>4 DEF Abstract!Leave
<1>10. ASSUME NEW p \in Procs, Exit(p) PROVE UNCHANGED <<owner, writers>>
  BY <1>0, <1>10 DEF Exit, Goto
<1>11. ASSUME NEW p \in Procs, Crash(p)
       PROVE  Abstract!Abandon(p) \/ UNCHANGED <<owner, writers>>
  <2>1. owner' = owner
    BY <1>0, <1>11 DEF Crash
  <2>2. CASE pc[p] = "held"
    <3>1. lockFile = [creator |-> p, written |-> TRUE]
      BY <1>0, <2>2 DEF OwnFile
    <3>2. \A q \in Procs : q # p => pc[q] # "held"
      BY <1>0, <3>1 DEF OwnFile
    <3>3. writers = {p} /\ writers' = {}
      BY <1>0, <1>11, <2>2, <3>2 DEF Crash, Goto
    <3>4. QED
      BY <1>0, <2>1, <3>3 DEF Abstract!Abandon
  <2>3. CASE pc[p] # "held"
    BY <1>0, <1>11, <2>1, <2>3 DEF Crash, Goto
  <2>4. QED
    BY <1>0, <2>2, <2>3
<1>12. CASE UNCHANGED vars
  BY <1>0, <1>12 DEF vars
<1>13. QED
  BY <1>0, <1>1, <1>2, <1>3, <1>4, <1>5, <1>6, <1>7, <1>8, <1>9, <1>10, <1>11, <1>12
  DEF Next, Step

(* The lock file protocol implements the single-writer promise on every    *)
(* platform without stale detection, kills and pid reuse included.         *)
THEOREM FailClosedRefinement == Spec => ImplementsSingleWriter
<1>1. Init => Abstract!SWInit
  BY DEF Init, Abstract!SWInit, owner, writers
<1>2. ASSUME FailClosedInv, [Next]_vars PROVE [Abstract!SWNext]_(Abstract!swVars)
  <2>1. CASE ~staleDetection
    BY <1>2, <2>1, StepImplements DEF FailClosedInv
  <2>2. CASE staleDetection
    <3>1. staleDetection'
      BY <1>2, <2>2, PlatformIsFixed
    <3>2. QED
      BY <2>2, <3>1 DEF Abstract!swVars, owner, writers
  <2>3. QED
    BY <1>2, <2>1, <2>2 DEF FailClosedInv, TypeOK
<1>3. FailClosedInv /\ [Next]_vars => [Abstract!SWNext]_(Abstract!swVars)
  BY <1>2
<1>4. QED
  BY <1>1, <1>3, OwnFileInvariant, PTL
  DEF Spec, ImplementsSingleWriter, Abstract!SWSpec

-----------------------------------------------------------------------------
\* With stale detection and one command at a time: a lock file that is read was
\* found on the first attempt and is still there, the second attempt finds none,
\* and a refusal is about a file that is not known to be stale.
OneAtATime ==
    staleDetection /\ ~crowded =>
        /\ \A p, q \in Procs : pc[p] # "gone" /\ pc[q] # "gone" => p = q
        /\ \A p \in Procs :
             /\ pc[p] \in {"read", "check"} => lockFile # Absent /\ allowRecovery[p]
             /\ pc[p] = "check" /\ ~undecided[p] => holder[p] = PidInFile
             /\ pc[p] = "create" /\ ~allowRecovery[p] => lockFile = Absent
        /\ RefusedOnlyWhenUndecidable

(* Every step of the one process keeps what it knows of the lock file.     *)
LEMMA OneAtATimeStep == ASSUME TypeOK, OneAtATime, [Next]_vars PROVE OneAtATime'
<1> SUFFICES ASSUME staleDetection', ~crowded'
             PROVE  /\ \A p, q \in Procs : pc'[p] # "gone" /\ pc'[q] # "gone" => p = q
                    /\ \A p \in Procs :
                         /\ pc'[p] \in {"read", "check"} => lockFile' # Absent /\ allowRecovery'[p]
                         /\ pc'[p] = "check" /\ ~undecided'[p] => holder'[p] = PidInFile'
                         /\ pc'[p] = "create" /\ ~allowRecovery'[p] => lockFile' = Absent
                         /\ pc'[p] = "refused" /\ ~undecided'[p] =>
                              /\ lockFile' # Absent
                              /\ lockFile'.written => lockFile'.creator = p
  BY DEF OneAtATime, RefusedOnlyWhenUndecidable
<1> DEFINE Alone ==
      /\ \A p, q \in Procs : pc[p] # "gone" /\ pc[q] # "gone" => p = q
      /\ \A p \in Procs :
           /\ pc[p] \in {"read", "check"} => lockFile # Absent /\ allowRecovery[p]
           /\ pc[p] = "check" /\ ~undecided[p] => holder[p] = PidInFile
           /\ pc[p] = "create" /\ ~allowRecovery[p] => lockFile = Absent
           /\ pc[p] = "refused" /\ ~undecided[p] =>
                /\ lockFile # Absent
                /\ lockFile.written => lockFile.creator = p
<1>1. staleDetection
  BY PlatformIsFixed
<1>2. ~crowded => Alone
  BY <1>1 DEF OneAtATime, RefusedOnlyWhenUndecidable
<1> USE DEF TypeOK, Goto
<1>3. ASSUME NEW p \in Procs, Start(p) PROVE Alone'
  <2>1. ~crowded /\ Live = {}
    BY <1>3 DEF Start
  <2>2. \A q \in Procs : pc[q] = "gone"
    BY <2>1 DEF Live
  <2>3. pc' = [pc EXCEPT ![p] = "create"] /\ allowRecovery'[p] = TRUE
    BY <1>3 DEF Start
  <2>4. QED
    BY <2>2, <2>3
<1>4. ASSUME NEW p \in Procs, Step(p) \/ Crash(p) PROVE Alone'
  <2>1. ~crowded /\ Alone
    BY <1>2, <1>4
    DEF Step, Crash, CreateNew, WriteHolder, WriteHolderFails, ReadHolder, CheckHolder, ProbeFails,
        RemoveStale, AcquireFails, Release, Exit
  <2>2. \A q \in Procs : q # p => pc[q] = "gone" /\ pc'[q] = "gone"
    BY <1>4, <2>1
    DEF Step, Crash, CreateNew, WriteHolder, WriteHolderFails, ReadHolder, CheckHolder, ProbeFails,
        RemoveStale, AcquireFails, Release, Exit, Acquiring
  <2> DEFINE Mine ==
        /\ pc[p] \in {"read", "check"} => lockFile # Absent /\ allowRecovery[p]
        /\ pc[p] = "check" /\ ~undecided[p] => holder[p] = PidInFile
        /\ pc[p] = "create" /\ ~allowRecovery[p] => lockFile = Absent
        /\ pc[p] = "refused" /\ ~undecided[p] =>
             /\ lockFile # Absent
             /\ lockFile.written => lockFile.creator = p
  <2>3. Mine
    BY <2>1
  <2>4. ASSUME CreateNew(p) PROVE Mine'
    BY <2>3, <2>4 DEF CreateNew
  <2>5. ASSUME \/ WriteHolder(p) \/ WriteHolderFails(p) \/ AcquireFails(p)
               \/ Release(p) \/ Exit(p) \/ Crash(p)
        PROVE  Mine'
    BY <2>5 DEF WriteHolder, WriteHolderFails, AcquireFails, Release, Exit, Crash, Acquiring
  <2>6. ASSUME ReadHolder(p) PROVE Mine'
    BY <2>3, <2>6 DEF ReadHolder, PidInFile
  <2>7. ASSUME CheckHolder(p) PROVE Mine'
    <3>1. lockFile # Absent /\ allowRecovery[p]
      BY <2>3, <2>7 DEF CheckHolder
    <3>2. pc'[p] \in {"remove", "refused"}
      BY <2>7 DEF CheckHolder, ProbeFails
    <3> SUFFICES ASSUME ~undecided'[p] PROVE Mine'
      BY <3>2
    <3>3. /\ ~undecided[p] /\ UNCHANGED <<lockFile, holder, allowRecovery>>
          /\ pc' = [pc EXCEPT ![p] = IF Stale(holder[p]) THEN "remove" ELSE "refused"]
      BY <2>7, <3>1 DEF CheckHolder, ProbeFails
    <3>4. holder[p] = PidInFile
      BY <2>3, <2>7, <3>3 DEF CheckHolder
    <3>5. lockFile.written /\ ~Stale(holder[p]) => lockFile.creator = p
      <4> SUFFICES ASSUME lockFile.written, ~Stale(holder[p]) PROVE lockFile.creator = p
        OBVIOUS
      <4>1. holder[p] = lockFile.creator /\ lockFile.creator \in Procs
        BY <3>1, <3>4 DEF PidInFile, LockFiles
      <4>2. holder[p] # Absent
        BY <4>1, AbsentIsNothingElse
      <4>3. pc[lockFile.creator] # "gone"
        BY <1>1, <4>1, <4>2 DEF Stale
      <4>4. QED
        BY <2>2, <4>1, <4>3
    <3>6. QED
      BY <3>1, <3>3, <3>5
  <2>8. ASSUME RemoveStale(p) PROVE Mine'
    BY <2>8 DEF RemoveStale
  <2>9. Mine'
    BY <1>4, <2>4, <2>5, <2>6, <2>7, <2>8 DEF Step
  <2>10. QED
    BY <2>2, <2>9
<1>5. CASE UNCHANGED vars
  BY <1>2, <1>5 DEF vars, PidInFile
<1>6. Alone'
  BY <1>3, <1>4, <1>5 DEF Next
<1>7. QED
  BY <1>6

(* With stale detection, for every set of pids and any number of kills: as *)
(* long as commands do not overlap, one that could read the lock file and  *)
(* ask the system about its pid is refused only because of a lock file     *)
(* without a pid, or with a pid that is in use again.                      *)
THEOREM RefusedOnlyWhenUndecidableHolds == Spec => []RefusedOnlyWhenUndecidable
<1>1. Init => OneAtATime
  BY DEF Init, OneAtATime, RefusedOnlyWhenUndecidable
<1>2. TypeOK /\ OneAtATime /\ [Next]_vars => OneAtATime'
  BY OneAtATimeStep
<1>3. OneAtATime => RefusedOnlyWhenUndecidable
  BY DEF OneAtATime, RefusedOnlyWhenUndecidable
<1>4. QED
  BY <1>1, <1>2, <1>3, LockTypeOK, PTL DEF Spec

(* Stale recovery is tried once: for every set of pids, on every platform,  *)
(* an acquire is over after seven steps of its own.                        *)
THEOREM EveryAcquireStepCountsHolds == Spec => EveryAcquireStepCounts
<1>1. ASSUME TypeOK, [Next]_vars, NEW p \in Procs, pc[p] \in Acquiring
      PROVE  IF pc'[p] = pc[p] THEN CallsLeft(p)' = CallsLeft(p) ELSE CallsLeft(p)' < CallsLeft(p)
  <2>1. CASE UNCHANGED vars
    BY <2>1 DEF vars, CallsLeft
  <2>2. ASSUME NEW q \in Procs, q # p, Start(q) \/ Step(q) \/ Crash(q)
        PROVE  pc'[p] = pc[p] /\ allowRecovery'[p] = allowRecovery[p]
    <3>1. CASE Start(q) \/ Crash(q)
      BY <1>1, <2>2, <3>1 DEF TypeOK, Start, Crash, Goto
    <3>2. CASE CreateNew(q) \/ ReadHolder(q) \/ CheckHolder(q)
      BY <1>1, <2>2, <3>2 DEF TypeOK, CreateNew, ReadHolder, CheckHolder, ProbeFails, Goto
    <3>3. CASE WriteHolder(q)
      BY <1>1, <2>2, <3>3 DEF TypeOK, WriteHolder, Goto
    <3>4. CASE RemoveStale(q)
      BY <1>1, <2>2, <3>4 DEF TypeOK, RemoveStale, Goto
    <3>5. CASE WriteHolderFails(q) \/ AcquireFails(q) \/ Release(q) \/ Exit(q)
      BY <1>1, <2>2, <3>5 DEF TypeOK, WriteHolderFails, AcquireFails, Release, Exit, Goto
    <3> QED
      BY <2>2, <3>1, <3>2, <3>3, <3>4, <3>5 DEF Step
  <2> DEFINE Moved(from, to) == pc[p] = from /\ pc'[p] = to
  <2>3. ASSUME Start(p) \/ Step(p) \/ Crash(p)
        PROVE  \/ pc'[p] \notin Acquiring
               \/ /\ allowRecovery'[p] = allowRecovery[p]
                  /\ Moved("create", "write") \/ Moved("create", "read") \/ Moved("read", "check")
               \/ allowRecovery[p] /\ Moved("check", "remove")
               \/ ~allowRecovery'[p] /\ Moved("remove", "create")
    <3>1. CASE Start(p) \/ Crash(p)
      BY <1>1, <3>1 DEF TypeOK, Start, Crash, Goto, Acquiring
    <3>2. CASE CreateNew(p)
      BY <1>1, <3>2 DEF TypeOK, CreateNew, Goto
    <3>3. CASE ReadHolder(p)
      BY <1>1, <3>3 DEF TypeOK, ReadHolder, Goto
    <3>4. CASE CheckHolder(p)
      BY <1>1, <3>4 DEF TypeOK, CheckHolder, ProbeFails, Goto, Acquiring
    <3>5. CASE WriteHolder(p)
      BY <1>1, <3>5 DEF TypeOK, WriteHolder, Goto, Acquiring
    <3>6. CASE RemoveStale(p)
      BY <1>1, <3>6 DEF TypeOK, RemoveStale, Goto
    <3>7. CASE WriteHolderFails(p) \/ AcquireFails(p) \/ Release(p) \/ Exit(p)
      BY <1>1, <3>7 DEF TypeOK, WriteHolderFails, AcquireFails, Release, Exit, Goto, Acquiring
    <3> QED
      BY <2>3, <3>1, <3>2, <3>3, <3>4, <3>5, <3>6, <3>7 DEF Step
  <2>4. CASE pc'[p] = pc[p] /\ allowRecovery'[p] = allowRecovery[p]
    BY <2>4 DEF CallsLeft
  <2>5. CASE pc'[p] \notin Acquiring
    BY <1>1, <2>5 DEF CallsLeft, Acquiring
  <2>6. CASE /\ allowRecovery'[p] = allowRecovery[p]
             /\ Moved("create", "write") \/ Moved("create", "read") \/ Moved("read", "check")
    BY <2>6 DEF CallsLeft
  <2>7. CASE allowRecovery[p] /\ Moved("check", "remove")
    BY <2>7 DEF CallsLeft
  <2>8. CASE ~allowRecovery'[p] /\ Moved("remove", "create")
    BY <2>8 DEF CallsLeft
  <2> QED
    BY <1>1, <2>1, <2>2, <2>3, <2>4, <2>5, <2>6, <2>7, <2>8 DEF Next
<1>2. TypeOK /\ [Next]_vars
        => [\A p \in Procs : pc[p] \in Acquiring =>
              IF pc'[p] = pc[p] THEN CallsLeft(p)' = CallsLeft(p)
                                ELSE CallsLeft(p)' < CallsLeft(p)]_vars
  BY <1>1
<1> QED
  BY <1>2, LockTypeOK, PTL DEF Spec, EveryAcquireStepCounts
=============================================================================
