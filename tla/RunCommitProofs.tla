---------------------------- MODULE RunCommitProofs ----------------------------
(***************************************************************************)
(* Theorems about commits, for every bound on runs, commands, failing      *)
(* writes and kills.  A command keeps in memory the snapshot it started    *)
(* from and the one it will save; both respect what earlier commands       *)
(* reported, so it does not matter where the command stops.                *)
(***************************************************************************)
EXTENDS RunCommit, TLAPS

\* s keeps the runs that were reported as ended: none is pending in it, and
\* it gives none of their numbers out again.
Respects(s) ==
    /\ s.pending <= s.seq
    /\ \A r \in Runs : settled[r] # "none" => r # s.pending /\ r <= s.seq

\* Every snapshot a command may leave behind respects what was reported.
Sound ==
    /\ Respects(snapshot)
    /\ pc # "idle" => Respects(previous) /\ (outcome # "failed" => persist # NoSnapshot)
    /\ pc # "idle" /\ persist # NoSnapshot =>
          /\ Respects(persist) /\ current <= persist.seq
          /\ persist.pending = IF outcome = "approval_required" THEN current ELSE 0
    /\ pc = "conditions" => outcome = "success"

\* The run that waits in s is among the first n events.
TracedIn(s, n) ==
    s.pending # 0 => \E i \in 1..n :
        trace[i] = [run |-> s.pending, outcome |-> "approval_required"]

\* A command only ever adds its own event behind the trace it found, and only
\* that one is taken back.
Logged ==
    /\ began <= Len(trace)
    /\ pc = "idle" => TracedIn(snapshot, Len(trace))
    /\ pc # "idle" => TracedIn(snapshot, began) /\ TracedIn(previous, began)
    /\ pc \in {"checkpoint", "report", "conditions", "reportAgain", "rollback",
              "reportRollback", "trace"} => Len(trace) = began
    /\ pc \in {"memory", "save", "forget", "takeBack"} =>
          Len(trace) = began + 1 /\ trace[began + 1] = Event(outcome)

\* Until its commit is complete a command has not touched the snapshot.
Undone ==
    /\ pc \notin {"idle", "restore"} => snapshot = previous
    /\ pc # "idle" => returned = "none"
    /\ FailedCommandLeavesSnapshot

CommitInv == TypeOK /\ Sound /\ Logged /\ Undone

-----------------------------------------------------------------------------
(* The initial states satisfy the invariant.                               *)
LEMMA CommitInit == Init => CommitInv
<1> SUFFICES ASSUME Init PROVE CommitInv
  OBVIOUS
<1>1. snapshot \in Snapshots /\ previous \in Snapshots
  BY BoundsAssumption DEF Init, Snapshots
<1>2. <<>> \in Seq(Events)
  OBVIOUS
<1>3. TypeOK
  <2>1. trace \in Seq(Events)
    BY <1>2 DEF Init
  <2>2. report \in [Runs -> Texts] /\ memory \in [Runs -> Texts]
    BY DEF Init, Texts
  <2>3. settled \in [Runs -> Outcomes \cup {"none"}]
    BY DEF Init
  <2>4. current \in 0..MaxRuns /\ commands \in 0..MaxCommands
        /\ faults \in 0..MaxFaults /\ kills \in 0..MaxKills
    BY BoundsAssumption DEF Init
  <2>5. pc = "idle" /\ pc \in PCs /\ failedAt = "none" /\ outcome \in Outcomes /\ log = "sound"
        /\ command = "run" /\ executed = FALSE /\ began = 0
        /\ persist = NoSnapshot /\ returned = "none"
    BY DEF Init, PCs, Outcomes
  <2>6. QED
    BY <1>1, <2>1, <2>2, <2>3, <2>4, <2>5 DEF TypeOK
<1>4. Sound
  BY DEF Init, Sound, Respects, Runs
<1>5. Logged
  BY DEF Init, Logged, TracedIn
<1>6. Undone
  BY DEF Init, Undone, FailedCommandLeavesSnapshot
<1>7. QED
  BY <1>3, <1>4, <1>5, <1>6 DEF CommitInv

(* A command starts with a run number and a snapshot it may save.          *)
LEMMA StartType ==
    ASSUME TypeOK, NEW c \in {"run", "resume", "abort"}, NEW run \in Runs,
           NEW o \in Outcomes, NEW ex \in BOOLEAN, StartCommit(c, run, o, ex)
    PROVE  TypeOK'
<1>1. NextSnapshot(c, run, o) \in Snapshots
  BY BoundsAssumption DEF NextSnapshot, Snapshots, Runs, TypeOK
<1>2. persist' \in Snapshots \cup {NoSnapshot}
  BY <1>1 DEF StartCommit
<1>3. current' \in 0..MaxRuns /\ current' \in Runs
  BY BoundsAssumption DEF StartCommit, Runs
<1>4. commands' \in 0..MaxCommands
  BY BoundsAssumption DEF StartCommit, TypeOK
<1>5. began' \in Nat
  BY DEF StartCommit, TypeOK
<1>6. QED
  BY <1>2, <1>3, <1>4, <1>5 DEF StartCommit, TypeOK, PCs, CommitSteps, stores, logFile

(* The runs a command can be about are numbers of runs.                    *)
LEMMA BeginFacts ==
    ASSUME TypeOK
    PROVE  /\ snapshot.seq < MaxRuns => snapshot.seq + 1 \in Runs
           /\ snapshot.pending # 0 => snapshot.pending \in Runs
BY BoundsAssumption DEF TypeOK, Snapshots, Runs

(* A failing write stays within the bound.                                 *)
LEMMA FaultType == ASSUME TypeOK, Fault PROVE faults' \in 0..MaxFaults
BY BoundsAssumption DEF TypeOK, Fault

(* What a report is replaced by is a text.                                 *)
LEMMA ReportType ==
    ASSUME TypeOK
    PROVE  /\ Cleanup => report' \in [Runs -> Texts]
           /\ TearReport => report' \in [Runs -> Texts]
           /\ \A text \in Texts : WriteText(text) => report' \in [Runs -> Texts]
BY DEF TypeOK, Cleanup, TearReport, WriteText, Texts

(* An event of the run in progress is an event.                            *)
LEMMA EventType ==
    ASSUME TypeOK, pc # "idle", NEW o \in Outcomes
    PROVE  Event(o) \in Events
BY DEF TypeOK, Event, Events

(* An append, whole or cut, adds its event or leaves the events alone.     *)
LEMMA AppendType ==
    ASSUME TypeOK, NEW e \in Events, AppendWhole(e) \/ AppendCut(e)
    PROVE  /\ trace' = Append(trace, e) \/ UNCHANGED trace
           /\ trace' \in Seq(Events) /\ log' \in {"sound", "open", "damaged"}
<1>1. Append(trace, e) \in Seq(Events) /\ trace \in Seq(Events)
  BY DEF TypeOK
<1>2. trace' = Append(trace, e) \/ UNCHANGED trace
  BY DEF AppendWhole, AppendCut, logFile
<1>3. log' \in {"sound", "open", "damaged"}
  BY DEF AppendWhole, AppendCut, logFile, TypeOK
<1>4. QED
  BY <1>1, <1>2, <1>3

(* A kill cuts at most the append it interrupts.                           *)
LEMMA KillType ==
    ASSUME TypeOK, Kill
    PROVE  /\ \/ UNCHANGED trace
              \/ /\ pc \in {"trace", "failedTrace", "lostTrace"}
                 /\ \E o \in Outcomes : /\ Event(o) \in Events /\ Event(o).run = current
                                       /\ trace' = Append(trace, Event(o))
           /\ trace' \in Seq(Events) /\ log' \in {"sound", "open", "damaged"}
<1> USE DEF TypeOK
<1>1. CASE UNCHANGED logFile
  BY <1>1 DEF logFile
<1>2. ASSUME NEW o \in Outcomes, pc \in {"trace", "failedTrace", "lostTrace"},
             AppendCut(Event(o))
      PROVE  /\ \/ UNCHANGED trace
                \/ \E q \in Outcomes : /\ Event(q) \in Events /\ Event(q).run = current
                                       /\ trace' = Append(trace, Event(q))
             /\ trace' \in Seq(Events) /\ log' \in {"sound", "open", "damaged"}
  <2>1. Event(o) \in Events /\ Event(o).run = current
    BY <1>2, EventType DEF Event
  <2>2. QED
    BY <1>2, <2>1, AppendType
<1>3. CASE pc = "trace" /\ AppendCut(Event(outcome))
  BY <1>2, <1>3
<1>4. CASE pc \in {"failedTrace", "lostTrace"} /\ AppendCut(Event("failed"))
  BY <1>2, <1>4 DEF Outcomes
<1>5. CASE log' = "damaged" /\ UNCHANGED trace
  BY <1>5
<1>6. QED
  BY <1>1, <1>3, <1>4, <1>5 DEF Kill

(* Every step keeps the types.                                             *)
LEMMA TypeStep == ASSUME CommitInv, [Next]_vars PROVE TypeOK'
<1>1. TypeOK
  BY DEF CommitInv
<1> USE <1>1 DEF TypeOK
<1>2. ASSUME NEW o \in Outcomes \ {"aborted"}, NEW ex \in BOOLEAN, BeginRun(o, ex)
      PROVE  TypeOK'
  BY <1>2, BeginFacts, StartType DEF BeginRun
<1>3. ASSUME NEW o \in Outcomes \ {"aborted", "approval_required"}, BeginResume(o)
      PROVE  TypeOK'
  BY <1>3, BeginFacts, StartType DEF BeginResume
<1>4. CASE BeginAbort
  <2>1. "aborted" \in Outcomes
    BY DEF Outcomes
  <2>2. QED
    BY <1>4, <2>1, BeginFacts, StartType DEF BeginAbort
<1>5. CASE WriteCheckpoint
  BY <1>5, FaultType DEF WriteCheckpoint, Advance, FailTo, ReturnError, PCs, CommitSteps, process, counters, stores, logFile
<1>6. CASE WriteReport
  <2>1. report' \in [Runs -> Texts]
    BY <1>6, ReportType DEF WriteReport, Texts, Outcomes
  <2>2. faults' \in 0..MaxFaults
    BY <1>6, FaultType DEF WriteReport
  <2>3. QED
    BY <1>6, <2>1, <2>2 DEF WriteReport, Advance, FailTo, ReturnError, PCs, CommitSteps, process, counters, stores, logFile
<1>7. CASE CheckConditions
  BY <1>7 DEF CheckConditions, Advance, FailTo, ReturnError, PCs, CommitSteps, process, counters, stores, logFile, Outcomes
<1>8. CASE WriteReportAgain
  <2>1. report' \in [Runs -> Texts]
    BY <1>8, ReportType DEF WriteReportAgain, Texts, Outcomes
  <2>2. faults' \in 0..MaxFaults
    BY <1>8, FaultType DEF WriteReportAgain
  <2>3. QED
    BY <1>8, <2>1, <2>2 DEF WriteReportAgain, Advance, FailTo, ReturnError, PCs, CommitSteps, process, counters, stores, logFile
<1>9. CASE WriteRollback
  <2>1. report' \in [Runs -> Texts]
    BY <1>9, ReportType DEF WriteRollback, Texts, Outcomes
  <2>2. faults' \in 0..MaxFaults
    BY <1>9, FaultType DEF WriteRollback
  <2>3. QED
    BY <1>9, <2>1, <2>2 DEF WriteRollback, Advance, FailTo, ReturnError, PCs, CommitSteps, process, counters, stores, logFile
<1>10. CASE WriteReportRollback
  <2>1. report' \in [Runs -> Texts]
    BY <1>10, ReportType DEF WriteReportRollback, Texts, Outcomes
  <2>2. faults' \in 0..MaxFaults
    BY <1>10, FaultType DEF WriteReportRollback
  <2>3. QED
    BY <1>10, <2>1, <2>2 DEF WriteReportRollback, Advance, FailTo, ReturnError, PCs, CommitSteps, process, counters, stores, logFile
<1>11. CASE AppendEvent
  <2>1. Event(outcome) \in Events
    BY <1>11, EventType DEF AppendEvent
  <2>2. trace' \in Seq(Events) /\ log' \in {"sound", "open", "damaged"}
    BY <1>11, <2>1, AppendType DEF AppendEvent
  <2>3. report' \in [Runs -> Texts] /\ faults' \in 0..MaxFaults
    BY <1>11, ReportType, FaultType DEF AppendEvent
  <2>4. QED
    BY <1>11, <2>2, <2>3 DEF AppendEvent, Advance, FailTo, ReturnError, PCs, CommitSteps, process, counters, stores, logFile
<1>12. CASE Remember
  <2>1. memory' \in [Runs -> Texts]
    BY <1>12 DEF Remember, Texts
  <2>2. report' \in [Runs -> Texts] /\ faults' \in 0..MaxFaults
    BY <1>12, ReportType, FaultType DEF Remember
  <2>3. QED
    BY <1>12, <2>1, <2>2 DEF Remember, Advance, FailTo, ReturnError, PCs, CommitSteps, process, counters, stores, logFile
<1>13. CASE SaveSnapshot
  <2>1. snapshot' \in Snapshots
    BY <1>13 DEF SaveSnapshot
  <2>2. report' \in [Runs -> Texts] /\ faults' \in 0..MaxFaults
    BY <1>13, ReportType, FaultType DEF SaveSnapshot
  <2>3. settled' \in [Runs -> Outcomes \cup {"none"}]
    BY <1>13 DEF SaveSnapshot, Committed, FailTo, ReturnError
  <2>4. QED
    BY <1>13, <2>1, <2>2, <2>3 DEF SaveSnapshot, Advance, FailTo, ReturnError, PCs, CommitSteps, process, counters, stores, logFile, Committed
<1>14. CASE Restore
  <2>1. faults' \in 0..MaxFaults
    BY <1>14, FaultType DEF Restore
  <2>2. QED
    BY <1>14, <2>1 DEF Restore, Advance, FailTo, ReturnError, PCs, CommitSteps, process, counters, stores, logFile
<1>15. CASE Forget
  <2>1. memory' \in [Runs -> Texts]
    BY <1>15 DEF Forget, Texts
  <2>2. faults' \in 0..MaxFaults
    BY <1>15, FaultType DEF Forget
  <2>3. QED
    BY <1>15, <2>1, <2>2 DEF Forget, Advance, FailTo, ReturnError, PCs, CommitSteps, process, counters, stores, logFile
<1>16. CASE TakeBackEvent
  <2>1. SubSeq(trace, 1, Len(trace) - 1) \in Seq(Events)
    <3>1. Len(trace) = began + 1
      BY <1>16 DEF TakeBackEvent, CommitInv, Logged
    <3>2. QED
      BY <3>1
  <2>2. \/ trace' = SubSeq(trace, 1, Len(trace) - 1) /\ log' = log
        \/ trace' = trace /\ log' \in {log, "damaged"}
    BY <1>16 DEF TakeBackEvent, logFile
  <2>3. trace' \in Seq(Events) /\ log' \in {"sound", "open", "damaged"}
    BY <2>1, <2>2
  <2>4. faults' \in 0..MaxFaults
    BY <1>16, FaultType DEF TakeBackEvent
  <2>5. QED
    BY <1>16, <2>3, <2>4 DEF TakeBackEvent, FailTo, PCs, process, counters
<1>17. CASE WriteFailedReport
  <2>1. report' \in [Runs -> Texts]
    BY <1>17, ReportType DEF WriteFailedReport, Texts, Outcomes
  <2>2. faults' \in 0..MaxFaults
    BY <1>17, FaultType DEF WriteFailedReport
  <2>3. QED
    BY <1>17, <2>1, <2>2 DEF WriteFailedReport, Advance, FailTo, ReturnError, PCs, CommitSteps, process, counters, stores, logFile
<1>18. CASE AppendFailedEvent
  <2>1. Event("failed") \in Events
    BY <1>18, EventType DEF AppendFailedEvent, Outcomes
  <2>2. trace' \in Seq(Events) /\ log' \in {"sound", "open", "damaged"}
    BY <1>18, <2>1, AppendType DEF AppendFailedEvent
  <2>3. faults' \in 0..MaxFaults
    BY <1>18, FaultType DEF AppendFailedEvent
  <2>4. QED
    BY <1>18, <2>2, <2>3 DEF AppendFailedEvent, Advance, FailTo, ReturnError, PCs, CommitSteps, process, counters, stores, logFile
<1>19. CASE WriteLostReport
  <2>1. report' \in [Runs -> Texts]
    BY <1>19, ReportType DEF WriteLostReport, Texts, Outcomes
  <2>2. faults' \in 0..MaxFaults
    BY <1>19, FaultType DEF WriteLostReport
  <2>3. QED
    BY <1>19, <2>1, <2>2 DEF WriteLostReport, Advance, FailTo, ReturnError, PCs, CommitSteps, process, counters, stores, logFile
<1>20. CASE Kill
  <2>1. trace' \in Seq(Events) /\ log' \in {"sound", "open", "damaged"}
    BY <1>20, KillType
  <2>2. pc' = "idle" /\ kills' \in 0..MaxKills
    BY <1>20, BoundsAssumption DEF Kill
  <2>3. QED
    BY <1>20, <2>1, <2>2 DEF Kill, PCs, process
<1>21. CASE UNCHANGED vars
  BY <1>21 DEF vars, stores, logFile, process, counters
<1>22. QED
  BY <1>2, <1>3, <1>4, <1>5, <1>6, <1>7, <1>8, <1>9, <1>10, <1>11, <1>12, <1>13, <1>14, <1>15, <1>16, <1>17, <1>18, <1>19, <1>20, <1>21 DEF Next

-----------------------------------------------------------------------------
(* The snapshot a command will save respects what was reported before it.  *)
LEMMA StartSound ==
    ASSUME TypeOK, Sound, NEW c \in {"run", "resume", "abort"}, NEW run \in Runs,
           NEW o \in Outcomes, NEW ex \in BOOLEAN, StartCommit(c, run, o, ex),
           c = "run" => run = snapshot.seq + 1,
           c # "run" => run = snapshot.pending /\ o # "approval_required"
    PROVE  Sound'
<1> USE DEF Sound, Respects, StartCommit, stores, logFile
<1> DEFINE next == NextSnapshot(c, run, o)
<1>1. /\ snapshot.seq \in Nat /\ snapshot.pending \in Nat /\ run \in Nat /\ run # 0
      /\ snapshot.pending <= snapshot.seq
  BY BoundsAssumption DEF TypeOK, Snapshots, Runs
<1>2. /\ next.seq = IF c = "run" THEN run ELSE snapshot.seq
      /\ next.pending = IF o = "approval_required" THEN run ELSE 0
  BY DEF NextSnapshot
<1>3. run <= next.seq /\ snapshot.seq <= next.seq /\ next.pending <= next.seq
  BY <1>1, <1>2
<1>4. \A r \in Runs : settled[r] # "none" => r # next.pending /\ r <= next.seq
  <2> SUFFICES ASSUME NEW r \in Runs, settled[r] # "none"
               PROVE  r # next.pending /\ r <= next.seq
    OBVIOUS
  <2>1. r \in Nat /\ r # 0 /\ r <= snapshot.seq
    BY BoundsAssumption DEF Runs
  <2>2. r <= next.seq
    BY <1>1, <1>2, <2>1
  <2>3. r # next.pending
    BY <1>1, <1>2, <2>1
  <2>4. QED
    BY <2>2, <2>3
<1>5. /\ snapshot' = snapshot /\ previous' = snapshot /\ settled' = settled
      /\ current' = run /\ outcome' = o /\ pc' = "checkpoint"
      /\ persist' = IF o = "failed" THEN NoSnapshot ELSE next
  OBVIOUS
<1>6. next \in Snapshots
  BY BoundsAssumption DEF NextSnapshot, TypeOK, Snapshots, Runs
<1>7. o # "failed" => persist' # NoSnapshot
  BY <1>5, <1>6, NoSnapshotAssumption
<1>8. persist' # NoSnapshot =>
        /\ persist'.pending <= persist'.seq /\ current' <= persist'.seq
        /\ \A r \in Runs : settled[r] # "none" => r # persist'.pending /\ r <= persist'.seq
        /\ persist'.pending = IF outcome' = "approval_required" THEN current' ELSE 0
  BY <1>2, <1>3, <1>4, <1>5
<1>9. QED
  BY <1>5, <1>7, <1>8

(* Every step leaves only snapshots that respect what was reported.        *)
LEMMA SoundStep == ASSUME CommitInv, [Next]_vars PROVE Sound'
<1> USE DEF CommitInv, Sound, Respects
<1>1. ASSUME NEW o \in Outcomes \ {"aborted"}, NEW ex \in BOOLEAN, BeginRun(o, ex)
      PROVE  Sound'
  BY <1>1, BeginFacts, StartSound DEF BeginRun
<1>2. ASSUME NEW o \in Outcomes \ {"aborted", "approval_required"}, BeginResume(o)
      PROVE  Sound'
  BY <1>2, BeginFacts, StartSound DEF BeginResume
<1>3. "aborted" \in Outcomes
  BY DEF Outcomes
<1>4. CASE BeginAbort
  BY <1>3, <1>4, BeginFacts, StartSound DEF BeginAbort
<1>5. CASE WriteCheckpoint
  BY <1>5 DEF WriteCheckpoint, Advance, FailTo, ReturnError, process, counters, stores, logFile
<1>6. CASE WriteReport
  BY <1>6 DEF WriteReport, Advance, FailTo, ReturnError, process, counters, stores, logFile
<1>7. CASE CheckConditions
  BY <1>7 DEF CheckConditions, Advance, FailTo, ReturnError, process, counters, stores, logFile
<1>8. CASE WriteReportAgain
  BY <1>8 DEF WriteReportAgain, Advance, FailTo, ReturnError, process, counters, stores, logFile
<1>9. CASE WriteRollback
  BY <1>9 DEF WriteRollback, Advance, FailTo, ReturnError, process, counters, stores, logFile
<1>10. CASE WriteReportRollback
  BY <1>10 DEF WriteReportRollback, Advance, FailTo, ReturnError, process, counters, stores, logFile
<1>11. CASE AppendEvent
  BY <1>11 DEF AppendEvent, Advance, FailTo, ReturnError, process, counters, stores, logFile
<1>12. CASE Remember
  BY <1>12 DEF Remember, Advance, FailTo, ReturnError, process, counters, stores, logFile
<1>13. CASE SaveSnapshot
  <2>1. CASE outcome = "failed"
    BY <1>13, <2>1 DEF SaveSnapshot, Committed, FailTo, ReturnError, process, counters
  <2>2. CASE outcome # "failed" /\ pc' # "idle"
    BY <1>13, <2>2 DEF SaveSnapshot, Committed, FailTo, process, counters
  <2>3. CASE outcome # "failed" /\ pc' = "idle"
    <3>1. persist # NoSnapshot /\ snapshot' = persist
      BY <1>13, <2>3 DEF SaveSnapshot, FailTo
    <3>2. settled' = IF outcome = "approval_required" THEN settled
                     ELSE [settled EXCEPT ![current] = outcome]
      BY <1>13, <2>3 DEF SaveSnapshot, Committed, FailTo
    <3>3. current \in Nat /\ current # 0 /\ current \in Runs
      BY <1>13, BoundsAssumption DEF SaveSnapshot, TypeOK, Runs
    <3>4. \A r \in Runs : settled'[r] # "none" => r # persist.pending /\ r <= persist.seq
      BY <1>13, <3>1, <3>2, <3>3 DEF SaveSnapshot, TypeOK
    <3>5. QED
      BY <1>13, <2>3, <3>1, <3>4 DEF SaveSnapshot
  <2>4. QED
    BY <2>1, <2>2, <2>3
<1>14. CASE Restore
  BY <1>14 DEF Restore, Advance, FailTo, ReturnError, process, counters, stores, logFile
<1>15. CASE Forget
  BY <1>15 DEF Forget, Advance, FailTo, ReturnError, process, counters, stores, logFile
<1>16. CASE TakeBackEvent
  BY <1>16 DEF TakeBackEvent, Advance, FailTo, ReturnError, process, counters, stores, logFile
<1>17. CASE WriteFailedReport
  BY <1>17 DEF WriteFailedReport, Advance, FailTo, ReturnError, process, counters, stores, logFile
<1>18. CASE AppendFailedEvent
  BY <1>18 DEF AppendFailedEvent, Advance, FailTo, ReturnError, process, counters, stores, logFile
<1>19. CASE WriteLostReport
  BY <1>19 DEF WriteLostReport, Advance, FailTo, ReturnError, process, counters, stores, logFile
<1>20. CASE Kill
  BY <1>20 DEF Kill, Advance, FailTo, ReturnError, process, counters, stores, logFile
<1>21. CASE UNCHANGED vars
  BY <1>21 DEF vars, stores, logFile, process, counters
<1>22. QED
  BY <1>1, <1>2, <1>3, <1>4, <1>5, <1>6, <1>7, <1>8, <1>9, <1>10, <1>11, <1>12, <1>13, <1>14, <1>15, <1>16, <1>17, <1>18, <1>19, <1>20, <1>21 DEF Next

-----------------------------------------------------------------------------
(* A command begins behind the trace it finds.                             *)
LEMMA StartLogged ==
    ASSUME TypeOK, Logged, NEW c, NEW run, NEW o, NEW ex, StartCommit(c, run, o, ex)
    PROVE  Logged'
BY DEF StartCommit, stores, logFile, Logged, TracedIn, TypeOK

(* What appending does to a trace.                                         *)
LEMMA Appended ==
    ASSUME TypeOK, NEW e \in Events, trace' = Append(trace, e)
    PROVE  /\ Len(trace') = Len(trace) + 1 /\ trace'[Len(trace) + 1] = e
           /\ \A i \in 1..Len(trace) : trace'[i] = trace[i]
BY DEF TypeOK

(* What taking the last event back does to a trace.                        *)
LEMMA TakenBack ==
    ASSUME TypeOK, Len(trace) = began + 1, trace' = SubSeq(trace, 1, Len(trace) - 1)
    PROVE  Len(trace') = began /\ \A i \in 1..began : trace'[i] = trace[i]
BY DEF TypeOK

(* The run that waits stays in the trace when an event comes behind it.    *)
LEMMA TracedStays ==
    ASSUME TypeOK, NEW s, TracedIn(s, began), began <= Len(trace),
           NEW e \in Events, trace' = Append(trace, e), UNCHANGED began
    PROVE  /\ began' <= Len(trace')
           /\ s.pending # 0 =>
                /\ \E i \in 1..began' :
                     trace'[i] = [run |-> s.pending, outcome |-> "approval_required"]
                /\ \E i \in 1..Len(trace') :
                     trace'[i] = [run |-> s.pending, outcome |-> "approval_required"]
<1>1. /\ Len(trace') = Len(trace) + 1 /\ \A i \in 1..Len(trace) : trace'[i] = trace[i]
      /\ Len(trace) \in Nat /\ began \in Nat
  BY Appended DEF TypeOK
<1>2. \A i \in 1..began : i \in 1..Len(trace) /\ i \in 1..Len(trace')
  BY <1>1
<1>3. QED
  BY <1>1, <1>2 DEF TracedIn

(* Every step keeps the waiting run in the trace.                          *)
LEMMA LoggedStep == ASSUME CommitInv, [Next]_vars PROVE Logged'
<1> USE DEF CommitInv, Logged, TypeOK
<1>1. ASSUME NEW o \in Outcomes \ {"aborted"}, NEW ex \in BOOLEAN, BeginRun(o, ex)
      PROVE  Logged'
  BY <1>1, StartLogged DEF BeginRun
<1>2. ASSUME NEW o \in Outcomes \ {"aborted", "approval_required"}, BeginResume(o)
      PROVE  Logged'
  BY <1>2, StartLogged DEF BeginResume
<1>3. CASE BeginAbort
  BY <1>3, StartLogged DEF BeginAbort
<1>4. CASE WriteCheckpoint
  BY <1>4 DEF WriteCheckpoint, Advance, FailTo, ReturnError, process, counters, stores, logFile, TracedIn, Event
<1>5. CASE WriteReport
  BY <1>5 DEF WriteReport, Advance, FailTo, ReturnError, process, counters, stores, logFile, TracedIn, Event
<1>6. CASE CheckConditions
  BY <1>6 DEF CheckConditions, Advance, FailTo, ReturnError, process, counters, stores, logFile, TracedIn, Event
<1>7. CASE WriteReportAgain
  BY <1>7 DEF WriteReportAgain, Advance, FailTo, ReturnError, process, counters, stores, logFile, TracedIn, Event
<1>8. CASE WriteRollback
  BY <1>8 DEF WriteRollback, Advance, FailTo, ReturnError, process, counters, stores, logFile, TracedIn, Event
<1>9. CASE WriteReportRollback
  BY <1>9 DEF WriteReportRollback, Advance, FailTo, ReturnError, process, counters, stores, logFile, TracedIn, Event
<1>10. CASE AppendEvent
  <2>1. /\ Event(outcome) \in Events /\ pc = "trace" /\ began = Len(trace)
        /\ UNCHANGED <<snapshot, process, outcome>>
        /\ TracedIn(snapshot, began) /\ TracedIn(previous, began)
    BY <1>10, EventType DEF AppendEvent, Advance, ReturnError
  <2>2. \/ trace' = Append(trace, Event(outcome)) /\ pc' \in {"memory", "idle"}
        \/ UNCHANGED trace /\ pc' = "idle"
    BY <1>10, <2>1, AppendType DEF AppendEvent, Advance, ReturnError, AppendWhole
  <2>3. CASE trace' = Append(trace, Event(outcome))
    <3>1. Len(trace') = began + 1 /\ trace'[began + 1] = Event(outcome)
      BY <2>1, <2>3, Appended
    <3>2. /\ began' <= Len(trace') /\ TracedIn(snapshot, began)'
          /\ TracedIn(previous, began)' /\ TracedIn(snapshot, Len(trace))'
      BY <2>1, <2>3, TracedStays DEF TracedIn, process
    <3>3. QED
      BY <2>1, <2>2, <3>1, <3>2 DEF process, Event
  <2>4. CASE UNCHANGED trace
    BY <2>1, <2>2, <2>4 DEF TracedIn, process
  <2>5. QED
    BY <2>2, <2>3, <2>4
<1>11. CASE Remember
  BY <1>11 DEF Remember, Advance, FailTo, ReturnError, process, counters, stores, logFile, TracedIn, Event
<1>12. CASE SaveSnapshot
  <2>1. trace' = trace /\ began' = began /\ previous' = previous
    BY <1>12 DEF SaveSnapshot, Advance, FailTo, ReturnError, process, counters, stores, logFile, TracedIn, Event, Committed
  <2>2. CASE snapshot' = snapshot
    BY <1>12, <2>1, <2>2 DEF SaveSnapshot, Advance, FailTo, ReturnError, process, counters, stores, logFile, TracedIn, Event, Committed
  <2>3. CASE persist # NoSnapshot /\ snapshot' = persist /\ Committed
    <3>1. persist.pending # 0 => outcome = "approval_required" /\ persist.pending = current
      BY <1>12, <2>3 DEF SaveSnapshot, Sound
    <3>2. trace[began + 1] = Event(outcome) /\ Len(trace) = began + 1
      BY <1>12 DEF SaveSnapshot
    <3>3. TracedIn(snapshot, Len(trace))'
      BY <2>1, <2>3, <3>1, <3>2 DEF TracedIn, Event
    <3>4. CASE outcome = "failed"
      <4>1. TracedIn(snapshot, began)'
        BY <2>3, <3>1, <3>4 DEF TracedIn
      <4>2. pc' \in {"idle", "restore"}
        BY <2>3, <3>4 DEF Committed, FailTo, ReturnError
      <4>3. TracedIn(previous, began)'
        BY <1>12, <2>1 DEF SaveSnapshot, TracedIn
      <4>4. QED
        BY <2>1, <3>3, <4>1, <4>2, <4>3
    <3>5. CASE outcome # "failed"
      <4>1. pc' = "idle"
        BY <2>3, <3>5 DEF Committed
      <4>2. QED
        BY <2>1, <3>3, <4>1
    <3>6. QED
      BY <3>4, <3>5
  <2>4. QED
    BY <1>12, <2>2, <2>3 DEF SaveSnapshot
<1>13. CASE Restore
  BY <1>13 DEF Restore, Advance, FailTo, ReturnError, process, counters, stores, logFile, TracedIn, Event
<1>14. CASE Forget
  BY <1>14 DEF Forget, Advance, FailTo, ReturnError, process, counters, stores, logFile, TracedIn, Event
<1>15. CASE TakeBackEvent
  <2>1. Len(trace) = began + 1
    BY <1>15 DEF TakeBackEvent
  <2>2. trace' = SubSeq(trace, 1, Len(trace) - 1) \/ UNCHANGED trace
    BY <1>15 DEF TakeBackEvent, logFile
  <2>3. began <= Len(trace') /\ \A i \in 1..began : trace'[i] = trace[i]
    BY <2>1, <2>2
  <2>4. QED
    BY <1>15, <2>3 DEF TakeBackEvent, Advance, FailTo, ReturnError, process, counters, stores, logFile, TracedIn, Event
<1>16. CASE WriteFailedReport
  BY <1>16 DEF WriteFailedReport, Advance, FailTo, ReturnError, process, counters, stores, logFile, TracedIn, Event
<1>17. CASE AppendFailedEvent
  <2>1. /\ Event("failed") \in Events /\ pc' = "idle" /\ UNCHANGED <<snapshot, process>>
        /\ TracedIn(snapshot, began) /\ began <= Len(trace)
    BY <1>17, EventType DEF AppendFailedEvent, ReturnError, Outcomes
  <2>2. CASE trace' = Append(trace, Event("failed"))
    BY <2>1, <2>2, TracedStays DEF TracedIn, process
  <2>3. CASE UNCHANGED trace
    BY <2>1, <2>3 DEF TracedIn, process
  <2>4. QED
    BY <1>17, <2>1, <2>2, <2>3, AppendType DEF AppendFailedEvent
<1>18. CASE WriteLostReport
  BY <1>18 DEF WriteLostReport, Advance, FailTo, ReturnError, process, counters, stores, logFile, TracedIn, Event
<1>19. CASE Kill
  <2>1. /\ pc # "idle" /\ pc' = "idle" /\ UNCHANGED <<snapshot, process>>
        /\ TracedIn(snapshot, began) /\ began <= Len(trace)
    BY <1>19 DEF Kill
  <2>2. CASE UNCHANGED trace
    BY <2>1, <2>2 DEF TracedIn, process
  <2>3. ASSUME NEW o \in Outcomes, Event(o) \in Events, trace' = Append(trace, Event(o))
        PROVE  Logged'
    BY <2>1, <2>3, TracedStays DEF TracedIn, process
  <2>4. QED
    BY <1>19, <2>2, <2>3, KillType
<1>20. CASE UNCHANGED vars
  BY <1>20 DEF vars, stores, logFile, process, counters, TracedIn, Event
<1>21. QED
  BY <1>1, <1>2, <1>3, <1>4, <1>5, <1>6, <1>7, <1>8, <1>9, <1>10, <1>11, <1>12, <1>13, <1>14, <1>15, <1>16, <1>17, <1>18, <1>19, <1>20 DEF Next

(* Every step leaves the snapshot as the command found it until its commit *)
(* is complete, and an error puts it back.                                 *)
LEMMA UndoneStep == ASSUME CommitInv, [Next]_vars PROVE Undone'
<1> USE DEF CommitInv, Undone, FailedCommandLeavesSnapshot
<1>1. ASSUME NEW c, NEW run, NEW o, NEW ex, StartCommit(c, run, o, ex) PROVE Undone'
  BY <1>1 DEF StartCommit, stores, logFile
<1>2. CASE BeginAbort \/ (\E o, ex : BeginRun(o, ex)) \/ (\E o : BeginResume(o))
  BY <1>1, <1>2 DEF BeginRun, BeginResume, BeginAbort
<1>3. CASE WriteCheckpoint
  BY <1>3 DEF WriteCheckpoint, Advance, FailTo, ReturnError, process, counters, stores, logFile
<1>4. CASE WriteReport
  BY <1>4 DEF WriteReport, Advance, FailTo, ReturnError, process, counters, stores, logFile
<1>5. CASE CheckConditions
  BY <1>5 DEF CheckConditions, Advance, FailTo, ReturnError, process, counters, stores, logFile
<1>6. CASE WriteReportAgain
  BY <1>6 DEF WriteReportAgain, Advance, FailTo, ReturnError, process, counters, stores, logFile
<1>7. CASE WriteRollback
  BY <1>7 DEF WriteRollback, Advance, FailTo, ReturnError, process, counters, stores, logFile
<1>8. CASE WriteReportRollback
  BY <1>8 DEF WriteReportRollback, Advance, FailTo, ReturnError, process, counters, stores, logFile
<1>9. CASE AppendEvent
  BY <1>9 DEF AppendEvent, Advance, FailTo, ReturnError, process, counters, stores, logFile
<1>10. CASE Remember
  BY <1>10 DEF Remember, Advance, FailTo, ReturnError, process, counters, stores, logFile
<1>11. CASE SaveSnapshot
  BY <1>11 DEF SaveSnapshot, Advance, FailTo, ReturnError, process, counters, stores, logFile, Committed
<1>12. CASE Restore
  BY <1>12 DEF Restore, Advance, FailTo, ReturnError, process, counters, stores, logFile
<1>13. CASE Forget
  BY <1>13 DEF Forget, Advance, FailTo, ReturnError, process, counters, stores, logFile
<1>14. CASE TakeBackEvent
  BY <1>14 DEF TakeBackEvent, Advance, FailTo, ReturnError, process, counters, stores, logFile
<1>15. CASE WriteFailedReport
  BY <1>15 DEF WriteFailedReport, Advance, FailTo, ReturnError, process, counters, stores, logFile
<1>16. CASE AppendFailedEvent
  BY <1>16 DEF AppendFailedEvent, Advance, FailTo, ReturnError, process, counters, stores, logFile
<1>17. CASE WriteLostReport
  BY <1>17 DEF WriteLostReport, Advance, FailTo, ReturnError, process, counters, stores, logFile
<1>18. CASE Kill
  BY <1>18 DEF Kill, Advance, FailTo, ReturnError, process, counters, stores, logFile
<1>19. CASE UNCHANGED vars
  BY <1>19 DEF vars, stores, logFile, process, counters
<1>20. QED
  BY <1>2, <1>3, <1>4, <1>5, <1>6, <1>7, <1>8, <1>9, <1>10, <1>11, <1>12, <1>13, <1>14, <1>15, <1>16, <1>17, <1>18, <1>19 DEF Next

(* The invariant holds in every reachable state.                           *)
LEMMA CommitInvariant == Spec => []CommitInv
<1>1. CommitInv /\ [Next]_vars => CommitInv'
  BY TypeStep, SoundStep, LoggedStep, UndoneStep DEF CommitInv
<1>2. QED
  BY <1>1, CommitInit, PTL DEF Spec

(* The stores and the command in progress keep their types, for every      *)
(* bound on runs, commands, failing writes and kills.                      *)
THEOREM CommitTypeOK == Spec => []TypeOK
<1>1. CommitInv => TypeOK
  BY DEF CommitInv
<1>2. QED
  BY <1>1, CommitInvariant, PTL

(* docs/RUNBOOK.md:66-67, however many writes fail and commands die: a run *)
(* that was reported as ended never waits again, and its number is never   *)
(* given to another run.                                                   *)
THEOREM SettledRunsStaySettledHolds == Spec => []SettledRunsStaySettled
<1>1. CommitInv => SettledRunsStaySettled
  BY DEF CommitInv, Sound, Respects, SettledRunsStaySettled
<1>2. QED
  BY <1>1, CommitInvariant, PTL

(* run_commit.rs:192 before :243, however many writes fail and commands    *)
(* die: the run that waits in the snapshot is in the trace as waiting,     *)
(* which loads unless the log was damaged.                                 *)
THEOREM PendingWasTracedHolds == Spec => []PendingWasTraced
<1>1. CommitInv => PendingWasTraced
  <2> SUFFICES ASSUME CommitInv, snapshot.pending # 0
               PROVE  \E i \in DOMAIN trace :
                        trace[i] = [run |-> snapshot.pending, outcome |-> "approval_required"]
    BY DEF PendingWasTraced
  <2>1. DOMAIN trace = 1..Len(trace) /\ Len(trace) \in Nat /\ began \in Nat
    BY DEF CommitInv, TypeOK
  <2>2. TracedIn(snapshot, Len(trace)) \/ TracedIn(snapshot, began)
    BY DEF CommitInv, Logged
  <2>3. began <= Len(trace)
    BY DEF CommitInv, Logged
  <2>4. QED
    BY <2>1, <2>2, <2>3 DEF TracedIn
<1>2. QED
  BY <1>1, CommitInvariant, PTL

(* run_session.rs:265-275, however many writes fail: a command that        *)
(* returned an error left the snapshot as it found it, unless the save     *)
(* that puts it back failed.                                               *)
THEOREM FailedCommandLeavesSnapshotHolds == Spec => []FailedCommandLeavesSnapshot
<1>1. CommitInv => FailedCommandLeavesSnapshot
  BY DEF CommitInv, Undone
<1>2. QED
  BY <1>1, CommitInvariant, PTL

-----------------------------------------------------------------------------
\* The stores tell the outcome that was reported of r, the trace among its
\* first n events, and no later event is about r.
Told(r, n) ==
    /\ report[r] = settled[r] /\ memory[r] = settled[r]
    /\ \E i \in 1..n : /\ trace[i] = [run |-> r, outcome |-> settled[r]]
                       /\ \A j \in (i + 1)..Len(trace) : trace[j].run # r

\* A command is never about a run that was reported as ended, and by the time
\* it reports its own run as ended it has written the report and the memory.
Evident ==
    /\ pc = "idle" => \A r \in Runs : settled[r] # "none" => Told(r, Len(trace))
    /\ pc # "idle" => \A r \in Runs : settled[r] # "none" => r # current /\ Told(r, began)
    /\ pc \in {"rollback", "reportRollback", "trace", "memory", "save"}
          => report[current] = outcome
    /\ pc \in {"save", "forget"} => memory[current] = outcome

\* One of the first n events tells the success the memory tells of r.
Claimed(r, n) ==
    memory[r] = "success" =>
        \E i \in 1..n : trace[i] = [run |-> r, outcome |-> "success"]

\* The memory runs ahead of the trace for the run in progress only, and only
\* behind the event of this command.
Claims ==
    /\ pc \in {"idle", "restore"} => \A r \in Runs : Claimed(r, Len(trace))
    /\ pc \in {"save", "forget"} => \A r \in Runs : r # current => Claimed(r, began)
    /\ pc \notin {"idle", "restore", "save", "forget"} => \A r \in Runs : Claimed(r, began)

(* An event of the run in progress leaves what the trace tells of another. *)
LEMMA ToldBefore ==
    ASSUME TypeOK, NEW r \in Runs, r # current, Told(r, began), began <= Len(trace),
           NEW e \in Events, e.run = current,
           trace' = Append(trace, e) \/ UNCHANGED trace,
           UNCHANGED <<began, settled>>, report'[r] = report[r], memory'[r] = memory[r]
    PROVE  Told(r, began)' /\ Told(r, Len(trace))'
<1> USE DEF TypeOK
<1>1. PICK i \in 1..began : /\ trace[i] = [run |-> r, outcome |-> settled[r]]
                           /\ \A j \in (i + 1)..Len(trace) : trace[j].run # r
  BY DEF Told
<1>2. CASE UNCHANGED trace
  <2>1. i \in 1..began' /\ i \in 1..Len(trace')
    BY <1>2
  <2>2. QED
    BY <1>1, <1>2, <2>1 DEF Told
<1>3. CASE trace' = Append(trace, e)
  <2>1. /\ Len(trace') = Len(trace) + 1 /\ trace'[Len(trace) + 1] = e
        /\ \A j \in 1..Len(trace) : trace'[j] = trace[j]
    BY <1>3, Appended
  <2>2. i \in 1..began' /\ i \in 1..Len(trace') /\ i \in 1..Len(trace)
    BY <2>1
  <2>3. ASSUME NEW j \in (i + 1)..Len(trace') PROVE trace'[j].run # r
    <3>1. j = Len(trace) + 1 \/ (j \in (i + 1)..Len(trace) /\ j \in 1..Len(trace))
      BY <2>1
    <3>2. QED
      BY <1>1, <2>1, <3>1
  <2>4. trace'[i] = trace[i]
    BY <2>1, <2>2
  <2>5. QED
    BY <1>1, <2>2, <2>3, <2>4 DEF Told
<1>4. QED
  BY <1>2, <1>3

(* A new command is not about a run that was reported as ended.            *)
LEMMA StartEvident ==
    ASSUME CommitInv, Evident, NEW c, NEW run \in Runs, NEW o, NEW ex,
           StartCommit(c, run, o, ex), run = snapshot.pending \/ run = snapshot.seq + 1
    PROVE  Evident'
<1>1. \A r \in Runs : settled[r] # "none" => r # run
  BY BoundsAssumption DEF CommitInv, Sound, Respects, TypeOK, Snapshots, Runs
<1>2. QED
  BY <1>1 DEF StartCommit, stores, logFile, Evident, Told

(* Every step keeps what was told of the runs that ended.                  *)
LEMMA EvidentStep == ASSUME CommitInv, Evident, [Next]_vars PROVE Evident'
<1> USE DEF CommitInv, TypeOK, Evident
<1>1. ASSUME NEW o \in Outcomes \ {"aborted"}, NEW ex \in BOOLEAN, BeginRun(o, ex)
      PROVE  Evident'
  BY <1>1, BeginFacts, StartEvident DEF BeginRun
<1>2. ASSUME NEW o \in Outcomes \ {"aborted", "approval_required"}, BeginResume(o)
      PROVE  Evident'
  BY <1>2, BeginFacts, StartEvident DEF BeginResume
<1>3. CASE BeginAbort
  BY <1>3, BeginFacts, StartEvident DEF BeginAbort
<1>4. CASE WriteCheckpoint
  BY <1>4 DEF WriteCheckpoint, Advance, ReturnError, process, stores, logFile, Told, Logged
<1>5. CASE WriteReport
  BY <1>5 DEF WriteReport, Advance, FailTo, process, logFile, Told, TearReport, WriteText
<1>6. CASE CheckConditions
  BY <1>6 DEF CheckConditions, Advance, process, stores, logFile, Told
<1>7. CASE WriteReportAgain
  BY <1>7 DEF WriteReportAgain, Advance, FailTo, process, logFile, Told, Cleanup, WriteText
<1>8. CASE WriteRollback
  BY <1>8 DEF WriteRollback, Advance, ReturnError, process, logFile, Told, Cleanup, Logged
<1>9. CASE WriteReportRollback
  BY <1>9 DEF WriteReportRollback, Advance, FailTo, process, logFile, Told, Cleanup, WriteText
<1>10. CASE AppendEvent
  <2>1. Event(outcome) \in Events /\ Event(outcome).run = current /\ Len(trace) = began
    BY <1>10, EventType DEF AppendEvent, Event, Logged
  <2>2. /\ pc' \in {"memory", "idle"} /\ UNCHANGED <<process, settled, memory, outcome>>
        /\ pc' = "memory" => report' = report
        /\ \A r \in Runs : r # current => report'[r] = report[r]
    BY <1>10 DEF AppendEvent, Advance, ReturnError, Cleanup
  <2>3. trace' = Append(trace, Event(outcome)) \/ UNCHANGED trace
    BY <1>10, <2>1, AppendType DEF AppendEvent
  <2>4. ASSUME NEW r \in Runs, settled[r] # "none"
        PROVE  r # current /\ Told(r, began)' /\ Told(r, Len(trace))'
    BY <1>10, <2>1, <2>2, <2>3, <2>4, ToldBefore DEF AppendEvent, process
  <2>5. QED
    BY <1>10, <2>2, <2>4 DEF AppendEvent, process
<1>11. CASE Remember
  <2>1. /\ pc' \in {"save", "takeBack"} /\ UNCHANGED <<trace, process, settled, outcome>>
        /\ pc' = "save" => report' = report /\ memory' = [memory EXCEPT ![current] = outcome]
        /\ \A r \in Runs : r # current => report'[r] = report[r] /\ memory'[r] = memory[r]
    BY <1>11 DEF Remember, Advance, FailTo, Cleanup, logFile
  <2>2. Event(outcome) \in Events /\ Event(outcome).run = current /\ began <= Len(trace)
    BY <1>11, EventType DEF Remember, Event, Logged
  <2>3. ASSUME NEW r \in Runs, settled[r] # "none" PROVE r # current /\ Told(r, began)'
    <3>1. r # current /\ Told(r, began)
      BY <1>11, <2>3 DEF Remember
    <3>2. QED
      BY <2>1, <2>2, <3>1, ToldBefore DEF process
  <2>4. QED
    BY <1>11, <2>1, <2>3 DEF Remember, process
<1>12. CASE SaveSnapshot
  <2>1. /\ UNCHANGED <<trace, memory, process>>
        /\ \A r \in Runs : r # current => report'[r] = report[r]
        /\ pc' \in {"idle", "restore", "forget"} /\ (pc' = "forget" => UNCHANGED outcome)
    BY <1>12 DEF logFile, SaveSnapshot, Committed, FailTo, ReturnError, Cleanup
  <2>2. /\ Len(trace) = began + 1 /\ trace[began + 1] = Event(outcome)
        /\ current \in Runs /\ Len(trace) \in Nat
    BY <1>12 DEF SaveSnapshot, Logged
  <2>3. ASSUME NEW r \in Runs, settled[r] # "none"
        PROVE  r # current /\ (settled'[r] = settled[r] => Told(r, began)' /\ Told(r, Len(trace))')
    <3>1. r # current /\ Told(r, began)
      BY <1>12, <2>3 DEF SaveSnapshot
    <3>2. PICK i \in 1..began : /\ trace[i] = [run |-> r, outcome |-> settled[r]]
                               /\ \A j \in (i + 1)..Len(trace) : trace[j].run # r
      BY <3>1 DEF Told
    <3>3. i \in 1..began' /\ i \in 1..Len(trace')
      BY <2>1, <2>2 DEF process
    <3>4. report'[r] = settled[r] /\ memory'[r] = settled[r] /\ trace' = trace
      BY <2>1, <3>1 DEF Told
    <3>5. QED
      BY <3>1, <3>2, <3>3, <3>4 DEF Told
  <2>4. CASE UNCHANGED settled
    BY <1>12, <2>1, <2>3, <2>4 DEF SaveSnapshot, process
  <2>5. CASE settled' # settled
    <3>1. /\ settled' = [settled EXCEPT ![current] = outcome] /\ pc' = "idle"
          /\ UNCHANGED report
      BY <1>12, <2>5 DEF SaveSnapshot, Committed, FailTo, ReturnError
    <3>2. Told(current, Len(trace))'
      <4>1. \A j \in (began + 2)..Len(trace) : FALSE
        BY <2>2
      <4>2. began + 1 \in 1..Len(trace') /\ began + 1 + 1 = began + 2
        BY <2>1, <2>2
      <4>3. report'[current] = outcome /\ memory'[current] = outcome
            /\ settled'[current] = outcome
        BY <1>12, <2>1, <2>2, <3>1 DEF SaveSnapshot
      <4>4. trace'[began + 1] = [run |-> current, outcome |-> outcome]
        BY <2>1, <2>2 DEF Event
      <4>5. QED
        BY <2>1, <4>1, <4>2, <4>3, <4>4 DEF Told, process
    <3>3. \A r \in Runs : r # current => settled'[r] = settled[r]
      BY <3>1
    <3>4. ASSUME NEW r \in Runs, settled'[r] # "none" PROVE Told(r, Len(trace))'
      <4>1. CASE r = current
        BY <2>1, <3>2, <4>1 DEF Told, process
      <4>2. CASE r # current
        BY <2>3, <3>3, <3>4, <4>2
      <4>3. QED
        BY <4>1, <4>2
    <3>5. QED
      BY <3>1, <3>4
  <2>6. QED
    BY <2>4, <2>5
<1>13. CASE Restore
  BY <1>13 DEF Restore, ReturnError, process, logFile, Told, Logged
<1>14. CASE Forget
  BY <1>14 DEF Forget, FailTo, ReturnError, process, logFile, Told, Logged
<1>15. CASE TakeBackEvent
  <2>1. Len(trace) = began + 1
    BY <1>15 DEF TakeBackEvent, Logged
  <2>2. /\ pc' = "failedReport" /\ UNCHANGED <<process, report, memory, settled, outcome>>
        /\ trace' = SubSeq(trace, 1, Len(trace) - 1) \/ UNCHANGED trace
    BY <1>15 DEF TakeBackEvent, FailTo, logFile
  <2>3. CASE trace' = SubSeq(trace, 1, Len(trace) - 1)
    <3>1. Len(trace') = began /\ \A i \in 1..began : trace'[i] = trace[i]
      BY <2>1, <2>3, TakenBack
    <3>2. ASSUME NEW r \in Runs, settled[r] # "none" PROVE r # current /\ Told(r, began)'
      <4>1. r # current /\ Told(r, began)
        BY <1>15, <3>2 DEF TakeBackEvent
      <4>2. PICK i \in 1..began : /\ trace[i] = [run |-> r, outcome |-> settled[r]]
                                 /\ \A j \in (i + 1)..Len(trace) : trace[j].run # r
        BY <4>1 DEF Told
      <4>3. trace'[i] = trace[i] /\ \A j \in (i + 1)..Len(trace') : trace'[j].run # r
        <5>1. ASSUME NEW j \in (i + 1)..began PROVE trace'[j].run # r
          <6>1. j \in 1..began /\ j \in (i + 1)..Len(trace)
            BY <2>1
          <6>2. trace'[j] = trace[j]
            BY <3>1, <6>1
          <6>3. QED
            BY <4>2, <6>1, <6>2
        <5>2. trace'[i] = trace[i]
          BY <3>1
        <5>3. QED
          BY <3>1, <5>1, <5>2
      <4>4. QED
        BY <2>2, <4>1, <4>2, <4>3 DEF Told, process
    <3>3. QED
      BY <2>2, <3>2 DEF process
  <2>4. CASE UNCHANGED trace
    BY <1>15, <2>2, <2>4 DEF TakeBackEvent, Told, process
  <2>5. QED
    BY <2>2, <2>3, <2>4
<1>16. CASE WriteFailedReport
  BY <1>16 DEF WriteFailedReport, FailTo, ReturnError, process, logFile, Told, TearReport, WriteText, Logged
<1>17. CASE AppendFailedEvent
  <2>1. /\ Event("failed") \in Events /\ Event("failed").run = current
        /\ began <= Len(trace)
    BY <1>17, EventType DEF AppendFailedEvent, Event, Outcomes, Logged
  <2>2. pc' = "idle" /\ UNCHANGED <<process, report, memory, settled, outcome>>
        /\ (trace' = Append(trace, Event("failed")) \/ UNCHANGED trace)
    BY <1>17, <2>1, AppendType DEF AppendFailedEvent, ReturnError
  <2>3. ASSUME NEW r \in Runs, settled[r] # "none" PROVE Told(r, Len(trace))'
    <3>1. r # current /\ Told(r, began)
      BY <1>17, <2>3 DEF AppendFailedEvent
    <3>2. QED
      BY <2>1, <2>2, <3>1, ToldBefore DEF process
  <2>4. QED
    BY <2>2, <2>3
<1>18. CASE WriteLostReport
  BY <1>18 DEF WriteLostReport, FailTo, process, logFile, Told, TearReport, WriteText
<1>19. CASE Kill
  <2>1. /\ pc # "idle" /\ pc' = "idle" /\ began <= Len(trace)
        /\ UNCHANGED <<process, report, memory, settled, outcome>>
    BY <1>19 DEF Kill, Logged
  <2>2. PICK e \in Events : e.run = current /\ (trace' = Append(trace, e) \/ UNCHANGED trace)
    <3>1. Event(outcome) \in Events /\ Event(outcome).run = current
      BY <2>1, EventType DEF Event
    <3>2. QED
      BY <1>19, <3>1, KillType
  <2>3. ASSUME NEW r \in Runs, settled[r] # "none" PROVE Told(r, Len(trace))'
    <3>1. r # current /\ Told(r, began)
      BY <2>1, <2>3
    <3>2. QED
      BY <2>1, <2>2, <3>1, ToldBefore DEF process
  <2>4. QED
    BY <2>1, <2>3
<1>20. CASE UNCHANGED vars
  BY <1>20 DEF vars, stores, logFile, process, counters, Told, Cleanup, TearReport, WriteText, Logged
<1>21. QED
  BY <1>1, <1>2, <1>3, <1>4, <1>5, <1>6, <1>7, <1>8, <1>9, <1>10, <1>11, <1>12, <1>13, <1>14, <1>15, <1>16, <1>17, <1>18, <1>19, <1>20 DEF Next

(* Behind the event of this command, the memory claims nothing the trace   *)
(* does not tell.                                                          *)
LEMMA ClaimedBehind ==
    ASSUME TypeOK, current \in Runs, Len(trace) = began + 1, memory[current] = outcome,
           trace[began + 1] = [run |-> current, outcome |-> outcome],
           \A r \in Runs : r # current => Claimed(r, began)
    PROVE  \A r \in Runs : Claimed(r, Len(trace))
<1> SUFFICES ASSUME NEW r \in Runs PROVE Claimed(r, Len(trace))
  OBVIOUS
<1> SUFFICES ASSUME memory[r] = "success"
             PROVE  \E i \in 1..Len(trace) : trace[i] = [run |-> r, outcome |-> "success"]
  BY DEF Claimed
<1>1. Len(trace) \in Nat /\ began \in Nat /\ began + 1 \in 1..Len(trace)
  BY DEF TypeOK
<1>2. CASE r = current
  BY <1>1, <1>2
<1>3. CASE r # current
  <2>1. PICK i \in 1..began : trace[i] = [run |-> r, outcome |-> "success"]
    BY <1>3 DEF Claimed
  <2>2. i \in 1..Len(trace)
    BY <1>1
  <2>3. QED
    BY <2>1, <2>2
<1>4. QED
  BY <1>2, <1>3

(* What the memory claims stays in the trace when an event comes behind it. *)
LEMMA ClaimedStays ==
    ASSUME TypeOK, NEW r, Claimed(r, began), began <= Len(trace), NEW e \in Events,
           trace' = Append(trace, e) \/ UNCHANGED trace, UNCHANGED <<began, memory>>
    PROVE  Claimed(r, began)' /\ Claimed(r, Len(trace))'
<1>1. \A i \in 1..began : i \in 1..Len(trace') /\ trace'[i] = trace[i]
  <2>1. CASE UNCHANGED trace
    BY <2>1 DEF TypeOK
  <2>2. CASE trace' = Append(trace, e)
    BY <2>2, Appended DEF TypeOK
  <2>3. QED
    BY <2>1, <2>2
<1>2. QED
  BY <1>1 DEF Claimed

(* Every step keeps the memory behind the trace.                           *)
LEMMA ClaimsStep == ASSUME CommitInv, Evident, Claims, [Next]_vars PROVE Claims'
<1> USE DEF CommitInv, TypeOK, Claims
<1>1. ASSUME NEW c, NEW run, NEW o, NEW ex, StartCommit(c, run, o, ex) PROVE Claims'
  BY <1>1 DEF StartCommit, stores, logFile, Claimed
<1>2. CASE BeginAbort \/ (\E o, ex : BeginRun(o, ex)) \/ (\E o : BeginResume(o))
  BY <1>1, <1>2 DEF BeginRun, BeginResume, BeginAbort
<1>3. CASE WriteCheckpoint
  BY <1>3 DEF WriteCheckpoint, Advance, FailTo, ReturnError, process, counters, stores, logFile, Claimed, Logged
<1>4. CASE WriteReport
  BY <1>4 DEF WriteReport, Advance, FailTo, ReturnError, process, counters, stores, logFile, Claimed, Logged
<1>5. CASE CheckConditions
  BY <1>5 DEF CheckConditions, Advance, FailTo, ReturnError, process, counters, stores, logFile, Claimed, Logged
<1>6. CASE WriteReportAgain
  BY <1>6 DEF WriteReportAgain, Advance, FailTo, ReturnError, process, counters, stores, logFile, Claimed, Logged
<1>7. CASE WriteRollback
  BY <1>7 DEF WriteRollback, Advance, FailTo, ReturnError, process, counters, stores, logFile, Claimed, Logged
<1>8. CASE WriteReportRollback
  BY <1>8 DEF WriteReportRollback, Advance, FailTo, ReturnError, process, counters, stores, logFile, Claimed, Logged
<1>9. CASE AppendEvent
  <2>1. /\ Event(outcome) \in Events /\ Len(trace) = began /\ pc' \in {"memory", "idle"}
        /\ UNCHANGED <<memory, process>> /\ \A r \in Runs : Claimed(r, began)
    BY <1>9, EventType DEF AppendEvent, Logged, Advance, ReturnError
  <2>2. trace' = Append(trace, Event(outcome)) \/ UNCHANGED trace
    BY <1>9, <2>1, AppendType DEF AppendEvent
  <2>3. \A r \in Runs : Claimed(r, began)' /\ Claimed(r, Len(trace))'
    BY <2>1, <2>2, ClaimedStays DEF process
  <2>4. QED
    BY <2>1, <2>3
<1>10. CASE Remember
  BY <1>10 DEF Remember, Advance, FailTo, ReturnError, process, counters, stores, logFile, Claimed, Logged
<1>11. CASE SaveSnapshot
  <2>1. /\ Len(trace) = began + 1 /\ trace[began + 1] = [run |-> current, outcome |-> outcome]
        /\ memory[current] = outcome /\ current \in Runs
    BY <1>11 DEF SaveSnapshot, Logged, Evident, Event
  <2>2. \A r \in Runs : Claimed(r, Len(trace))
    BY <1>11, <2>1, ClaimedBehind DEF SaveSnapshot
  <2>3. UNCHANGED <<trace, memory, process>> /\ pc' \in {"idle", "restore", "forget"}
    BY <1>11 DEF logFile, SaveSnapshot, Committed, FailTo, ReturnError
  <2>4. QED
    BY <1>11, <2>2, <2>3 DEF SaveSnapshot, Claimed, process
<1>12. CASE Restore
  BY <1>12 DEF Restore, Advance, FailTo, ReturnError, process, counters, stores, logFile, Claimed, Logged
<1>13. CASE Forget
  <2>1. /\ Len(trace) = began + 1 /\ trace[began + 1] = [run |-> current, outcome |-> outcome]
        /\ memory[current] = outcome /\ current \in Runs
    BY <1>13 DEF Forget, Logged, Evident, Event
  <2>2. \A r \in Runs : Claimed(r, Len(trace))
    BY <1>13, <2>1, ClaimedBehind DEF Forget
  <2>3. /\ UNCHANGED <<trace, process>>
        /\ \/ pc' = "idle" /\ UNCHANGED memory
           \/ pc' = "takeBack" /\ memory' = [memory EXCEPT ![current] = "none"]
    BY <1>13 DEF logFile, Forget, FailTo, ReturnError
  <2>4. QED
    BY <1>13, <2>2, <2>3 DEF Forget, Claimed, process
<1>14. CASE TakeBackEvent
  <2>1. /\ pc' = "failedReport" /\ UNCHANGED <<process, memory>> /\ Len(trace) = began + 1
        /\ trace' = SubSeq(trace, 1, Len(trace) - 1) \/ UNCHANGED trace
    BY <1>14 DEF TakeBackEvent, FailTo, Logged, logFile
  <2>2. \A i \in 1..began : trace'[i] = trace[i]
    BY <2>1, TakenBack
  <2>3. QED
    BY <1>14, <2>1, <2>2 DEF TakeBackEvent, Claimed, process
<1>15. CASE WriteFailedReport
  BY <1>15 DEF WriteFailedReport, Advance, FailTo, ReturnError, process, counters, stores, logFile, Claimed, Logged
<1>16. CASE AppendFailedEvent
  <2>1. /\ Event("failed") \in Events /\ began <= Len(trace)
        /\ pc' = "idle" /\ UNCHANGED <<process, memory>>
        /\ \A r \in Runs : Claimed(r, began)
    BY <1>16, EventType DEF AppendFailedEvent, Logged, ReturnError, Outcomes
  <2>2. trace' = Append(trace, Event("failed")) \/ UNCHANGED trace
    BY <1>16, <2>1, AppendType DEF AppendFailedEvent
  <2>3. \A r \in Runs : Claimed(r, Len(trace))'
    BY <2>1, <2>2, ClaimedStays DEF process
  <2>4. QED
    BY <2>1, <2>3
<1>17. CASE WriteLostReport
  BY <1>17 DEF WriteLostReport, Advance, FailTo, ReturnError, process, counters, stores, logFile, Claimed, Logged
<1>18. CASE Kill
  <2>1. /\ pc # "idle" /\ pc' = "idle" /\ UNCHANGED <<process, memory>>
        /\ began <= Len(trace)
        /\ pc \notin {"trace", "failedTrace", "lostTrace"} => UNCHANGED trace
    BY <1>18, KillType DEF Kill, Logged
  <2>2. CASE pc \in {"save", "forget"}
    <3>1. /\ Len(trace) = began + 1
          /\ trace[began + 1] = [run |-> current, outcome |-> outcome]
          /\ memory[current] = outcome /\ current \in Runs
      BY <2>2 DEF Logged, Evident, Event
    <3>2. \A r \in Runs : Claimed(r, Len(trace))
      BY <2>2, <3>1, ClaimedBehind
    <3>3. QED
      BY <2>1, <2>2, <3>2 DEF Claimed
  <2>3. CASE pc = "restore"
    BY <2>1, <2>3 DEF Claimed
  <2>4. CASE pc \notin {"save", "forget", "restore"}
    <3>1. PICK e \in Events : trace' = Append(trace, e) \/ UNCHANGED trace
      <4>1. Event(outcome) \in Events
        BY <2>1, EventType
      <4>2. QED
        BY <1>18, <4>1, KillType
    <3>2. \A r \in Runs : Claimed(r, Len(trace))'
      BY <2>1, <2>4, <3>1, ClaimedStays DEF process
    <3>3. QED
      BY <2>1, <3>2
  <2>5. QED
    BY <2>2, <2>3, <2>4
<1>19. CASE UNCHANGED vars
  BY <1>19 DEF vars, stores, logFile, process, counters, Claimed, Logged
<1>20. QED
  BY <1>2, <1>3, <1>4, <1>5, <1>6, <1>7, <1>8, <1>9, <1>10, <1>11, <1>12, <1>13, <1>14, <1>15, <1>16, <1>17, <1>18, <1>19 DEF Next

-----------------------------------------------------------------------------
\* Whoever is on the way to an error has left nothing behind the trace the command
\* found, but for an event it failed to take back; and what is put back is the
\* snapshot of a run whose event says that it failed.
Shown ==
    /\ pc \in {"failedReport", "failedTrace"} /\ LogLoads /\ failedAt # "takeBack"
          => Len(trace) = began
    /\ pc \in {"lostReport", "lostTrace"} => Len(trace) = began
    /\ pc = "restore" => Len(trace) = began + 1 /\ trace[began + 1].outcome = "failed"
    /\ FailedCommandShowsNoSuccess

(* A log that was damaged stays so.                                        *)
LEMMA DamageStays == ASSUME [Next]_vars, LogLoads' PROVE LogLoads
<1> USE DEF LogLoads, logFile
<1>1. ASSUME NEW c, NEW run, NEW o, NEW ex, StartCommit(c, run, o, ex) PROVE log' = log
  BY <1>1 DEF StartCommit, stores
<1>2. CASE BeginAbort \/ (\E o, ex : BeginRun(o, ex)) \/ (\E o : BeginResume(o))
  BY <1>1, <1>2 DEF BeginRun, BeginResume, BeginAbort
<1>3. CASE WriteCheckpoint \/ WriteReport \/ CheckConditions \/ WriteReportAgain
           \/ WriteRollback \/ WriteReportRollback
  BY <1>3 DEF WriteCheckpoint, WriteReport, CheckConditions, WriteReportAgain,
     WriteRollback, WriteReportRollback, stores
<1>4. CASE AppendEvent \/ AppendFailedEvent
  BY <1>4 DEF AppendEvent, AppendFailedEvent, AppendWhole, AppendCut
<1>5. CASE Remember \/ SaveSnapshot \/ Restore \/ Forget \/ TakeBackEvent
           \/ WriteFailedReport \/ WriteLostReport
  BY <1>5 DEF Remember, SaveSnapshot, Restore, Forget, TakeBackEvent, WriteFailedReport,
     WriteLostReport
<1>6. CASE Kill
  BY <1>6 DEF Kill, AppendCut
<1>7. CASE UNCHANGED vars
  BY <1>7 DEF vars, stores
<1>8. QED
  BY <1>2, <1>3, <1>4, <1>5, <1>6, <1>7 DEF Next

(* Every step keeps it, whatever fails.                                    *)
LEMMA ShownStep == ASSUME CommitInv, Shown, [Next]_vars PROVE Shown'
<1> USE DEF CommitInv, TypeOK, Shown, FailedCommandShowsNoSuccess, LogLoads
<1>1. ASSUME NEW c, NEW run, NEW o, NEW ex, StartCommit(c, run, o, ex) PROVE Shown'
  BY <1>1 DEF StartCommit
<1>2. CASE BeginAbort \/ (\E o, ex : BeginRun(o, ex)) \/ (\E o : BeginResume(o))
  BY <1>1, <1>2 DEF BeginRun, BeginResume, BeginAbort
<1>3. CASE WriteCheckpoint
  BY <1>3 DEF WriteCheckpoint, Advance, ReturnError, process, stores, logFile, Logged
<1>4. CASE WriteReport
  BY <1>4 DEF WriteReport, Advance, FailTo, process, logFile, Logged
<1>5. CASE CheckConditions
  BY <1>5 DEF CheckConditions, Advance
<1>6. CASE WriteReportAgain
  BY <1>6 DEF WriteReportAgain, Advance, FailTo, process, logFile, Logged
<1>7. CASE WriteRollback
  BY <1>7 DEF WriteRollback, Advance, ReturnError, process, logFile, Logged
<1>8. CASE WriteReportRollback
  BY <1>8 DEF WriteReportRollback, Advance, FailTo, process, logFile, Logged
<1>9. CASE AppendEvent
  <2>1. CASE pc' = "memory"
    BY <2>1
  <2>2. CASE pc' # "memory"
    <3>1. /\ pc' = "idle" /\ failedAt' = "trace" /\ AppendCut(Event(outcome))
          /\ Len(trace) = began /\ began' = began
      BY <1>9, <2>2 DEF AppendEvent, Advance, ReturnError, process, Logged
    <3>2. UNCHANGED trace \/ log' \in {"open", "damaged"}
      BY <3>1 DEF AppendCut, logFile
    <3>3. QED
      BY <3>1, <3>2
  <2>3. QED
    BY <2>1, <2>2
<1>10. CASE Remember
  BY <1>10 DEF Remember, Advance, FailTo
<1>11. CASE SaveSnapshot
  <2>1. /\ Len(trace) = began + 1 /\ trace[began + 1] = [run |-> current, outcome |-> outcome]
        /\ UNCHANGED <<trace, log, process>>
    BY <1>11 DEF SaveSnapshot, Committed, FailTo, ReturnError, logFile, Logged, Event
  <2>2. CASE pc' = "forget"
    BY <2>2
  <2>3. CASE pc' # "forget"
    <3>1. Committed
      BY <1>11, <2>3 DEF SaveSnapshot, FailTo
    <3>2. CASE outcome = "failed"
      BY <2>1, <3>1, <3>2 DEF Committed, FailTo, ReturnError, process
    <3>3. CASE outcome # "failed"
      BY <3>1, <3>3 DEF Committed
    <3>4. QED
      BY <3>2, <3>3
  <2>4. QED
    BY <2>2, <2>3
<1>12. CASE Restore
  BY <1>12 DEF Restore, ReturnError, process, logFile
<1>13. CASE Forget
  BY <1>13 DEF Forget, FailTo, ReturnError
<1>14. CASE TakeBackEvent
  <2>1. pc' = "failedReport" /\ UNCHANGED process /\ Len(trace) = began + 1
    BY <1>14 DEF TakeBackEvent, FailTo, Logged
  <2>2. CASE failedAt' = "takeBack"
    BY <2>1, <2>2
  <2>3. CASE failedAt' # "takeBack"
    <3>1. trace' = SubSeq(trace, 1, Len(trace) - 1)
      BY <1>14, <2>3 DEF TakeBackEvent, FailTo
    <3>2. Len(trace') = began
      BY <2>1, <3>1, TakenBack
    <3>3. QED
      BY <2>1, <3>2 DEF process
  <2>4. QED
    BY <2>2, <2>3
<1>15. CASE WriteFailedReport
  BY <1>15 DEF WriteFailedReport, FailTo, ReturnError, process, logFile
<1>16. CASE AppendFailedEvent
  <2>1. /\ Event("failed") \in Events /\ Event("failed").outcome = "failed"
        /\ pc' = "idle" /\ failedAt' = failedAt /\ began' = began
    BY <1>16, EventType DEF AppendFailedEvent, ReturnError, process, Event, Outcomes
  <2>2. trace' = Append(trace, Event("failed")) \/ UNCHANGED trace
    BY <1>16, <2>1, AppendType DEF AppendFailedEvent
  <2>3. CASE trace' = Append(trace, Event("failed"))
    <3>1. trace'[Len(trace')].outcome = "failed"
      BY <2>1, <2>3, Appended
    <3>2. QED
      BY <2>1, <3>1
  <2>4. CASE UNCHANGED trace
    <3>1. LogLoads' /\ failedAt # "takeBack" => Len(trace) = began
      BY <1>16, DamageStays DEF AppendFailedEvent
    <3>2. QED
      BY <2>1, <2>4, <3>1
  <2>5. QED
    BY <2>2, <2>3, <2>4
<1>17. CASE WriteLostReport
  BY <1>17 DEF WriteLostReport, FailTo, process, logFile
<1>18. CASE Kill
  BY <1>18 DEF Kill, Undone
<1>19. CASE UNCHANGED vars
  BY <1>19 DEF vars, stores, logFile, process
<1>20. QED
  BY <1>2, <1>3, <1>4, <1>5, <1>6, <1>7, <1>8, <1>9, <1>10, <1>11, <1>12, <1>13, <1>14, <1>15, <1>16, <1>17, <1>18, <1>19 DEF Next

(* The evidence is in place in every reachable state.                      *)
LEMMA EvidenceInvariant == Spec => [](Evident /\ Claims)
<1>1. Init => Evident /\ Claims
  BY DEF Init, Evident, Claims, Told, Claimed
<1>2. CommitInv /\ Evident /\ Claims /\ [Next]_vars => (Evident /\ Claims)'
  BY EvidentStep, ClaimsStep
<1>3. QED
  BY <1>1, <1>2, CommitInvariant, PTL DEF Spec

(* docs/WORKFLOW_PACK_CONTRACT.md:120-122, however many writes fail and    *)
(* commands die: the report and the memory of a run that was reported as   *)
(* ended keep telling that outcome, and so do the events that were written *)
(* and not taken back; they load unless the log was damaged.               *)
THEOREM SettledRunsKeepEvidenceHolds == Spec => []SettledRunsKeepEvidence
<1>1. CommitInv /\ Evident => SettledRunsKeepEvidence
  <2> SUFFICES ASSUME CommitInv, Evident, NEW r \in Runs, settled[r] # "none"
               PROVE  /\ report[r] = settled[r] /\ memory[r] = settled[r]
                      /\ \E i \in DOMAIN trace :
                            /\ trace[i] = [run |-> r, outcome |-> settled[r]]
                            /\ \A j \in DOMAIN trace : j > i => trace[j].run # r
    BY DEF SettledRunsKeepEvidence
  <2>1. /\ DOMAIN trace = 1..Len(trace) /\ Len(trace) \in Nat /\ began \in Nat
        /\ began <= Len(trace)
    BY DEF CommitInv, TypeOK, Logged
  <2>2. Told(r, began) \/ Told(r, Len(trace))
    BY DEF Evident
  <2>3. PICK i \in 1..Len(trace) : /\ trace[i] = [run |-> r, outcome |-> settled[r]]
                                  /\ \A j \in (i + 1)..Len(trace) : trace[j].run # r
    BY <2>1, <2>2 DEF Told
  <2>4. \A j \in DOMAIN trace : j > i => trace[j].run # r
    BY <2>1, <2>3
  <2>5. QED
    BY <2>1, <2>2, <2>3, <2>4 DEF Told
<1>2. QED
  BY <1>1, CommitInvariant, EvidenceInvariant, PTL

(* run_commit.rs:252, however many writes fail and commands die: between   *)
(* commands the memory calls a run a success only when the trace does,     *)
(* unless the log was damaged.                                             *)
THEOREM MemoryClaimsNoSuccessHolds == Spec => []MemoryClaimsNoSuccess
<1>1. CommitInv /\ Claims => MemoryClaimsNoSuccess
  <2>1. CommitInv => DOMAIN trace = 1..Len(trace)
    BY DEF CommitInv, TypeOK
  <2>2. QED
    BY <2>1 DEF Claims, Claimed, MemoryClaimsNoSuccess
<1>2. QED
  BY <1>1, CommitInvariant, EvidenceInvariant, PTL

(* docs/RELEASE_EVIDENCE.md:68, for any number of commands, kills and      *)
(* failing writes, those of the undo included: the last event a failed     *)
(* command left in the trace is not a success, but for an append that      *)
(* failed at its newline, an undo that failed, and a damaged log.          *)
THEOREM FailedCommandShowsNoSuccessHolds == Spec => []FailedCommandShowsNoSuccess
<1>1. Init => Shown
  BY DEF Init, Shown, FailedCommandShowsNoSuccess
<1>2. CommitInv /\ Shown /\ [Next]_vars => Shown'
  BY ShownStep
<1>3. Shown => FailedCommandShowsNoSuccess
  BY DEF Shown
<1>4. QED
  BY <1>1, <1>2, <1>3, CommitInvariant, PTL DEF Spec

-----------------------------------------------------------------------------
\* Which run the command in progress is about. A snapshot that is to be put back
\* was one without a waiting run.
About ==
    /\ pc # "idle" => IF command = "run" THEN current = previous.seq + 1
                      ELSE current = previous.pending /\ outcome # "approval_required"
    /\ pc = "restore" => snapshot.pending = 0

LEMMA AboutStep == ASSUME CommitInv, About, [Next]_vars PROVE About'
<1> USE DEF About, ReturnError, FailTo, Advance, process, counters, stores, logFile
<1>1. ASSUME NEW o \in Outcomes, NEW ex \in BOOLEAN, BeginRun(o, ex) PROVE About'
  BY <1>1 DEF BeginRun, StartCommit
<1>2. ASSUME NEW o \in Outcomes \ {"aborted", "approval_required"}, BeginResume(o)
      PROVE  About'
  BY <1>2 DEF BeginResume, StartCommit
<1>3. CASE BeginAbort
  BY <1>3 DEF BeginAbort, StartCommit
<1>4. CASE WriteCheckpoint \/ WriteReport \/ WriteReportAgain \/ WriteReportRollback
           \/ WriteRollback \/ AppendEvent \/ Remember
  BY <1>4 DEF WriteCheckpoint, WriteReport, WriteReportAgain, WriteReportRollback,
     WriteRollback, AppendEvent, Remember
<1>5. CASE CheckConditions
  BY <1>5 DEF CheckConditions
<1>6. CASE SaveSnapshot
  <2>1. pc = "save" /\ pc' \in {"idle", "restore", "forget"}
        /\ UNCHANGED <<command, current, previous, outcome>>
    BY <1>6 DEF SaveSnapshot, Committed
  <2>2. ASSUME pc' = "restore" PROVE snapshot'.pending = 0
    <3>1. outcome = "failed" /\ persist # NoSnapshot /\ snapshot' = persist
      BY <1>6, <2>2 DEF SaveSnapshot, Committed
    <3> QED
      BY <2>1, <3>1 DEF CommitInv, Sound
  <2> QED
    BY <2>1, <2>2
<1>7. CASE Restore \/ Forget \/ TakeBackEvent \/ WriteFailedReport \/ AppendFailedEvent
           \/ WriteLostReport \/ Kill
  BY <1>7 DEF Restore, Forget, TakeBackEvent, WriteFailedReport, AppendFailedEvent,
     WriteLostReport, Kill
<1>8. CASE UNCHANGED vars
  BY <1>8 DEF vars
<1> QED
  BY <1>1, <1>2, <1>3, <1>4, <1>5, <1>6, <1>7, <1>8 DEF Next

(* run_commit.rs:192 before :243, however many writes fail and commands    *)
(* die: a waiting run leaves the snapshot only behind an event that says   *)
(* why, its own end or the run with a later number that takes its place,   *)
(* unless the log was damaged.                                             *)
THEOREM WaitingRunLeavesTracedHolds == Spec => WaitingRunLeavesTraced
<1> DEFINE Why == LET last == trace[Len(trace)]
                  IN  \/ last.run = snapshot.pending /\ last.outcome # "approval_required"
                      \/ last.run > snapshot.seq
           Leaves == snapshot.pending # 0 /\ snapshot'.pending # snapshot.pending
<1>1. Init => About
  BY DEF Init, About
<1>2. ASSUME CommitInv, About, Next, Leaves PROVE trace # <<>> /\ Why
  <2>1. SaveSnapshot \/ Restore
    BY <1>2 DEF Next, BeginRun, BeginResume, BeginAbort, StartCommit, WriteCheckpoint,
       WriteReport, CheckConditions, WriteReportAgain, WriteReportRollback, WriteRollback,
       AppendEvent, Remember, Forget, TakeBackEvent, WriteFailedReport, AppendFailedEvent,
       WriteLostReport, Kill, stores, logFile
  <2>2. pc = "save" /\ persist # NoSnapshot
    BY <1>2, <2>1 DEF SaveSnapshot, Restore, About
  <2>3. /\ Len(trace) = began + 1 /\ trace[Len(trace)] = Event(outcome)
        /\ snapshot = previous
    BY <1>2, <2>2 DEF CommitInv, Logged, Undone
  <2>4. trace # <<>>
    <3>1. Len(trace) # 0
      BY <1>2, <2>3 DEF CommitInv, TypeOK
    <3> QED
      BY <3>1
  <2>5. Why
    <3>1. trace[Len(trace)].run = current /\ trace[Len(trace)].outcome = outcome
      BY <2>3 DEF Event
    <3>2. snapshot.seq \in Nat
      BY <1>2 DEF CommitInv, TypeOK, Snapshots
    <3> QED
      BY <1>2, <2>2, <2>3, <3>1, <3>2 DEF About
  <2> QED
    BY <2>4, <2>5
<1>3. CommitInv /\ About /\ [Next]_vars
      => [Leaves => trace # <<>> /\ Why]_vars
  BY <1>2
<1>4. Spec => [](CommitInv /\ About)
  BY <1>1, CommitInvariant, AboutStep, PTL DEF Spec
<1> QED
  BY <1>3, <1>4, PTL DEF Spec, WaitingRunLeavesTraced
=============================================================================
