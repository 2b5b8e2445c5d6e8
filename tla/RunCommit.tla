------------------------------- MODULE RunCommit -------------------------------
(***************************************************************************)
(* How a run becomes durable: run_session.rs around commit_prepared_run    *)
(* (src/crates/apps/src/run_commit.rs), one command after the other under  *)
(* the workspace lock, with a state path no other workspace uses.  A       *)
(* commit writes four stores in a fixed order (the report files, the       *)
(* trace, the recall memory, the state snapshot); each write can fail,     *)
(* each failure takes back what the earlier steps did, and the process can *)
(* be killed between any two steps.                                        *)
(*                                                                         *)
(* next_intent_seq and next_run_seq move together, so one number names a   *)
(* run, its intent and its files; 0 is no run.  The outcome of a run is    *)
(* what RunLifecycle allows.  A snapshot save happens or does not, which   *)
(* StateStore shows of the files.  An append to the trace that fails or is *)
(* cut leaves nothing, a piece of the line or the line without its         *)
(* newline; what loads from a log that was damaged is TraceStore's.        *)
(* The report files of a run stand for what its last one, report.md, says. *)
(***************************************************************************)
EXTENDS Naturals, Sequences

CONSTANTS MaxRuns,      \* bound on run numbers
          MaxCommands,  \* bound on commands
          MaxFaults,    \* bound on failing writes
          MaxKills,     \* bound on kills
          Isolated,     \* goals run in a git worktree of their own
          NoSnapshot    \* persist_snapshot is None

ASSUME BoundsAssumption ==
    /\ MaxRuns \in Nat /\ MaxCommands \in Nat /\ MaxFaults \in Nat /\ MaxKills \in Nat
    /\ Isolated \in BOOLEAN

VARIABLES snapshot,  \* the saved snapshot: the last number and the pending run
          trace,     \* the events written to the trace log
          log,       \* what became of them: "sound" and "open", they all load, with
                     \* the last line terminated or not (it may be an event or a
                     \* piece of one); "damaged", something was written behind an
                     \* open line, or the rewrite that takes an event back was cut
          report,    \* what the report of a run says
          memory,    \* what last_run/<intent> in the recall memory says
          pc,        \* next step of the command in progress
          command,   \* run, resume or abort
          current,   \* the run it is about
          outcome,   \* record.outcome
          executed,  \* the goal was executed, not stopped by the guard
          previous,  \* runtime_snapshot() at the start of the command
          persist,   \* the snapshot the commit saves, or NoSnapshot
          returned,  \* what the last command returned
          failedAt,  \* the step at which its commit failed, or "none"
          settled,   \* history: outcomes reported by commands that returned Ok
          began,     \* history: length of the trace when the command began
          commands, faults, kills

logFile == <<trace, log>>
stores == <<snapshot, logFile, report, memory>>
process == <<command, current, executed, previous, persist, began>>
counters == <<commands, kills>>
vars == <<stores, pc, process, outcome, returned, failedAt, settled, counters, faults>>

Runs == 1..MaxRuns
Snapshots == [seq : 0..MaxRuns, pending : 0..MaxRuns]
Outcomes == {"success", "approval_required", "blocked", "budget_exhausted",
             "failed", "aborted"}
Texts == Outcomes \cup {"none", "torn"}
Events == [run : Runs, outcome : Outcomes]
CommitSteps == {"checkpoint", "report", "conditions", "reportAgain", "rollback",
                "reportRollback", "trace", "memory", "save"}
PCs == CommitSteps \cup {"idle", "forget", "takeBack", "failedReport",
                         "failedTrace", "lostReport", "lostTrace", "restore"}

ASSUME NoSnapshotAssumption == NoSnapshot \notin Snapshots

Init ==
    /\ snapshot = [seq |-> 0, pending |-> 0]
    /\ trace = <<>> /\ log = "sound"
    /\ report = [r \in Runs |-> "none"] /\ memory = [r \in Runs |-> "none"]
    /\ pc = "idle" /\ command = "run" /\ current = 0 /\ outcome = "failed"
    /\ executed = FALSE /\ previous = snapshot /\ persist = NoSnapshot
    /\ returned = "none" /\ failedAt = "none" /\ settled = [r \in Runs |-> "none"]
    /\ began = 0
    /\ commands = 0 /\ faults = 0 /\ kills = 0

\* Mutants of NextSnapshot: the number is not kept; a resumed run stays pending.
NextSnapshotForgetsNumber(c, run, o) ==
    [seq |-> IF o = "approval_required" THEN run ELSE snapshot.seq,
     pending |-> IF o = "approval_required" THEN run ELSE 0]
NextSnapshotKeepsPending(c, run, o) ==
    [seq |-> IF c = "run" THEN run ELSE snapshot.seq,
     pending |-> IF o = "approval_required" THEN run
                 ELSE IF c = "resume" THEN snapshot.pending ELSE 0]

\* What persist_snapshot holds for a run with outcome o.
NextSnapshot(c, run, o) ==
    [seq |-> IF c = "run" THEN run ELSE snapshot.seq,
     pending |-> IF o = "approval_required" THEN run ELSE 0]

\* A command about the given run comes to commit_prepared_run with outcome o.
\* A failed outcome has no snapshot to save.
StartCommit(c, run, o, ex) ==
    /\ pc = "idle" /\ pc' = "checkpoint"
    /\ commands < MaxCommands /\ commands' = commands + 1
    /\ command' = c /\ current' = run /\ outcome' = o /\ executed' = ex
    /\ previous' = snapshot
    /\ persist' = IF o = "failed" THEN NoSnapshot ELSE NextSnapshot(c, run, o)
    /\ returned' = "none" /\ failedAt' = "none" /\ began' = Len(trace)
    /\ UNCHANGED <<stores, settled, kills, faults>>

\* execute_intent gives out the next number.  A run that has to wait executed
\* nothing, and the guard may have stopped one that is over budget.
BeginRun(o, ex) ==
    /\ snapshot.seq < MaxRuns
    /\ ~ex => o \in {"approval_required", "budget_exhausted"}
    /\ ex => o # "approval_required"
    /\ StartCommit("run", snapshot.seq + 1, o, ex)

\* execute_resume executes the pending run; it never waits again.
BeginResume(o) ==
    /\ snapshot.pending # 0
    /\ StartCommit("resume", snapshot.pending, o, TRUE)

\* execute_abort executes nothing.
BeginAbort ==
    /\ snapshot.pending # 0
    /\ StartCommit("abort", snapshot.pending, "aborted", FALSE)

-----------------------------------------------------------------------------
\* A write that fails.
Fault == faults < MaxFaults /\ faults' = faults + 1

\* The command returns an error; the commit failed at step.
ReturnError(step) ==
    /\ pc' = "idle" /\ returned' = "error" /\ failedAt' = step
    /\ UNCHANGED <<process, outcome, settled, counters>>

\* The commit failed at step, and the command goes on with pc next.
FailTo(step, next) ==
    /\ pc' = next /\ failedAt' = step
    /\ UNCHANGED <<process, outcome, returned, settled, counters>>

Advance(next) ==
    /\ pc' = next
    /\ UNCHANGED <<process, returned, failedAt, settled, counters>>

\* cleanup_commit_artifacts removes the reports this commit has written.
Cleanup == report' = [report EXCEPT ![current] = "none"]

WriteText(text) == report' = [report EXCEPT ![current] = text]

\* The write of a report that fails stops before report.md or in it.
TearReport == \/ UNCHANGED report
              \/ WriteText("torn")

\* write_checkpoint_metadata; its error is returned as it is.
WriteCheckpoint ==
    /\ pc = "checkpoint"
    /\ \/ Advance("report") /\ UNCHANGED <<outcome, faults>>
       \/ executed /\ Isolated /\ Fault /\ ReturnError("checkpoint")
    /\ UNCHANGED stores

\* The first write_report.  Nothing is removed when it fails.
WriteReport ==
    /\ pc = "report"
    /\ \/ /\ WriteText(outcome)
          /\ Advance(IF outcome = "success" THEN "conditions" ELSE "rollback")
          /\ UNCHANGED <<outcome, faults>>
       \/ TearReport /\ Fault /\ FailTo("report", "lostReport")
    /\ UNCHANGED <<snapshot, logFile, memory>>

\* apply_goal_done_conditions may turn a success into a failure.
CheckConditions ==
    /\ pc = "conditions"
    /\ outcome' \in {"success", "failed"}
    /\ Advance("reportAgain")
    /\ UNCHANGED <<stores, faults>>

\* The report with the result of the done conditions.
WriteReportAgain ==
    /\ pc = "reportAgain"
    /\ \/ WriteText(outcome) /\ Advance("rollback") /\ UNCHANGED <<outcome, faults>>
       \/ Cleanup /\ Fault /\ FailTo("report", "lostReport")
    /\ UNCHANGED <<snapshot, logFile, memory>>

\* write_rollback_metadata, for a failed or blocked run in a worktree.
WriteRollback ==
    /\ pc = "rollback"
    /\ LET needed == executed /\ Isolated /\ outcome \in {"failed", "blocked"}
       IN \/ /\ Advance(IF needed THEN "reportRollback" ELSE "trace")
             /\ UNCHANGED <<report, outcome, faults>>
          \/ needed /\ Cleanup /\ Fault /\ ReturnError("rollback")
    /\ UNCHANGED <<snapshot, logFile, memory>>

\* The report that names the rollback.
WriteReportRollback ==
    /\ pc = "reportRollback"
    /\ \/ WriteText(outcome) /\ Advance("trace") /\ UNCHANGED <<outcome, faults>>
       \/ Cleanup /\ Fault /\ FailTo("report", "lostReport")
    /\ UNCHANGED <<snapshot, logFile, memory>>

Event(o) == [run |-> current, outcome |-> o]

\* append_event: the line, then its newline.
AppendWhole(e) ==
    /\ trace' = Append(trace, e)
    /\ log' = IF log = "sound" THEN "sound" ELSE "damaged"

\* What it leaves when it ends before: nothing, a piece, or all but the newline,
\* which load_events takes for the event.
AppendCut(e) ==
    \/ UNCHANGED logFile
    \/ /\ trace' \in {trace, Append(trace, e)}
       /\ log' = IF log = "sound" THEN "open" ELSE "damaged"

\* Mutant of AppendEvent: its error is ignored.
AppendEventIgnoresError ==
    /\ pc = "trace"
    /\ \/ AppendWhole(Event(outcome)) /\ UNCHANGED faults
       \/ Fault /\ AppendCut(Event(outcome))
    /\ Advance("memory")
    /\ UNCHANGED <<snapshot, report, memory, outcome>>

\* append_intent_event.  What a failing one has written is not taken back.
AppendEvent ==
    /\ pc = "trace"
    /\ \/ /\ AppendWhole(Event(outcome))
          /\ Advance("memory")
          /\ UNCHANGED <<report, outcome, faults>>
       \/ Cleanup /\ Fault /\ ReturnError("trace") /\ AppendCut(Event(outcome))
    /\ UNCHANGED <<snapshot, memory>>

\* Mutant of Remember: the event of the failed commit stays.
RememberWithoutTakingBack ==
    /\ pc = "memory"
    /\ \/ /\ memory' = [memory EXCEPT ![current] = outcome]
          /\ Advance("save")
          /\ UNCHANGED <<report, outcome, faults>>
       \/ Cleanup /\ Fault /\ ReturnError("memory") /\ UNCHANGED memory
    /\ UNCHANGED <<snapshot, logFile>>

\* remember_run_summary.
Remember ==
    /\ pc = "memory"
    /\ \/ /\ memory' = [memory EXCEPT ![current] = outcome]
          /\ Advance("save")
          /\ UNCHANGED <<report, outcome, faults>>
       \/ Cleanup /\ Fault /\ FailTo("memory", "takeBack") /\ UNCHANGED memory
    /\ UNCHANGED <<snapshot, logFile>>

\* Mutant of Committed: the saved snapshot of a failed run stays.
CommittedKeepsSnapshot ==
    /\ pc' = "idle"
    /\ returned' = IF outcome = "failed" THEN "error" ELSE "ok"
    /\ settled' = IF outcome \in {"failed", "approval_required"} THEN settled
                  ELSE [settled EXCEPT ![current] = outcome]
    /\ UNCHANGED <<process, outcome, failedAt, counters>>

\* After commit_prepared_run.  A failed run returns an error and puts back the
\* snapshot if the commit saved one.
Committed ==
    IF outcome = "failed"
      THEN IF persist = NoSnapshot THEN ReturnError("none") ELSE FailTo("none", "restore")
      ELSE /\ pc' = "idle" /\ returned' = "ok"
           /\ settled' = IF outcome = "approval_required" THEN settled
                         ELSE [settled EXCEPT ![current] = outcome]
           /\ UNCHANGED <<process, outcome, failedAt, counters>>

\* save_snapshot, when there is one to save.
SaveSnapshot ==
    /\ pc = "save"
    /\ \/ /\ snapshot' = IF persist = NoSnapshot THEN snapshot ELSE persist
          /\ Committed
          /\ UNCHANGED <<report, faults>>
       \/ /\ persist # NoSnapshot
          /\ Cleanup /\ Fault /\ FailTo("save", "forget")
          /\ UNCHANGED snapshot
    /\ UNCHANGED <<logFile, memory>>

\* restore_runtime_after_failed_commit.
Restore ==
    /\ pc = "restore"
    /\ \/ snapshot' = previous /\ ReturnError("none") /\ UNCHANGED faults
       \/ Fault /\ ReturnError("restore") /\ UNCHANGED snapshot
    /\ UNCHANGED <<logFile, report, memory>>

-----------------------------------------------------------------------------
\* Mutant of Forget: the summary of the failed commit stays.
ForgetNothing ==
    /\ pc = "forget"
    /\ FailTo(failedAt, "takeBack") /\ UNCHANGED <<stores, faults>>

\* forget_run_summary; when it fails, the event of the failed commit stays.
Forget ==
    /\ pc = "forget"
    /\ \/ /\ memory' = [memory EXCEPT ![current] = "none"]
          /\ FailTo(failedAt, "takeBack")
          /\ UNCHANGED faults
       \/ Fault /\ ReturnError("forget") /\ UNCHANGED memory
    /\ UNCHANGED <<snapshot, logFile, report>>

\* remove_last_event_for_intent, whose error is ignored.  It rewrites the log,
\* and the rewrite may be cut; in a damaged log the last line may be none it can
\* parse.
TakeBackEvent ==
    /\ pc = "takeBack"
    /\ \/ /\ trace' = SubSeq(trace, 1, Len(trace) - 1)
          /\ FailTo(failedAt, "failedReport") /\ UNCHANGED <<log, faults>>
       \/ /\ Fault /\ FailTo("takeBack", "failedReport")
          /\ log' \in {log, "damaged"} /\ UNCHANGED trace
       \/ /\ log = "damaged"
          /\ FailTo("takeBack", "failedReport") /\ UNCHANGED <<logFile, faults>>
    /\ UNCHANGED <<snapshot, report, memory>>

\* The report of the failed commit.
WriteFailedReport ==
    /\ pc = "failedReport"
    /\ \/ WriteText("failed") /\ FailTo(failedAt, "failedTrace") /\ UNCHANGED faults
       \/ TearReport /\ Fault /\ ReturnError(failedAt)
    /\ UNCHANGED <<snapshot, logFile, memory>>

\* The event of the failed commit.
AppendFailedEvent ==
    /\ pc \in {"failedTrace", "lostTrace"}
    /\ \/ AppendWhole(Event("failed")) /\ UNCHANGED faults
       \/ Fault /\ AppendCut(Event("failed"))
    /\ ReturnError(failedAt)
    /\ UNCHANGED <<snapshot, report, memory>>

\* write_commit_report_failure_trace tries the report once more.
WriteLostReport ==
    /\ pc = "lostReport"
    /\ \/ WriteText("failed") /\ UNCHANGED faults
       \/ TearReport /\ Fault
    /\ FailTo(failedAt, "lostTrace")
    /\ UNCHANGED <<snapshot, logFile, memory>>

\* The process is killed, also in the middle of an append or of the rewrite; the
\* next command starts from what was stored.
Kill ==
    /\ pc # "idle" /\ kills < MaxKills
    /\ pc' = "idle" /\ kills' = kills + 1
    /\ \/ UNCHANGED logFile
       \/ pc = "trace" /\ AppendCut(Event(outcome))
       \/ pc \in {"failedTrace", "lostTrace"} /\ AppendCut(Event("failed"))
       \/ pc = "takeBack" /\ log' = "damaged" /\ UNCHANGED trace
    /\ UNCHANGED <<snapshot, report, memory, process, outcome, returned, failedAt, settled,
                   commands, faults>>

Next ==
    \/ \E o \in Outcomes \ {"aborted"}, ex \in BOOLEAN : BeginRun(o, ex)
    \/ \E o \in Outcomes \ {"aborted", "approval_required"} : BeginResume(o)
    \/ BeginAbort
    \/ WriteCheckpoint \/ WriteReport \/ CheckConditions \/ WriteReportAgain
    \/ WriteRollback \/ WriteReportRollback \/ AppendEvent \/ Remember
    \/ SaveSnapshot \/ Restore \/ Forget \/ TakeBackEvent
    \/ WriteFailedReport \/ AppendFailedEvent \/ WriteLostReport \/ Kill

Spec == Init /\ [][Next]_vars
-----------------------------------------------------------------------------
TypeOK ==
    /\ snapshot \in Snapshots /\ trace \in Seq(Events)
    /\ log \in {"sound", "open", "damaged"}
    /\ report \in [Runs -> Texts] /\ memory \in [Runs -> Texts]
    /\ pc \in PCs /\ command \in {"run", "resume", "abort"}
    /\ current \in 0..MaxRuns
    /\ pc # "idle" => current \in Runs
    /\ outcome \in Outcomes /\ executed \in BOOLEAN
    /\ previous \in Snapshots /\ persist \in Snapshots \cup {NoSnapshot}
    /\ returned \in {"none", "ok", "error"}
    /\ failedAt \in CommitSteps \cup {"none", "forget", "takeBack", "restore"}
    /\ settled \in [Runs -> Outcomes \cup {"none"}] /\ began \in Nat
    /\ commands \in 0..MaxCommands /\ faults \in 0..MaxFaults /\ kills \in 0..MaxKills

\* The events that were written load: nothing was written behind a line without
\* its newline (trace.rs:373-381), no rewrite was cut (trace.rs:438).  What a
\* damaged log still tells is TraceStore's (trace_torn_tail); the properties
\* below that speak of the trace except it.
LogLoads == log # "damaged"

\* docs/RUNBOOK.md:66-67: a run that was reported as ended never becomes
\* pending again and its number is never given to another run, whatever later
\* commands fail or die.
SettledRunsStaySettled ==
    \A r \in Runs : settled[r] # "none" => r # snapshot.pending /\ r <= snapshot.seq

\* docs/WORKFLOW_PACK_CONTRACT.md:120-122: the report and the memory of a run that
\* was reported as ended keep telling that outcome, and so does the trace unless
\* the log was damaged.
SettledRunsKeepEvidence ==
    \A r \in Runs : settled[r] # "none" =>
        /\ report[r] = settled[r] /\ memory[r] = settled[r]
        /\ LogLoads =>
             \E i \in DOMAIN trace :
                /\ trace[i] = [run |-> r, outcome |-> settled[r]]
                /\ \A j \in DOMAIN trace : j > i => trace[j].run # r

\* run_commit.rs:192 before :243: a run that waits for approval in the snapshot
\* is in the trace as such, also after a kill, unless the log was damaged.
PendingWasTraced ==
    snapshot.pending # 0 /\ LogLoads =>
        \E i \in DOMAIN trace :
            trace[i] = [run |-> snapshot.pending, outcome |-> "approval_required"]

\* run_session.rs:90, :205, run_commit.rs:192 before :243: a waiting run leaves
\* the snapshot only behind an event that says why, whatever fails or dies: its own
\* end, or a run with a later number that takes its place.  A damaged log is
\* excepted.
WaitingRunLeavesTraced ==
    [][snapshot.pending # 0 /\ snapshot'.pending # snapshot.pending /\ LogLoads =>
          /\ trace # <<>>
          /\ LET last == trace[Len(trace)]
             IN  \/ last.run = snapshot.pending /\ last.outcome # "approval_required"
                 \/ last.run > snapshot.seq]_vars

\* docs/RELEASE_EVIDENCE.md:68: when a command returned an error, the last event
\* it left in the trace, if any, is not a success, whatever failed on the way.
\* The code has three exceptions, and a damaged log: the append failed at its
\* newline (trace.rs:380), so that the success loads and nothing takes it back;
\* the memory could not be undone and the commit returned without taking the
\* event back (run_commit.rs:253-256); taking it back failed (:441), which is
\* made good only by the failed event behind it.
FailedCommandShowsNoSuccess ==
    returned = "error" /\ pc = "idle" /\ Len(trace) > began /\ LogLoads
      /\ ~(failedAt = "trace" /\ log = "open") /\ failedAt \notin {"forget", "takeBack"}
        => trace[Len(trace)].outcome # "success"

\* run_commit.rs:252: between commands the memory calls a run a success only
\* when there is such an event in the trace, unless the log was damaged.
MemoryClaimsNoSuccess ==
    pc = "idle" /\ LogLoads =>
        \A r \in Runs : memory[r] = "success" =>
            \E i \in DOMAIN trace : trace[i] = [run |-> r, outcome |-> "success"]

\* run_session.rs:265-275: a command that returned an error leaves the snapshot
\* as it found it, unless putting it back failed.
FailedCommandLeavesSnapshot ==
    returned = "error" /\ pc = "idle" /\ failedAt # "restore" => snapshot = previous
=============================================================================
