# AxiomRunner, specified

TLA+ models of the AxiomRunner CLI (`src/crates/`), checked with TLC and proved about with
TLAPS. AxiomRunner takes a goal file, runs the verifier commands the goal asks for, repairs
and retries within a budget, and leaves a record of the run in several files of the workspace.
The models are about that record: which runs it may call a success, what survives a failing
write or a kill, and what several commands started at once do to each other. They go on to the
adapters it is built from: the verifier command, the recall memory, the file tool, the provider.

Contents: [Inventory](#inventory) · [Modules](#modules) · [Runs](#runs) · [Fairness](#fairness)
· [Proofs](#proofs) · [Divergences](#divergences) · [Not modelled](#not-modelled) · [Plan](#plan)

## Inventory

One process is one command. `run`, `resume` and `abort` change the workspace, `status`,
`replay`, `doctor` and `health` only read it. There is no server: everything two commands know
of each other goes through files.

| Component | Source (under `crates/`) | State it keeps | Operations | What makes it correct |
|---|---|---|---|---|
| Workspace lock | `apps/src/workspace_lock.rs` | `.axiomrunner/runtime.lock`, with the pid of the holder | `acquire`, stale recovery, `Drop` | one writer at a time; a lock left by a kill does not lock the workspace for ever |
| State snapshot | `apps/src/storage/state.rs` | `state.snapshot`, `state.tmp`: counters and the pending run | `save_snapshot`, `load_snapshot` | a load finds the last acknowledged save, not a torn or an older one |
| Trace log | `apps/src/storage/trace.rs` | `events.jsonl` | `append_intent_event`, `remove_last_event_for_intent`, `load_events` | no acknowledged event is lost; a torn line does not make the log unreadable |
| Run lifecycle | `apps/src/cli_runtime/lifecycle.rs`, `runtime_compose.rs` | the record of one run, in memory | pre-execution guard, `apply_template`, `verify_run`, `run_repair_loop`, `finalize_run`, elapsed budget, done conditions | success is earned, nothing runs unapproved, repairs are bounded, the run ends |
| Planner | `apps/src/runtime_compose/plan.rs` | none | `build_goal_runtime_run_plan` | the plan fits its limit and the step budget is compared with the true number of steps |
| Run commit, sessions | `apps/src/run_commit.rs`, `cli_runtime/run_session.rs`, `runtime_compose/artifacts.rs` | reports, checkpoint, rollback file, and the three stores above | `commit_prepared_run`, `execute_intent`, `execute_resume`, `execute_abort` | the four stores agree about a run after any failing write and any kill |
| CLI runtime | `apps/src/cli_runtime.rs` | the loaded snapshot | `new`, `execute_command`, `alloc_seq_id`, `pending_*_for_target` | a number names one run; a waiting run ends once, from its own workspace |
| Command tool | `adapters/src/tool.rs` | a child process, two worker threads | `run_command` and its policy | a command ends; a timeout leaves nothing behind; its output is evidence |
| File tool | `adapters/src/tool.rs`, `tool_write.rs`, undo in `apps/src/run_commit.rs` | files, restore and patch artifacts | `file_write`, `replace_in_file`, `remove_path`, the undo of a failed commit | an undo gives back what was there |
| Memory adapters | `adapters/src/memory*.rs` | records and a term index, in a Markdown file or in SQLite tables | open, `store`, `delete`, `recall` | a recall finds exactly what is stored; an acknowledged change survives; changes are serial |
| Goal file, pack contract | `apps/src/goal_file.rs`, `core/src/intent.rs`, `core/src/workflow_pack.rs` | none | loading, validation, constraint policy | only valid goals run; what was validated is not denied later; constraints are enforced |
| Provider, async host | `adapters/src/provider_codex_runtime.rs`, `apps/src/async_runtime_host.rs` | one cached codex session, two mutexes, permits | `complete`, `health`, `shutdown`; permit and timeout of the host | one prompt at a time on a session; no codex process is forgotten; every call returns |
| Configuration, command line | `apps/src/config_loader.rs`, `cli_args.rs`, `cli_command.rs` | none | parsing, precedence | the documented precedence |
| Status, doctor, replay | `apps/src/status.rs`, `doctor.rs`, `replay.rs`, `operator_render.rs` | none | rendering | they show what the stores say |
| Scripts | `scripts/`, `tools/dev/` | none | release checks | – |

How they interact, in the order of one mutating command:

1. `CliRuntime::new` loads the snapshot, without the lock. `execute_command` takes the lock.
2. `execute_intent` allocates a number, plans, asks the guard, and calls the lifecycle, which
   calls `run_command` for every verifier and again for every repair attempt.
3. The outcome decides the snapshot to save. `commit_prepared_run` writes, in this order, the
   checkpoint, the report (twice when there are done conditions), the rollback file, the trace
   event, the memory summary and the snapshot; a failing step takes back the earlier ones.
4. A run that failed after its commit has the earlier snapshot put back. The lock is dropped.

What is hard in it:

* **Crashes.** A kill can hit between any two of the calls above, in the middle of a trace line,
  between the truncation and the rename of a snapshot, between `create_new` of the lock and its
  pid line.
* **Partial failure.** Undoing a commit writes files too, and these writes fail as well.
* **Interleaving.** Commands race for the lock and for its recovery; the snapshot is read before
  the lock is held; readers take no lock; the verifier's processes run beside the runner; the lock
  is one per workspace where the snapshot and the memory may be one per home directory.
* **Timeouts and retries.** A command killed at its timeout is run again by the repair loop; the
  host's timeout drops a provider call at whatever await it has reached.
* **Long sequences.** `run` while another run waits, a failed run whose number is given back,
  a goal file or an allowlist that changes between `run` and `resume`.

`PROJECT.json` lists every such hazard at its line, with the properties that watch it.

## Modules

| Module | Models | State | Correspondence |
|---|---|---|---|
| `SingleWriter` | what a single-writer lock promises | `owner`, `writers` | abstract: `Reserve`, `Enter`, `Leave`, `Crash` |
| `WorkspaceLock` | the lock file protocol | the file at the path, who created it, whether its pid line is there; per process: where it is, the pid it read, `allow_stale_recovery`, whether its read or its question to the system failed; whether the platform has stale detection | one action per file-system call of `acquire_inner`, `Drop`; `ProbeFails`; `Crash` at every step |
| `SnapshotRegister` | an atomic register | stored value, the save of each writer | abstract |
| `StateStore` | the two snapshot files | contents of both; per saver where it is, its snapshot and the file its descriptor points to; a lock-free load in progress; the platform, and whether the path is shared by workspaces | one action per call of `save_snapshot` and of `load_snapshot`; `WriteFails`, `Discard`, `Kill` |
| `TraceStore` | the log, line by line | terminated lines and the tail behind the last newline | token-wise `append_event`, the truncating rewrite, `CutRewrite` for what a kill in it leaves |
| `RunLifecycle` | a run from plan to outcome, and the resume that follows | the goal's traits, tool step, evidence, verification, attempts, outcome | one action per phase: guard, execute, verify, repair turn, finalize, budget, done conditions, return |
| `GoalContract` | the meaning of goal file and pack | none; operators | when a file and its pack load, the rules it plans with their strengths, the constraints its commands violate, the allowlist and argument tables of `run_command` |
| `GoalRun` | a `run` and a `resume` of a goal file | the file, the operator's allowlist, the planned commands, and all of `RunLifecycle` | load, validate, then the lifecycle with the commands of the plan, each checked again when it starts; the operator may change the allowlist before a resume |
| `CommandRunner` | one verifier command | its processes with group and streams, pipes, two workers, the polling call | one action per step of `run_command` and of a worker's loop, every error path included; the program is external |
| `RunCommit` | commands one after the other | the four stores, whether what was written to the log loads, the command in progress and its undo path | one action per step of `commit_prepared_run` and of its failure paths; `Kill`, also in the middle of an append |
| `ConcurrentCli` | several commands at once, in several workspaces | per workspace a lock and a trace; the snapshots, at home or in a workspace; one loaded copy per process | load, acquire, work, save, release |
| `MemoryIndex` | a map from keys to values and a term index over it | none; operators | `upsert_record`, `remove_key`, recall by postings, and `Found`, the recall by definition |
| `MarkdownMemory` | the Markdown memory of several processes | file, `memory.tmp`; per process: records, index, the text about to be written, what its descriptor points to | one action per call of `persist`: truncate, write, rename, remove, rename again; failing calls and kills |
| `SqliteMemory` | the SQLite memory of several connections | two committed tables; per connection the open transaction | one action per statement of `store` and `delete`; SQLite itself is external |
| `ProviderSessions` | codex provider under the async host | clients with their sessions and open turns, the cache, the serialization guard, permits; per caller where it is and what it has in its hands | one action per section between two awaits; `PvTimeout` drops a call at an await, failing codex calls |
| `ToolFiles` | changes of files and their undo | files, restore and patch artifacts by name, the clock in milliseconds | one action per file-system call of a change and per restored path of the undo |

How the modules are put together:

* `GoalRun` extends `RunLifecycle` and `GoalContract`: a step of a goal run is a step of the
  lifecycle (proved: `GoalRunsAreRuns`), with the goal's traits computed from the file.
* `ConcurrentCli` instantiates `SingleWriter` once per workspace (`LockOf(w)`) and implements it;
  `WorkspaceLock` implements `SingleWriter` where no lock is ever judged stale.
* `RunCommit` takes a snapshot save as atomic; `StateStore` implements `SnapshotRegister`
  where `rename` replaces and the path belongs to one workspace. What a failing or killed append
  leaves is in both: in `RunCommit` the log is sound, open or damaged, and a damaged log is excepted;
  `TraceStore` says, line by line, what loads from it.
* `ConcurrentCli` takes a snapshot save as atomic also where workspaces share the path; that two
  such saves spoil each other's `state.tmp` is `StateStore`'s.
* `RunCommit` takes any outcome a run may have; `RunLifecycle` says which it may have.
* `RunLifecycle` takes a command as something that ends with an exit code, a timeout or a denial;
  `CommandRunner` says when it ends and `GoalContract` when it is denied.
* The four adapters' modules share no state. `MCAdapters` checks them side by side: one of them
  moves in a behaviour and the others stay where they start.

Abstractions worth knowing: a pid is a process (`WorkspaceLock` lets a pid be reused once its
process is gone); a snapshot is its number and its pending run; run and intent numbers, which
move together, are one number; a verifier's output is its strength (`strong`, `weak`,
`unresolved`, `pack_required`); an outcome `budget_exhausted` of the elapsed minutes is a choice;
the reports of a run are what `report.md`, the last of them, says; a command is a program and its
arguments, and what the code looks for in the text of an argument (a leading dash, a refused
character, `..`, the segments of a path) is a constant; JSON syntax and blank texts of a goal file
are one flag; a memory text that was cut in the middle reads as some of its records, the last one
perhaps with a cut value, or as an error; of a provider's answer only success and failure matter.

Each `MC*` module is the instance TLC checks; the operators that begin with "Mutant of" are
wrong variants of one definition, and each checked property is violated by at least one of them.

## Runs

| Run | Bounds | What it shows |
|---|---|---|
| `lock_protocol` | 3 processes, with stale detection and without, kills at every step, pid reuse | without it: `FailClosedExclusion`, `HolderIsVisible` and the refinement of `SingleWriter`; with it and commands that do not overlap, `RefusedOnlyWhenUndecidable`: a command whose own read and question to the system worked is refused only by a lock without a pid, or with a pid in use again; on both `AcquireEnds` |
| `state_snapshots` | numbers 0..1, one pending run. One saver at a time: `rename` replaces, every I/O error, 2 kills, with and without a first snapshot; it refuses, 1 kill. Two savers of one shared path: 1 kill, with every I/O error where `rename` replaces | `LoadsWhatWasSaved` (until two saves overlap) and, for a path of one workspace, the refinement of the register where `rename` replaces; `NextCommandLoads`: one kill anywhere is recovered on every platform |
| `trace_rewrite` | 4 appends of 2 intents, I/O errors, 1 kill, failing commits | taking an event back loses no other, except during and after a cut rewrite |
| `run_outcomes` | goal files with one to five checks (commands, prose, a refused path, an open quote), six packs, nine files that must be refused, queues of 2 to 7, `max_steps` 0 to 10, two allowlists, `run` and `resume` | `SuccessIsEarned`, `SuccessRanEveryVerifier`, `NothingRunsUnapproved`, `NothingIsDeniedMidRun`, `RanWithinPolicy`, `RepairsWithinStepBudget`, `CommandsEnd` |
| `command_ends` | 2 processes, pipe and buffer of 2, limit 2, 3 bytes per stream, all three results of the kill, every failing call | `TimeoutLeavesNobody`, `OutputIsComplete`, `OnlySurvivorsBlock`, `CommandEnds` |
| `commit_faults_kills` | 3 run numbers, 4 commands, 2 failing writes, 1 kill | what the stores say of a run agrees, see below |
| `adapters` | 2 processes, 2 keys, 2 values, 4 operations per memory, 1 fault, 1 kill; 2 provider callers, 2 targets, 3 calls, 1 fault, 1 or 2 permits, with a timeout and without; 2 files of one name, 3 changes in 2 milliseconds, 1 fault | `MdRecallFindsWhatIsStored`, `MdAckedChangesSurvive`, `SqRecallFindsWhatIsStored`, `NoCodexIsForgotten`, `AsksAloneInItsTarget`, `NoCallIsStuck`, `CallsReturn`, `UndoRestoresFiles` |
| `concurrent_serial` | 4 processes, 2 workspaces, both symmetric; a snapshot for all or one each | `CommitsAreSerial`, `SecondTimeNeedsStaleLoad`, `EndsWhereItStarted`, and the refinement `EveryWorkspaceHasItsLock` |
| `lock_stale_race` | 3 processes, stale detection | **violated**: `MutualExclusion` |
| `scope_after_approval` | one goal that reads outside its `path_scope` | **violated**: `ConstraintsAreEnforced` |
| `trace_torn_tail` | 2 appends, 1 kill | **violated**: `AckedEventsLoad` |
| `concurrent_aborted` | 3 processes, one workspace | **violated**: `AbortedRunIsNotResumed` |

Why these bounds are enough to see what can happen:

* *Lock.* Two processes race for one file; the third is the dead one whose lock is recovered,
  or the one that takes the lock between the other two. More processes are covered by the proofs.
* *Snapshot.* The interesting failure is a second cut save after a first; two kills allow it. Two
  savers overlap at every pair of steps; more of them are covered by the proofs.
* *Trace.* Four events let a replaced event stand between two others of either intent.
* *Goals.* The plan has its corners at a queue of six and of seven (the step that stands for the
  rest appears) and below; the step budgets are below, at, and above the planned steps, up to
  three repair turns. The packs leave a rule out, name a profile twice, ask for an unresolved
  rule, a shell, a tool that is missing. The second allowlist lacks two programs the first has, so
  a plan valid at `run` can be refused at `resume` and the other way round.
* *Command.* A limit inside, at and beyond a chunk needs two reads; one descendant is enough
  to survive, to leave the group and to hold a stream. The proof covers any number.
* *Commit.* Four commands over three numbers reach: wait, drop or resume or abort it, fail, reuse
  the number. One fault leads to the undo, the second is the undo's own, or falls on a log the
  first has left open. The proofs cover any number of commands, faults and kills.
* *Memory.* Store, overwrite, delete and reopen is the longest history a record can have that
  differs from a shorter one; the values share a term and differ in one, so a posting can be
  left behind or be missing; one key shares no term with the values.
* *Provider.* Two callers with two targets reuse, replace and race for the cached session; the
  third call finds what a dropped one left.
* *Files.* Three changes of two files with one name in two milliseconds: names that are shared,
  a path changed twice, and a change between them that must not be disturbed.
* *Workspaces.* A third workspace adds nothing: a process sees its own, and the one that shares
  its snapshot.

The properties of `commit_faults_kills`, in words: a run reported as ended never waits again and
its number is not reused (`SettledRunsStaySettled`); its trace, report and memory keep telling
its outcome (`SettledRunsKeepEvidence`); a waiting run was traced as waiting (`PendingWasTraced`);
a command that returned an error does not leave a success as its last event
(`FailedCommandShowsNoSuccess`), nor its snapshot (`FailedCommandLeavesSnapshot`); memory calls
nothing a success that the trace does not (`MemoryClaimsNoSuccess`); a waiting run leaves the
snapshot only behind an event of its own end or of the later run that takes its place
(`WaitingRunLeavesTraced`).

Some properties except a case by name, because the code does go wrong there (see
[Divergences](#divergences)): `MdAckedChangesSurvive` speaks of one process at a time and of a
`rename` that replaces; `UndoRestoresFiles` of paths that were not changed twice, whose artifact
names are their own, and that no failing step left without an artifact; `EndsWhereItStarted` of
processes with a state path of their own workspace; `SecondTimeNeedsStaleLoad` names the outdated
snapshot as the one cause of a number given out twice. `LoadsWhatWasSaved` and `NextCommandLoads`
speak of the time from an acknowledged save that ran alone to the next overlap of two saves, so not
of the time before the first, and `ImplementsRegister` of a path of one workspace;
`RefusedOnlyWhenUndecidable` of commands whose read of the lock and question to the system worked.
The properties of `RunCommit` that look at the trace except a damaged log, and
`FailedCommandShowsNoSuccess` also an append that failed at its newline and an undo that failed.

Deadlock is checked for the lock and the snapshot, whose processes go on for ever. The other runs
end when the command returned or the bounded operations are used up.

## Fairness

* `WorkspaceLock`: weak fairness of every live process' next step. The system schedules it; no
  step of `acquire_inner` blocks. Nothing is assumed of new processes or of kills.
* `GoalRun`: weak fairness of the command's own next step. The command is one thread; it waits only
  for verifier commands, so the assumption is that these end. The operator, who may resume a
  waiting run or never do it, is not assumed to act.
* `CommandRunner` says when verifier commands end: weak fairness of the calling thread, of the clock
  and of both workers, and none of the program, which may write, sleep or sit there for ever.
  `CommandEnds` then says: the call returns, or from some moment on it waits for a *survivor*. There
  are exactly two kinds. A process that outlives the leader, or that left the group before the kill,
  and holds stdout or stderr keeps the worker from seeing the end, and the workers are joined without
  a timeout (`tool.rs:653`). And where `kill` cannot be started the leader itself is not killed, and
  `child.wait()` waits for it (`tool.rs:641`, `:1080`). Neither a full pipe nor the group after a
  timeout can keep it. `CommandsEnd` of `GoalRun` holds for goals without survivors.
* `ProviderSessions`: weak fairness of each caller's next step: tokio polls a task that can go on,
  and codex calls answer or fail. A permit and a mutex are handed on because the steps of the
  others end; no order among the waiting is assumed. New calls and timeouts are not assumed.

## Proofs

All theorems are about safety (the temporal part of a specification only says less with fairness
left out), for every value of the constants allowed by the named assumptions; TLC evaluates the
assumptions on each instance.

| Module | Theorems | Inductive invariant and why it is needed |
|---|---|---|
| `WorkspaceLockProofs` | `LockTypeOK`; where there is no stale detection: `FailClosedMutualExclusion`, `FailClosedHolderIsVisible`, `FailClosedRefinement`; where there is: `RefusedOnlyWhenUndecidableHolds`; on both `EveryAcquireStepCountsHolds` | `OwnFile`: whoever is between the creation and the release of its lock finds a file it created at the path, and nobody is about to remove a stale one. Mutual exclusion alone does not say whose file it is, so it is not inductive. `OneAtATime`: as long as commands did not overlap, the one that is in progress alone accounts for every other file and pid it can meet, unless it could not read or ask. The last theorem needs the types only |
| `StateStoreProofs` | for any number of savers: `StoreTypeOK`; `OneKillIsRecovered` on every platform; where `rename` replaces: `ReplaceLoadsWhatWasSaved`, `ReplaceImplementsRegister` | `SavingIsKnown` ties the place in the save to the snapshot being saved and to an open descriptor; `AloneOrOverlapped`: a save that is not marked as overlapped is the only one, and `state.tmp` has what it has written so far; `PrimaryIsDurable`: from the first sound save on `state.snapshot` is never missing nor torn, so the fallback, which could read a torn `state.tmp`, is never taken; `FallbackCovers`: where the primary is missing, `state.tmp` is whole until a second kill |
| `TraceStoreProofs` | `TraceTypesHold`, `AckedEventsLoadUntilGluedHolds` | `Healthy`: until something is glued or a rewrite is cut, the numbers of the events rise along the log, that of the tail or of the event being written is higher still, and the one just written is the last line. Only so does taking back the last line with a given number take back that event and no acknowledged one. `TailIsOurs` says what stands behind the last newline, by place |
| `GoalRunProofs` | of the lifecycle: `LifecycleTypeOK`, `SuccessIsEarnedHolds`, `NothingRunsUnapprovedHolds`, `RepairsWithinStepBudgetHolds`; `GoalRunsAreRuns`: every goal run is a run of the lifecycle, so these hold of goal files (`GoalSuccessIsEarned`, `GoalRunsNothingUnapproved`); of goal files: `GoalTypesHold`, `NothingIsDeniedMidRunHolds`, `RanWithinPolicyHolds`, `SuccessRanEveryVerifierHolds`, `EveryStepCountsHolds` | `Approved` (who is past the guard was allowed to), `Budgeted` (attempts against what is left of the steps), `Earned` (what a passed verification says of tool and evidence, phase by phase). `PlanIsValidated`: from the validation to the return of the command, every command of the plan passes the check `run_command` makes, under the allowlist of this command. `PlanIsRun`: the plan is that of file and pack, what ran is a prefix of it, and all of it when nothing stopped the pass. `PolicyIsRead`: the allowlist and the approval under which it ran are those of this command. A plan is a permutation of the rules of the pack, so that a rule runs as often as the pack has it (`PermutationKeepsCounts`) |
| `CommandRunnerProofs` | `RunnerTypeOK`, `TimeoutLeavesNobodyHolds`, `OutputIsCompleteHolds`, `OnlySurvivorsBlockHolds` | `GroupDead`: from the kill to the result no running process is in the group, since new processes inherit it; `Counted`: what a worker took is what was written and is not in the pipe; `EndSeen`: a stream that ended has no writer and gets none; `LeaderKnown`: the leader is in its group until it ends, and has ended when the outputs are waited for |
| `RunCommitProofs` | `CommitTypeOK`, `SettledRunsStaySettledHolds`, `PendingWasTracedHolds`, `FailedCommandLeavesSnapshotHolds`, `SettledRunsKeepEvidenceHolds`, `MemoryClaimsNoSuccessHolds`, `WaitingRunLeavesTracedHolds`, `FailedCommandShowsNoSuccessHolds` | `Sound`: the saved snapshot, the one the command started from and the one it will save all respect what was reported, so a stop anywhere is harmless; `Logged`: a command adds only its own event behind the trace it found; `Undone`: until the commit is complete the snapshot is the one it found; `About`: which run the command is about; `Evident`: the trace of a settled run ends with its outcome, and what is in progress is about another run; `Claims`: what memory tells is what the trace tells, step by step through commit and undo; `Shown`: on the way to an error nothing is left behind the trace the command found, but for an event the undo failed to take back; a log that was damaged stays so (`DamageStays`) |
| `ConcurrentCliProofs` | `CommitsAreSerialHolds`, `SecondTimeNeedsStaleLoadHolds`, `EndsWhereItStartedHolds`, `EveryWorkspaceHasItsLockHolds` | `Holds` and `Alone`: who holds the lock of a workspace, by place in the command; `Current`: as long as nothing was stale, a snapshot (or, between an event and its save, the copy about to be saved) covers every event it is for; `WaitsHere`: a run that waits in a workspace's own snapshot was started there |
| `AdaptersProofs`, provider | `NoCodexIsForgottenHolds`, `AsksAloneInItsTargetHolds`, `NoCallIsStuckHolds` | `Hands`, `Serialized`: what a call has in its hands by place, and that between taking the session out of the cache and putting its own there it finds the cache empty; `Kept`, `Asking`: a client is in one place. `GuardIsHeld`: the guard is with a request that is beyond it; `StartedOnce`, `Answerable`: who waits for an answer has an open turn or a session that is gone; `Counted`: there is a client left for every call that may still connect one |
| `AdaptersProofs`, SQLite | `SqRecallFindsWhatIsStoredHolds` | `Alone`: one connection is in a transaction; `Viewed`: its view is the committed tables and the statements so far, with the terms still to insert; `Agree`: the committed tables agree with each other |
| `AdaptersProofs`, Markdown | `MdTypesHold`, `MdRecallFindsWhatIsStoredHolds`, `MdAckedChangesSurviveHolds` | index and records agree, also in the copies a change prepares; `MdSafe`: while one process at a time has the memory open and `rename` replaces, a text that is to be renamed is whole and the file has what its process has, so that the next open finds what was acknowledged or what is about to be |
| `AdaptersProofs`, files | `FlTypesHold`, `UndoRestoresFilesHolds`, and `AdaptersTypesHold` for all four side by side | `FlKnown`: a path without a change is as it was; every change has its restore artifact, the contents of before the run in it, unless path or name is marked as used twice; the changes already undone are as they were |

`EveryStepCountsHolds`, `EveryAcquireStepCountsHolds`, `NoCallIsStuckHolds` and
`OnlySurvivorsBlockHolds` are the part of the liveness properties that can be proved: a number no
step can bring below zero falls with every step of a run and of an acquire, and whoever has not
returned can go on, or waits for one who can. That a step which can be taken is taken is fairness.

Assumed of the constants, each by name: bounds are natural numbers; the values that stand for
"nothing" or "malformed" are none of the others; the limit, pipe and buffer of a command and the
permits of the host have their types, and the last three are not zero; `FilesAssumption`: the
checks of a goal file, the rules of a pack and its flow are lists.

Only model-checked: the liveness properties themselves (`AcquireEnds`, `CommandsEnd`,
`CommandEnds`, `CallsReturn`), which the prover cannot treat under fairness. Every invariant, action
property and refinement that a passing run checks is proved.

## Divergences

Four runs end in a counterexample, where the code does not do what its documentation says.

* `lock_stale_race` – two commands judge the same stale lock; one recovers it and takes the lock,
  the other then removes that fresh lock by path (`workspace_lock.rs:40`) and takes it as well.
  `docs/RUNBOOK.md:128` promises a single writer.
* `scope_after_approval` – a goal that violates an enforced constraint and needs approval waits
  for it, and its `resume` does not ask for the constraints again (`run_session.rs:161`).
  `docs/CAPABILITY_MATRIX.md:40`: `path_scope` is enforced and fails closed.
* `trace_torn_tail` – after one kill in an append, the next append glues its event to the torn line
  (`trace.rs:373`); the terminated malformed line makes every later load an error.
  `docs/RUNBOOK.md:140` says a partial line is ignored.
* `concurrent_aborted` – a `resume` that loaded the snapshot before an `abort` released the lock
  executes the aborted run (`cli_runtime.rs:197`). `docs/RUNBOOK.md:67`: abort closes the run.

Seen while modelling. The models have each of these behaviours; no run is spent on them, and the
properties above except them by name where they would be in the way:

| Where | The code | The documentation |
|---|---|---|
| `run_session.rs:122` | a verifier that failed in every attempt ends in `budget_exhausted`, which returns `Ok`: exit 0 | `README.md:179`, `docs/RELEASE_EVIDENCE.md:69`: tool failures are promoted to process failure |
| `plan.rs:111` | the last step is left out of the room a compaction needs: a queue of six gives nine steps | `plan.rs:146`: compacted to stay within eight |
| `lifecycle.rs:89` | once a repair succeeded with weak evidence the remaining turns run nothing and end in `budget_exhausted` | `docs/WORKFLOW_PACK_CONTRACT.md:114`, `docs/RUNBOOK.md:87`: weak evidence is `blocked` |
| `lifecycle.rs:490` | the step journal is built before the elapsed budget and the done conditions change the outcome | `plans/IMPLEMENTATION-PLAN.md:15` |
| `run_session.rs:157` | `resume` has no pre-execution guard: an over-budget goal runs its verifiers first | `docs/WORKFLOW_PACK_CONTRACT.md:80` |
| `trace.rs:438` | a failed commit rewrites the whole log, empty in between for a reader and after a kill | `docs/RUNBOOK.md:139`: append-only |
| `run_commit.rs:253`, `:441` | when the undo of the memory fails too, or taking the event back and the append of the failed event do, the success event of a failed commit stays | `docs/RELEASE_EVIDENCE.md:68` |
| `trace.rs:380` | an append that fails at its newline has written the whole line, which loads as an event; the commit returns an error and does not take it back: its success stays | `docs/RELEASE_EVIDENCE.md:68` |
| `run_commit.rs:64`, `:142` | failing checkpoint and rollback files leave no event | `plans/TASKS.md:26` |
| `run_commit.rs:206` | a failed resume or abort removes the reports of the run that stays pending | `docs/WORKFLOW_PACK_CONTRACT.md:122` |
| `run_session.rs:90` | a new run silently drops the run that waits for approval | `docs/RUNBOOK.md:85` |
| `run_session.rs:133` | a failed run gives its number back, the next one overwrites its report | `docs/WORKFLOW_PACK_CONTRACT.md:122` |
| `cli_runtime.rs:81` | two commands that loaded before either had the lock start the same number; the stale save then lowers the counter, so later commands repeat numbers too | `docs/RUNBOOK.md:130` |
| `run_commit.rs:295` | the undo goes forward through the changes, so a file changed twice ends with what the first change wrote | `plans/TASKS.md:18`: the original contents are restored |
| `tool_write.rs:127-139` | the removal of a directory asks for its digest first and is always an error | `plans/TASKS.md:19`: of a file or a directory, with a restore artifact |
| `tool.rs:653` | a process that outlives the command and holds its output delays the call past its timeout | `docs/CAPABILITY_MATRIX.md:113`: a timeout applies |

Also observed, without a line of documentation against it:

* The done condition `path_changed` looks at patch artifacts, which no goal run produces
  (`runtime_compose.rs:843-870` runs commands only), so it cannot be met and the clean-up of
  changed files never has work. `alloc_seq_id` saturates.
* The default state path is one file in the home directory for all workspaces (`state.rs:64`), while the
  lock is in the workspace: a `resume` or `abort` with that path can end a run that waits in another
  workspace. The examples of the documentation pass a path.
* With that shared path two saves use the same `state.tmp` (`state.rs:111-119`). When one truncates it
  between the other's write and rename, an empty file is renamed and that save is acknowledged. Until
  the first one writes, and for good when it is killed or fails before, every command of every
  workspace fails to load; when it does write, its text is in the renamed file although its own
  rename then fails. Two texts of different lengths written over each other can stay unreadable too.
* A first save that is killed in its write leaves a torn `state.tmp` and no `state.snapshot`; every
  later load reads it and fails (`state.rs:80-92`).
* A lock whose holder is dead refuses a command whose `fs::read_to_string` of it fails, or for which
  `kill` or `tasklist` cannot be asked (`workspace_lock.rs:34`, `:123`, `:133-138`).
* Every process that changes the Markdown memory truncates the same `memory.tmp` and writes back the
  records it loaded when it opened (`memory_markdown.rs:128`, `:150`); the memory of the home
  directory is shared by all workspaces. Two processes lose each other's records.
* Where `rename` refuses an existing file, the memory file is removed first (`:155`); a kill before
  the second rename leaves an empty memory.
* A patch artifact that cannot be written makes an error of a change that stays made
  (`tool.rs:415`), and artifact names are shared within a millisecond (`tool_write.rs:242`).
* A waiting run whose goal file or allowlist has changed so that it is refused can be neither
  resumed nor aborted (`run_session.rs:152`) until that is undone.
* The fields `required` of a pack's rule and `approval_mode` of a pack are read and, the
  latter, checked to be well-formed, but not used. A constraint that denies destructive or external commands never finds one: the
  programs it names are refused when the pack is loaded, and a check's own text is not taken as
  a command then.

## Not modelled

* Rendering, status, doctor, replay, configuration and the command line: functions from text to
  text, or from the stores to text, without a state of their own. What they read is modelled by the
  loads of the stores.
* `provider_openai.rs` (one HTTP call), the registries, `provider` steps in a goal run: a goal run
  has none (`plan.rs:189-208`). The CLI calls the provider from one thread; the interleavings of
  `ProviderSessions` are those its interface allows.
* The tool's read-only requests, the search in particular: they change nothing.
* The tool's file operations inside a goal run: a goal run calls `run_command` only, so `ToolFiles`
  stands beside the lifecycle and not under it. `RunCommit` has the undo as one step.
* The worktree isolation of a workspace, which is external `git`: `RunCommit` takes it as the constant
  `Isolated`.
* Ranking of recalled records and the tiers in their keys, which order what a recall returns.
* A piece of a trace line that was cut within a character, which is not text and fails the load.
* Directory and disk failures beyond "this call failed", power loss (nothing is synced), and
  changes made to the files by hand.
* Scripts and release tooling.

## Plan

Done, in this order: the lock with its abstract specification; the snapshot with its register; the
trace; the lifecycle; the commit; several commands; the verifier command; goal files, packs and the
command policy; several workspaces; both memories; the provider; the file tool; the theorems above,
which now cover every safety property of the passing runs.

Next, the most telling first:

1. **Composition.** The lifecycle inside the commit, so that the outcome a commit stores is the one
   the run earned; the memories under the memory step of `RunCommit`; `CommandRunner` as the tool
   step of two consecutive attempts.
2. **Readers.** Status and replay beside a command that writes: what a view may mix from the
   snapshot of one moment and the trace of another.
