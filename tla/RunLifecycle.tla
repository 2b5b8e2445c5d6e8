----------------------------- MODULE RunLifecycle -----------------------------
(***************************************************************************)
(* A `run` of a goal and the `resume` that approves it, or a `resume` on   *)
(* its own, from the plan to the outcome                                   *)
(* (src/crates/apps/src/cli_runtime/lifecycle.rs, called by                *)
(* run_session.rs): the pre-execution guard, the verifier commands, the    *)
(* bounded repair loop, finalize_run, the elapsed-minutes budget, the done *)
(* conditions and what the command returns.                                *)
(*                                                                         *)
(* A goal is what those steps read of it.  The plan of a goal run has no   *)
(* provider and no memory step (plan.rs:189-208), so the only step that    *)
(* can fail is the tool step: its verifier commands, each of which ends    *)
(* with an exit code or is killed at its timeout.  Each command has a      *)
(* fixed strength; evidence is the set of strengths of the outputs         *)
(* collected so far, goal.strengths that of all the commands.              *)
(***************************************************************************)
EXTENDS Naturals

CONSTANTS MaxGoalPlanSteps,  \* MAX_GOAL_PLAN_STEPS
          Queues,            \* numbers of done conditions plus checks
          StepBudgets,       \* values of budget.max_steps
          Commands           \* the first command: "run", "resume"

ASSUME PlanAssumption ==
    /\ MaxGoalPlanSteps \in Nat
    /\ Queues \subseteq Nat /\ StepBudgets \subseteq Nat
    /\ Commands \subseteq {"run", "resume"}

VARIABLES goal,          \* the goal file, re-read by a resume
          command,       \* the command that runs it
          pc,            \* where the command is
          tool,          \* execution.tool
          evidence,      \* strengths in execution.tool_outputs
          verification,  \* verification.status
          attempts,      \* repair attempts so far
          exhausted,     \* verification.summary is repair_budget_exhausted
          outcome,       \* record.outcome, "none" before finalize_run
          journal,       \* status of the last step in record.step_journal
          snapshot,      \* a snapshot is saved by the commit
          exit,          \* what the command returns
          toolRuns       \* history: how often the verifier commands ran

execution == <<tool, evidence, toolRuns>>
result == <<outcome, journal, snapshot, exit>>
vars == <<goal, command, pc, execution, verification, attempts, exhausted, result>>

WeakStrengths == {"pack_required", "unresolved", "weak"}
Strengths == WeakStrengths \cup {"strong"}
Goals == [queue : Queues, maxSteps : StepBudgets, tokensFit : BOOLEAN,
          always : BOOLEAN, escalates : BOOLEAN, violates : BOOLEAN,
          strengths : SUBSET Strengths, conditionsMet : BOOLEAN]
PCs == {"plan", "execute", "verify", "repair", "finalize", "commit", "done"}
Verifications == {"none", "skipped", "passed", "failed", "pack_required",
                  "verification_unresolved", "verification_weak"}
Outcomes == {"none", "success", "approval_required", "blocked",
             "budget_exhausted", "failed"}

\* build_goal_runtime_run_plan: two leading steps, the queued ones, one that
\* stands for those that were cut off, and the last.
PlannedSteps(queue) ==
    LET reserved == IF queue + 2 > MaxGoalPlanSteps THEN 1 ELSE 0
        taken    == 2 + 1 + reserved
        budget   == IF MaxGoalPlanSteps > taken THEN MaxGoalPlanSteps - taken ELSE 0
    IN  IF queue > budget THEN 2 + budget + 1 + 1 ELSE 2 + queue + 1

planned == PlannedSteps(goal.queue)
RepairBudget == IF goal.maxSteps > planned THEN goal.maxSteps - planned ELSE 0

OverBudget == goal.maxSteps < planned \/ ~goal.tokensFit
NeedsApproval == goal.always \/ goal.escalates
Granted == command = "resume"
\* A resume applies the goal as Accepted without asking for violations again.
Rejected == goal.violates /\ command = "run"

\* verify_goal_run and classify_goal_verifier_strength.
Classify(t, ev) ==
    IF t = "failed" \/ ev = {} THEN "failed"
    ELSE IF "pack_required" \in ev THEN "pack_required"
    ELSE IF "unresolved" \in ev THEN "verification_unresolved"
    ELSE IF "weak" \in ev THEN "verification_weak"
    ELSE "passed"

Init ==
    /\ goal \in Goals
    /\ command \in Commands
    /\ pc = "plan"
    /\ tool = "skipped" /\ evidence = {} /\ toolRuns = 0
    /\ verification = "none" /\ attempts = 0 /\ exhausted = FALSE
    /\ outcome = "none" /\ journal = "none" /\ snapshot = FALSE /\ exit = "none"

\* Mutant of PreExecutionGuard: escalation is left to finalize_run.
GuardOfModeOnly ==
    /\ pc = "plan"
    /\ IF command = "run" /\ (OverBudget \/ goal.always)
         THEN pc' = "finalize" /\ verification' = "skipped"
         ELSE pc' = "execute" /\ UNCHANGED verification
    /\ UNCHANGED <<goal, command, execution, attempts, exhausted, result>>

\* goal_pre_execution_guard, which only a run evaluates: over budget or
\* approval needed, and nothing is executed.
PreExecutionGuard ==
    /\ pc = "plan"
    /\ IF command = "run" /\ (OverBudget \/ NeedsApproval)
         THEN pc' = "finalize" /\ verification' = "skipped"
         ELSE pc' = "execute" /\ UNCHANGED verification
    /\ UNCHANGED <<goal, command, execution, attempts, exhausted, result>>

\* execute_tool: the commands run in order up to the first that fails, and each
\* that was not killed leaves its evidence.
RunTool(ok, ev) ==
    /\ ev \subseteq goal.strengths
    /\ ok => ev = goal.strengths
    /\ toolRuns' = toolRuns + 1

\* apply_template.  A rejected goal has an empty plan, and a pack may have no
\* command.
Execute ==
    /\ pc = "execute"
    /\ pc' = "verify"
    /\ IF Rejected \/ goal.strengths = {}
         THEN UNCHANGED execution
         ELSE \E ok \in BOOLEAN, ev \in SUBSET Strengths :
                /\ RunTool(ok, ev)
                /\ tool' = IF ok THEN "applied" ELSE "failed"
                /\ evidence' = ev
    /\ UNCHANGED <<goal, command, verification, attempts, exhausted, result>>

\* verify_run, and the early returns of run_repair_loop.
Verify ==
    /\ pc = "verify"
    /\ verification' = Classify(tool, evidence)
    /\ LET repairs == tool = "failed"
       IN /\ pc' = IF repairs /\ RepairBudget > 0 THEN "repair" ELSE "finalize"
          /\ exhausted' = (repairs /\ RepairBudget = 0)
    /\ UNCHANGED <<goal, command, execution, attempts, result>>

\* Mutant of Repair: the loop is bounded by max_steps alone.
RepairUpToMaxSteps ==
    /\ pc = "repair"
    /\ attempts' = attempts + 1
    /\ \E ok \in BOOLEAN, ev \in SUBSET Strengths :
         /\ RunTool(ok, ev)
         /\ IF ok THEN tool' = "applied" /\ evidence' = evidence \cup ev
                  ELSE UNCHANGED <<tool, evidence>>
    /\ LET verified == Classify(tool', evidence')
           last     == attempts' = goal.maxSteps
       IN /\ verification' = IF verified # "passed" /\ last THEN "failed" ELSE verified
          /\ exhausted' = (verified # "passed" /\ last)
          /\ pc' = IF verified = "passed" \/ last THEN "finalize" ELSE "repair"
    /\ UNCHANGED <<goal, command, result>>

\* Mutant of Repair: the loop goes on after its last attempt.
RepairWithoutEnd ==
    /\ pc = "repair"
    /\ attempts' = IF attempts = RepairBudget THEN attempts ELSE attempts + 1
    /\ UNCHANGED <<execution, goal, command, pc, verification, exhausted, result>>

\* One turn of run_repair_loop.  repair_template runs the commands again only
\* while the tool step is failed, and with_repair keeps what they did only
\* when they all succeed.
Repair ==
    /\ pc = "repair"
    /\ attempts' = attempts + 1
    /\ IF tool = "failed"
         THEN \E ok \in BOOLEAN, ev \in SUBSET Strengths :
                /\ RunTool(ok, ev)
                /\ IF ok THEN tool' = "applied" /\ evidence' = evidence \cup ev
                         ELSE UNCHANGED <<tool, evidence>>
         ELSE UNCHANGED execution
    /\ LET verified == Classify(tool', evidence')
           last     == attempts' = RepairBudget
       IN /\ verification' = IF verified # "passed" /\ last THEN "failed" ELSE verified
          /\ exhausted' = (verified # "passed" /\ last)
          /\ pc' = IF verified = "passed" \/ last THEN "finalize" ELSE "repair"
    /\ UNCHANGED <<goal, command, result>>

\* finalize_goal_run, branch by branch.
FinalOutcome ==
    IF OverBudget THEN "budget_exhausted"
    ELSE IF NeedsApproval /\ ~Granted THEN "approval_required"
    ELSE IF verification = "passed" THEN "success"
    ELSE IF verification \in {"pack_required", "verification_unresolved",
                              "verification_weak"} THEN "blocked"
    ELSE IF exhausted THEN "budget_exhausted"
    ELSE IF Rejected THEN "blocked"
    ELSE "failed"

\* goal_terminal_step_status of the phase that goes with an outcome.
StepStatus(o) ==
    CASE o = "success" -> "completed"
      [] o = "failed"  -> "failed"
      [] OTHER         -> "blocked"

\* Whether the command returns an error once the run is committed.
ReturnsError(o) ==
    \/ tool = "failed" /\ o # "budget_exhausted"
    \/ o = "failed"

\* finalize_run, then apply_goal_elapsed_budget, which leaves a waiting run
\* alone, then the decision to save a snapshot.
Finalize ==
    /\ pc = "finalize"
    /\ pc' = "commit"
    /\ journal' = StepStatus(FinalOutcome)
    /\ outcome' \in IF FinalOutcome = "approval_required" THEN {FinalOutcome}
                    ELSE {FinalOutcome, "budget_exhausted"}
    /\ snapshot' = ~ReturnsError(outcome')
    /\ UNCHANGED <<goal, command, execution, verification, attempts, exhausted, exit>>

\* Mutant of Commit: an unmet done condition is only reported.
CommitIgnoresConditions ==
    /\ pc = "commit"
    /\ pc' = "done"
    /\ exit' = IF ReturnsError(outcome) THEN "error" ELSE "ok"
    /\ UNCHANGED <<goal, command, execution, verification, attempts, exhausted,
                   outcome, journal, snapshot>>

\* apply_goal_done_conditions inside commit_prepared_run, and the end of
\* execute_intent and execute_resume.
Commit ==
    /\ pc = "commit"
    /\ pc' = "done"
    /\ outcome' = IF outcome = "success" /\ ~goal.conditionsMet THEN "failed" ELSE outcome
    /\ verification' = IF outcome' = outcome THEN verification ELSE "failed"
    /\ exit' = IF ReturnsError(outcome') THEN "error" ELSE "ok"
    /\ UNCHANGED <<goal, command, execution, attempts, exhausted, journal, snapshot>>

\* execute_resume of the run that waits.  It reads the goal file again: a goal
\* that was edited meanwhile is one that starts with a resume.
Resume ==
    /\ pc = "done" /\ outcome = "approval_required" /\ exit = "ok"
    /\ command' = "resume" /\ pc' = "plan"
    /\ tool' = "skipped" /\ evidence' = {} /\ toolRuns' = 0
    /\ verification' = "none" /\ attempts' = 0 /\ exhausted' = FALSE
    /\ outcome' = "none" /\ journal' = "none" /\ snapshot' = FALSE /\ exit' = "none"
    /\ UNCHANGED goal

RunStep ==
    \/ PreExecutionGuard \/ Execute \/ Verify \/ Repair \/ Finalize \/ Commit

Next == RunStep \/ Resume

Spec == Init /\ [][Next]_vars
-----------------------------------------------------------------------------
TypeOK ==
    /\ goal \in Goals /\ command \in {"run", "resume"} /\ pc \in PCs
    /\ tool \in {"skipped", "applied", "failed"} /\ evidence \subseteq Strengths
    /\ toolRuns \in Nat /\ attempts \in Nat
    /\ verification \in Verifications /\ exhausted \in BOOLEAN
    /\ outcome \in Outcomes /\ journal \in {"none", "completed", "failed", "blocked"}
    /\ snapshot \in BOOLEAN /\ exit \in {"none", "ok", "error"}

\* docs/WORKFLOW_PACK_CONTRACT.md:58-63 and docs/CAPABILITY_MATRIX.md:62: a run
\* that ends in success ran its verifiers, none failed in the end, all of them
\* strong, every done condition met, within its budget, approved if it had to
\* be, and not against an enforced constraint.
SuccessIsEarned ==
    outcome = "success" /\ pc = "done" =>
        /\ tool = "applied" /\ evidence = {"strong"} /\ goal.conditionsMet
        /\ planned + attempts <= goal.maxSteps /\ goal.tokensFit
        /\ NeedsApproval => Granted
        /\ ~Rejected
        /\ exit = "ok"

\* docs/WORKFLOW_PACK_CONTRACT.md:42, :80 and :91: no verifier command runs
\* before the approval a goal needs, for a new run that is over its budget, or
\* for a goal rejected by a constraint; and a run that asks for approval has
\* run nothing.
NothingRunsUnapproved ==
    /\ toolRuns > 0 => (NeedsApproval \/ OverBudget => Granted) /\ ~Rejected
    /\ outcome = "approval_required" => toolRuns = 0

\* docs/RUNBOOK.md:92: a run executes its plan and repairs it within max_steps
\* planned steps and repair attempts, whatever the commands do.
RepairsWithinStepBudget ==
    attempts > 0 => planned + attempts <= goal.maxSteps

\* docs/CAPABILITY_MATRIX.md:38-42: the enforced constraints are fail-closed, no
\* verifier command runs for a goal that violates one of them.
ConstraintsAreEnforced == toolRuns > 0 => ~goal.violates
=============================================================================
