------------------------------ MODULE GoalRunProofs ------------------------------
(***************************************************************************)
(* Theorems about RunLifecycle, for every goal, every plan limit and every *)
(* set of budgets, and about GoalRun.  A goal run is a run of the          *)
(* lifecycle, so the former hold for every goal file, pack and allowlist;  *)
(* and the commands that were validated are the ones the tool accepts.     *)
(***************************************************************************)
EXTENDS GoalRun, FiniteSetTheorems, SequenceTheorems, TLAPS

-----------------------------------------------------------------------------
(* One command's run. *)

(* The plan and the repair budget are numbers, and a repair that fits its  *)
(* budget fits max_steps together with the plan.                           *)
LEMMA BudgetArithmetic ==
    ASSUME goal \in Goals
    PROVE  /\ planned \in Nat /\ RepairBudget \in Nat /\ goal.maxSteps \in Nat
           /\ RepairBudget > 0 => planned + RepairBudget = goal.maxSteps
<1>1. goal.queue \in Nat /\ goal.maxSteps \in Nat
  BY PlanAssumption DEF Goals
<1>2. planned \in Nat
  BY <1>1, PlanAssumption DEF planned, PlannedSteps
<1>3. QED
  BY <1>1, <1>2 DEF RepairBudget

(* What verify_run says of a tool step, and when it says passed.           *)
LEMMA ClassifyFacts ==
    ASSUME NEW t, NEW ev \in SUBSET Strengths
    PROVE  /\ Classify(t, ev) \in Verifications \ {"none", "skipped"}
           /\ Classify(t, ev) = "passed" => t # "failed" /\ ev = {"strong"}
BY DEF Classify, Verifications, Strengths, WeakStrengths

\* Nothing runs before its approval, and what did not run left no trace.
Approved ==
    /\ pc \in {"execute", "verify", "repair"} => (NeedsApproval \/ OverBudget => Granted)
    /\ toolRuns > 0 => (NeedsApproval \/ OverBudget => Granted) /\ ~Rejected
    /\ toolRuns = 0 => tool = "skipped" /\ evidence = {}
    /\ pc \in {"plan", "execute"} => toolRuns = 0
    /\ tool = "skipped" => evidence = {} /\ pc # "repair"

\* Repairs stay within the budget that is left after the plan.
Budgeted ==
    /\ attempts <= RepairBudget
    /\ pc = "repair" => attempts < RepairBudget /\ toolRuns > 0
    /\ pc \in {"plan", "execute", "verify"} => attempts = 0

\* What passed was verified with strong evidence, and what is a success
\* passed, approved and within its budget.
Earned ==
    /\ verification = "passed" => tool = "applied" /\ evidence = {"strong"}
    /\ pc \in {"plan", "execute", "verify"} => verification # "passed"
    /\ outcome = "none" <=> pc \notin {"commit", "done"}
    /\ outcome = "approval_required" => NeedsApproval /\ ~Granted
    /\ outcome = "success" => /\ verification = "passed" /\ ~OverBudget
                              /\ NeedsApproval => Granted
    /\ outcome = "success" /\ pc = "done" => goal.conditionsMet /\ exit = "ok"

LifecycleInv == TypeOK /\ Approved /\ Budgeted /\ Earned

(* The initial states satisfy the invariant.                               *)
LEMMA LifecycleInit == Init => LifecycleInv
<1> SUFFICES ASSUME Init PROVE LifecycleInv
  OBVIOUS
<1>1. goal \in Goals
  BY DEF Init
<1>2. RepairBudget \in Nat
  BY <1>1, BudgetArithmetic
<1>3. TypeOK
  BY PlanAssumption DEF Init, TypeOK, PCs, Verifications, Outcomes
<1>4. Approved
  BY DEF Init, Approved
<1>5. Budgeted
  BY <1>2 DEF Init, Budgeted
<1>6. Earned
  BY DEF Init, Earned
<1>7. QED
  BY <1>3, <1>4, <1>5, <1>6 DEF LifecycleInv

(* The goal and the command do not change while the command runs.          *)
LEMMA GoalIsFixed ==
    ASSUME [RunStep]_vars PROVE UNCHANGED <<goal, command>>
BY DEF RunStep, vars, PreExecutionGuard, Execute, Verify, Repair, Finalize, Commit

(* What the goal and the command decide does not change either.            *)
LEMMA DecisionsAreFixed ==
    ASSUME UNCHANGED <<goal, command>>
    PROVE  /\ RepairBudget' = RepairBudget /\ planned' = planned
           /\ OverBudget' = OverBudget /\ NeedsApproval' = NeedsApproval
           /\ Granted' = Granted /\ Rejected' = Rejected
BY DEF RepairBudget, planned, OverBudget, NeedsApproval, Granted, Rejected

(* One run of the verifier commands leaves strengths as evidence.          *)
LEMMA RunToolEvidence ==
    ASSUME goal \in Goals, NEW ok \in BOOLEAN, NEW ev, RunTool(ok, ev)
    PROVE  ev \in SUBSET Strengths
BY DEF RunTool, Goals

(* Every step keeps the types.                                             *)
LEMMA TypeStep == ASSUME LifecycleInv, [RunStep]_vars PROVE TypeOK'
<1> USE DEF LifecycleInv, TypeOK
<1>1. CASE PreExecutionGuard
  BY <1>1 DEF PreExecutionGuard, execution, result, PCs, Verifications
<1>2. CASE Execute
  BY <1>2 DEF Execute, RunTool, result, execution, PCs
<1>3. CASE Verify
  BY <1>3, ClassifyFacts DEF Verify, execution, result, PCs
<1>4. CASE Repair
  <2>1. /\ tool' \in {"applied", "failed", "skipped"} /\ evidence' \subseteq Strengths
        /\ toolRuns' \in Nat /\ attempts' \in Nat
    BY <1>4 DEF Repair, RunTool, execution
  <2>2. Classify(tool', evidence') \in Verifications
    BY <2>1, ClassifyFacts
  <2>3. /\ verification' \in Verifications /\ exhausted' \in BOOLEAN
        /\ pc' \in PCs
    BY <1>4, <2>2 DEF Repair, PCs, Verifications
  <2>4. QED
    BY <1>4, <2>1, <2>3 DEF Repair, result
<1>5. CASE Finalize
  <2>1. FinalOutcome \in Outcomes
    BY DEF FinalOutcome, Outcomes
  <2>2. StepStatus(FinalOutcome) \in {"completed", "failed", "blocked"}
    BY DEF StepStatus
  <2>3. outcome' \in Outcomes /\ snapshot' \in BOOLEAN
    BY <1>5, <2>1 DEF Finalize, Outcomes, ReturnsError
  <2>4. QED
    BY <1>5, <2>2, <2>3 DEF Finalize, execution, PCs
<1>6. CASE Commit
  BY <1>6 DEF Commit, execution, PCs, Outcomes, Verifications
<1>7. CASE UNCHANGED vars
  BY <1>7 DEF vars, execution, result
<1>8. QED
  BY <1>1, <1>2, <1>3, <1>4, <1>5, <1>6, <1>7 DEF RunStep

(* Every step keeps the guard in force.                                    *)
LEMMA ApprovedStep == ASSUME LifecycleInv, [RunStep]_vars PROVE Approved'
<1> USE DEF LifecycleInv, Approved
<1>1. /\ NeedsApproval' = NeedsApproval /\ OverBudget' = OverBudget
      /\ Granted' = Granted /\ Rejected' = Rejected
  BY GoalIsFixed, DecisionsAreFixed
<1>2. toolRuns \in Nat
  BY DEF TypeOK
<1>3. CASE PreExecutionGuard
  <2>1. command # "run" => Granted
    BY PlanAssumption DEF TypeOK, Granted
  <2>2. QED
    BY <1>1, <1>3, <2>1 DEF PreExecutionGuard, execution
<1>4. CASE Execute
  BY <1>1, <1>2, <1>4 DEF Execute, RunTool, execution
<1>5. CASE Verify
  BY <1>1, <1>5 DEF Verify, execution
<1>6. CASE Repair
  <2>1. toolRuns > 0
    BY <1>6 DEF Repair, Budgeted
  <2>2. toolRuns' > 0
    BY <1>2, <1>6, <2>1 DEF Repair, RunTool, execution
  <2>3. pc = "repair" /\ pc' \in {"repair", "finalize"}
    BY <1>6 DEF Repair
  <2>4. tool' # "skipped"
    BY <1>6 DEF Repair, execution
  <2>5. QED
    BY <1>1, <1>2, <2>1, <2>2, <2>3, <2>4
<1>7. CASE Finalize \/ Commit
  BY <1>1, <1>7 DEF Finalize, Commit, execution
<1>8. CASE UNCHANGED vars
  BY <1>1, <1>8 DEF vars, execution
<1>9. QED
  BY <1>3, <1>4, <1>5, <1>6, <1>7, <1>8 DEF RunStep

(* Every turn of the repair loop is paid for.                              *)
LEMMA BudgetedStep == ASSUME LifecycleInv, [RunStep]_vars PROVE Budgeted'
<1> USE DEF LifecycleInv, Budgeted
<1>1. RepairBudget' = RepairBudget
  BY GoalIsFixed, DecisionsAreFixed
<1>2. RepairBudget \in Nat /\ attempts \in Nat /\ toolRuns \in Nat
  BY BudgetArithmetic DEF TypeOK
<1>3. CASE PreExecutionGuard
  BY <1>1, <1>3 DEF PreExecutionGuard, execution
<1>4. CASE Execute
  BY <1>1, <1>4 DEF Execute
<1>5. CASE Verify
  <2>1. tool = "failed" => toolRuns > 0
    BY <1>2 DEF Approved
  <2>2. QED
    BY <1>1, <1>2, <1>5, <2>1 DEF Verify, execution
<1>6. CASE Repair
  <2>1. toolRuns' > 0
    BY <1>2, <1>6 DEF Repair, RunTool, execution
  <2>2. attempts' = attempts + 1 /\ pc' \in {"repair", "finalize"}
    BY <1>6 DEF Repair
  <2>3. pc' = "repair" => attempts' # RepairBudget
    BY <1>6 DEF Repair
  <2>4. attempts < RepairBudget
    BY <1>6 DEF Repair
  <2>5. QED
    BY <1>1, <1>2, <2>1, <2>2, <2>3, <2>4
<1>7. CASE Finalize \/ Commit
  BY <1>1, <1>7 DEF Finalize, Commit
<1>8. CASE UNCHANGED vars
  BY <1>1, <1>8 DEF vars, execution
<1>9. QED
  BY <1>3, <1>4, <1>5, <1>6, <1>7, <1>8 DEF RunStep

(* Every step that calls something a success had the evidence for it.      *)
LEMMA EarnedStep == ASSUME LifecycleInv, [RunStep]_vars PROVE Earned'
<1> USE DEF LifecycleInv, Earned
<1>1. /\ OverBudget' = OverBudget /\ NeedsApproval' = NeedsApproval
      /\ Granted' = Granted
  BY GoalIsFixed, DecisionsAreFixed
<1>2. CASE PreExecutionGuard
  BY <1>1, <1>2 DEF PreExecutionGuard, execution, result
<1>3. CASE Execute
  BY <1>1, <1>3 DEF Execute, result
<1>4. CASE Verify
  <2>1. verification' = "passed" => tool = "applied" /\ evidence = {"strong"}
    <3>1. verification' = "passed" => tool # "failed" /\ evidence = {"strong"}
      BY <1>4, ClassifyFacts DEF Verify, TypeOK
    <3>2. tool = "skipped" => evidence = {}
      BY DEF Approved
    <3>3. QED
      BY <3>1, <3>2 DEF TypeOK
  <2>2. QED
    BY <1>1, <1>4, <2>1 DEF Verify, execution, result
<1>5. CASE Repair
  <2>1. tool' \in {"applied", "failed", "skipped"} /\ evidence' \subseteq Strengths
    BY <1>5, TypeStep DEF TypeOK
  <2>2. verification' = "passed" => Classify(tool', evidence') = "passed"
    BY <1>5 DEF Repair
  <2>3. verification' = "passed" => tool' # "failed" /\ evidence' = {"strong"}
    BY <2>1, <2>2, ClassifyFacts
  <2>4. tool' = "skipped" => tool = "skipped"
    BY <1>5 DEF Repair, execution
  <2>5. tool # "skipped"
    BY <1>5 DEF Repair, Approved
  <2>6. QED
    BY <1>1, <1>5, <2>1, <2>3, <2>4, <2>5 DEF Repair, result
<1>6. CASE Finalize
  <2>1. FinalOutcome # "none"
    BY DEF FinalOutcome
  <2>2. outcome' = FinalOutcome \/ outcome' = "budget_exhausted"
    BY <1>6 DEF Finalize
  <2>3. FinalOutcome = "approval_required" => NeedsApproval /\ ~Granted
    BY DEF FinalOutcome
  <2>4. FinalOutcome = "success" => /\ verification = "passed" /\ ~OverBudget
                                    /\ NeedsApproval => Granted
    BY DEF FinalOutcome
  <2>5. QED
    BY <1>1, <1>6, <2>1, <2>2, <2>3, <2>4 DEF Finalize, execution
<1>7. CASE Commit
  <2>1. outcome' \in {outcome, "failed"} /\ outcome # "none" /\ pc' = "done"
    BY <1>7 DEF Commit
  <2>2. outcome' = "success" => outcome = "success" /\ goal.conditionsMet
    BY <1>7 DEF Commit
  <2>3. outcome' = "success" => tool = "applied"
    BY <2>2
  <2>4. outcome' = "success" => exit' = "ok"
    BY <1>7, <2>3 DEF Commit, ReturnsError
  <2>5. UNCHANGED <<tool, evidence>> /\ goal' = goal
    BY <1>7 DEF Commit, execution
  <2>6. verification' = "passed" => verification = "passed"
    BY <1>7 DEF Commit
  <2>7. outcome' = "success" => verification' = verification
    BY <1>7 DEF Commit
  <2>8. QED
    BY <1>1, <2>1, <2>2, <2>4, <2>5, <2>6, <2>7
<1>8. CASE UNCHANGED vars
  BY <1>1, <1>8 DEF vars, execution, result
<1>9. QED
  BY <1>2, <1>3, <1>4, <1>5, <1>6, <1>7, <1>8 DEF RunStep

(* The resume of a waiting run starts like any other command.              *)
LEMMA ResumeStep == ASSUME LifecycleInv, Resume PROVE LifecycleInv'
<1>1. goal' = goal /\ goal \in Goals
  BY DEF Resume, LifecycleInv, TypeOK
<1>2. planned' = planned /\ RepairBudget' = RepairBudget /\ RepairBudget \in Nat
  BY <1>1, BudgetArithmetic DEF planned, RepairBudget
<1>3. TypeOK'
  BY <1>1 DEF Resume, TypeOK, PCs, Verifications, Outcomes
<1>4. Approved'
  BY DEF Resume, Approved
<1>5. Budgeted'
  BY <1>2 DEF Resume, Budgeted
<1>6. Earned'
  BY DEF Resume, Earned
<1>7. QED
  BY <1>3, <1>4, <1>5, <1>6 DEF LifecycleInv

(* The strengthened invariant holds in every run.                          *)
LEMMA LifecycleInvariant == Spec => []LifecycleInv
<1>1. ASSUME LifecycleInv, [RunStep]_vars PROVE LifecycleInv'
  BY <1>1, TypeStep, ApprovedStep, BudgetedStep, EarnedStep DEF LifecycleInv
<1>2. LifecycleInv /\ [Next]_vars => LifecycleInv'
  BY <1>1, ResumeStep DEF Next
<1>3. QED
  BY <1>2, LifecycleInit, PTL DEF Spec

(* The record of the run keeps its types.                                  *)
THEOREM LifecycleTypeOK == Spec => []TypeOK
<1>1. LifecycleInv => TypeOK
  BY DEF LifecycleInv
<1>2. QED
  BY <1>1, LifecycleInvariant, PTL

(* No verifier command runs without the approval the goal needs, and a run *)
(* that waits for approval has run nothing.                                *)
THEOREM NothingRunsUnapprovedHolds == Spec => []NothingRunsUnapproved
<1>1. LifecycleInv => NothingRunsUnapproved
  BY DEF LifecycleInv, Approved, Earned, TypeOK, NothingRunsUnapproved
<1>2. QED
  BY <1>1, LifecycleInvariant, PTL

(* The plan and all repair attempts fit max_steps.                         *)
THEOREM RepairsWithinStepBudgetHolds == Spec => []RepairsWithinStepBudget
<1>1. LifecycleInv => RepairsWithinStepBudget
  BY BudgetArithmetic DEF LifecycleInv, Budgeted, TypeOK, RepairsWithinStepBudget
<1>2. QED
  BY <1>1, LifecycleInvariant, PTL

(* A command that ends in success has earned it: strong evidence, every    *)
(* done condition, the budgets and the approval.                           *)
THEOREM SuccessIsEarnedHolds == Spec => []SuccessIsEarned
<1>1. ASSUME LifecycleInv PROVE SuccessIsEarned
  <2> USE DEF LifecycleInv
  <2>1. /\ planned \in Nat /\ RepairBudget \in Nat /\ goal.maxSteps \in Nat
        /\ RepairBudget > 0 => planned + RepairBudget = goal.maxSteps
        /\ attempts \in Nat /\ attempts <= RepairBudget
    BY <1>1, BudgetArithmetic DEF TypeOK, Budgeted
  <2>2. SUFFICES ASSUME outcome = "success", pc = "done"
                 PROVE  /\ tool = "applied" /\ evidence = {"strong"} /\ goal.conditionsMet
                        /\ planned + attempts <= goal.maxSteps /\ goal.tokensFit
                        /\ NeedsApproval => Granted
                        /\ ~Rejected /\ exit = "ok"
    BY DEF SuccessIsEarned
  <2>3. /\ tool = "applied" /\ evidence = {"strong"} /\ goal.conditionsMet
        /\ NeedsApproval => Granted
        /\ exit = "ok" /\ ~OverBudget
    BY <1>1, <2>2 DEF Earned
  <2>4. toolRuns > 0
    BY <1>1, <2>3 DEF Approved, TypeOK
  <2>5. ~Rejected
    BY <1>1, <2>4 DEF Approved
  <2>6. planned + attempts <= goal.maxSteps /\ goal.tokensFit
    BY <2>1, <2>3 DEF OverBudget
  <2>7. QED
    BY <2>3, <2>5, <2>6
<1>2. QED
  BY <1>1, LifecycleInvariant, PTL

-----------------------------------------------------------------------------
(* The runs of goal files. *)

\* What makes NothingIsDeniedMidRun inductive: from the validation on the plan and
\* the allowlist stay the ones that were validated.
PlanIsValidated == stage = "lifecycle" => CommandsValid(plan, allowlist)

\* run_session.rs:3-53 and 145-171: whatever the goal file, its pack and the
\* operator's allowlist are, a command is a run of the lifecycle, which starts
\* once and is not touched by reading and validating the file.
THEOREM GoalRunsAreRuns == GrSpec => Spec
<1>1. GrInit => Init
  BY DEF GrInit
<1>2. [GrNext]_grVars => [Next]_vars
  <2> SUFFICES ASSUME [GrNext]_grVars PROVE [Next]_vars
    OBVIOUS
  <2>1. CASE GrLoad \/ GrValidate
    BY <2>1 DEF GrLoad, GrValidate
  <2>2. CASE GrExecute
    BY <2>2 DEF GrExecute, Next, RunStep
  <2>3. CASE GrRepair
    BY <2>3 DEF GrRepair, Next, RunStep
  <2>4. CASE GrOther
    BY <2>4 DEF GrOther, Next, RunStep
  <2>5. CASE GrResume
    BY <2>5 DEF GrResume, Next
  <2>6. CASE UNCHANGED grVars
    BY <2>6 DEF grVars
  <2> QED
    BY <2>1, <2>2, <2>3, <2>4, <2>5, <2>6 DEF GrNext, GrStep
<1> QED
  BY <1>1, <1>2, PTL DEF GrSpec, Spec

\* A pass of the verifiers under a validated plan denies nothing.
LEMMA ValidatedPassDeniesNothing ==
  ASSUME NEW n \in Nat, PlanIsValidated, stage = "lifecycle", ~denied, RunUpTo(n)
  PROVE  ~denied'
<1>1. ASSUME n + 1 \in DOMAIN plan
      PROVE  Accepts(plan[n + 1].command, allowlist)
  BY <1>1 DEF PlanIsValidated, CommandsValid, Range
<1> QED
  BY <1>1 DEF RunUpTo

\* The inductive invariant: the plan is validated and nothing was denied.
LEMMA ValidatedInvariant == GrSpec => [](PlanIsValidated /\ NothingIsDeniedMidRun)
<1>1. GrInit => PlanIsValidated /\ NothingIsDeniedMidRun
  BY DEF GrInit, PlanIsValidated, NothingIsDeniedMidRun
<1>2. PlanIsValidated /\ NothingIsDeniedMidRun /\ [GrNext]_grVars
        => PlanIsValidated' /\ NothingIsDeniedMidRun'
  <2> SUFFICES ASSUME PlanIsValidated, NothingIsDeniedMidRun, [GrNext]_grVars
               PROVE  PlanIsValidated' /\ NothingIsDeniedMidRun'
    OBVIOUS
  <2>1. CASE GrLoad
    BY <2>1 DEF GrLoad, PlanIsValidated, NothingIsDeniedMidRun
  <2>2. CASE GrValidate
    BY <2>2 DEF GrValidate, PlanIsValidated, NothingIsDeniedMidRun, CommandsValid
  <2>3. ASSUME GrExecute \/ GrRepair
        PROVE  PlanIsValidated' /\ NothingIsDeniedMidRun'
    <3>1. /\ stage = "lifecycle"
          /\ UNCHANGED <<allowlist, plan, stage>>
          /\ \/ UNCHANGED denied
             \/ \E n \in 0..Len(plan) : RunUpTo(n)
      BY <2>3 DEF GrExecute, GrRepair
    <3>2. ASSUME NEW n \in 0..Len(plan), RunUpTo(n)
          PROVE  ~denied'
      BY <3>1, <3>2, ValidatedPassDeniesNothing DEF NothingIsDeniedMidRun
    <3> QED
      BY <3>1, <3>2 DEF PlanIsValidated, NothingIsDeniedMidRun, CommandsValid
  <2>4. CASE GrOther
    BY <2>4 DEF GrOther, PlanIsValidated, NothingIsDeniedMidRun, CommandsValid
  <2>5. CASE GrResume
    BY <2>5 DEF GrResume, PlanIsValidated, NothingIsDeniedMidRun
  <2>6. CASE UNCHANGED grVars
    BY <2>6 DEF grVars, PlanIsValidated, NothingIsDeniedMidRun, CommandsValid
  <2> QED
    BY <2>1, <2>2, <2>3, <2>4, <2>5, <2>6 DEF GrNext, GrStep
<1> QED
  BY <1>1, <1>2, PTL DEF GrSpec

\* runtime_compose.rs:533-551 and tool.rs:596-601: for every goal file, every
\* pack and every sequence of allowlists, no pass of the verifiers stops because
\* run_command denies a command.
THEOREM NothingIsDeniedMidRunHolds == GrSpec => []NothingIsDeniedMidRun
BY ValidatedInvariant, PTL

\* docs/WORKFLOW_PACK_CONTRACT.md:58-63, for every goal file.
THEOREM GoalSuccessIsEarned == GrSpec => []SuccessIsEarned
BY GoalRunsAreRuns, SuccessIsEarnedHolds, PTL

\* docs/WORKFLOW_PACK_CONTRACT.md:42, :80 and :91, for every goal file.
THEOREM GoalRunsNothingUnapproved == GrSpec => []NothingRunsUnapproved
BY GoalRunsAreRuns, NothingRunsUnapprovedHolds, PTL

-----------------------------------------------------------------------------
(* The plan of a goal file.                                                *)

\* Every rule has its turn.
LEMMA TurnIsNumber ==
  ASSUME NEW pack, NEW m \in Nat, DOMAIN pack.flow = 1..m, NEW i
  PROVE  Turn(pack, i) \in Nat
<1> DEFINE before == {n \in DOMAIN pack.flow : \A k \in 1..n : pack.flow[k] # pack.rules[i].profile}
<1>1. before \in SUBSET (1..m) /\ IsFiniteSet(1..m)
  BY FS_Interval
<1>2. Cardinality(before) \in Nat
  BY <1>1, FS_Subset, FS_CardinalityType
<1> QED
  BY <1>2 DEF Turn

\* plan.rs:261-275: the default flow is a list.
LEMMA FlowIsList ==
  ASSUME NEW checks, NEW m \in Nat, DOMAIN checks = 1..m
  PROVE  \E n \in Nat : DOMAIN FlowOfChecks(checks) = 1..n
<1> DEFINE profiles == [i \in DOMAIN checks |-> ProfileOf(checks[i])]
           firsts == {i \in DOMAIN checks : \A j \in 1..(i - 1) : profiles[j] # profiles[i]}
<1>1. firsts \in SUBSET (1..m) /\ IsFiniteSet(1..m)
  BY FS_Interval
<1>2. Cardinality(firsts) \in Nat
  BY <1>1, FS_Subset, FS_CardinalityType
<1>3. CASE checks = <<>>
  BY <1>3 DEF FlowOfChecks
<1>4. CASE checks # <<>>
  <2>1. DOMAIN FlowOfChecks(checks) = 1..Cardinality(firsts)
    BY <1>4 DEF FlowOfChecks
  <2> QED
    BY <1>2, <2>1
<1> QED
  BY <1>3, <1>4

\* plan.rs:291-320: the plan is the pack's rules, each of them once.
LEMMA OrderIsPermutation ==
  ASSUME NEW pack, NEW N \in Nat, DOMAIN pack.rules = 1..N, \A i \in 1..N : Turn(pack, i) \in Nat
  PROVE  RuleOrder(pack) \in Bijection(1..N, 1..N)
<1> DEFINE at(i) == <<Turn(pack, i), i>>
           turns == {at(i) : i \in 1..N}
           NotAfter(q, p) == q[1] < p[1] \/ (q[1] = p[1] /\ q[2] <= p[2])
           upTo(p) == {q \in turns : NotAfter(q, p)}
           order == RuleOrder(pack)
<1>1. /\ \A p \in turns : p[1] \in Nat /\ p[2] \in 1..N /\ p = at(p[2])
      /\ \A i \in 1..N : at(i) \in turns /\ at(i)[2] = i
  OBVIOUS
<1>2. IsFiniteSet(turns) /\ Cardinality(turns) = N
  <2> DEFINE f == [i \in 1..N |-> at(i)]
  <2>1. f \in Bijection(1..N, turns)
    BY <1>1 DEF Bijection, Injection, Surjection, IsInjective
  <2>2. IsFiniteSet(1..N) /\ Cardinality(1..N) = N
    BY FS_Interval
  <2> HIDE DEF f, turns
  <2> QED
    BY <2>1, <2>2, FS_Bijection DEF ExistsBijection
<1>3. \A p, q \in turns :
        \/ p = q
        \/ NotAfter(p, q) /\ ~NotAfter(q, p)
        \/ NotAfter(q, p) /\ ~NotAfter(p, q)
  BY <1>1
<1>4. \A p, q, r \in turns : NotAfter(p, q) /\ NotAfter(q, r) => NotAfter(p, r)
  BY <1>1
<1>5. \A p \in turns : NotAfter(p, p)
  BY <1>1
<1> HIDE DEF turns, NotAfter, at
<1>6. ASSUME NEW p \in turns
      PROVE  /\ IsFiniteSet(upTo(p)) /\ Cardinality(upTo(p)) \in 1..N
  <2>1. upTo(p) \in SUBSET turns /\ upTo(p) # {}
    BY <1>5
  <2> HIDE DEF upTo
  <2>2. IsFiniteSet(upTo(p)) /\ Cardinality(upTo(p)) <= N
    BY <1>2, <2>1, FS_Subset
  <2>3. Cardinality(upTo(p)) \in Nat /\ Cardinality(upTo(p)) # 0
    BY <2>1, <2>2, FS_CardinalityType, FS_EmptySet
  <2> QED
    BY <2>2, <2>3
<1>7. ASSUME NEW p \in turns, NEW q \in turns, p # q, NotAfter(p, q)
      PROVE  Cardinality(upTo(p)) # Cardinality(upTo(q))
  <2>1. upTo(p) \in SUBSET upTo(q) /\ q \in upTo(q) /\ q \notin upTo(p)
    BY <1>3, <1>4, <1>5, <1>7
  <2>2. IsFiniteSet(upTo(q))
    BY <1>6
  <2> QED
    BY <2>1, <2>2, FS_Subset
<1>8. ASSUME NEW p \in turns, NEW q \in turns, Cardinality(upTo(p)) = Cardinality(upTo(q))
      PROVE  p = q
  <2> HIDE DEF upTo
  <2>1. CASE NotAfter(p, q)
    BY <1>7, <1>8, <2>1
  <2>2. CASE NotAfter(q, p)
    BY <1>7, <1>8, <2>2
  <2> QED
    BY <1>3, <2>1, <2>2
<1>9. \A n \in 1..N : \E p \in turns : Cardinality(upTo(p)) = n
  <2> DEFINE g == [p \in turns |-> Cardinality(upTo(p))]
  <2>1. g \in Injection(turns, 1..N)
    BY <1>6, <1>8 DEF Injection, IsInjective
  <2>2. IsFiniteSet(1..N) /\ Cardinality(1..N) = N
    BY FS_Interval
  <2>3. g \in Surjection(turns, 1..N)
    BY <1>2, <2>1, <2>2, FS_Injection
  <2> QED
    BY <2>3 DEF Surjection
<1>10. /\ DOMAIN order = 1..N /\ order = [n \in 1..N |-> order[n]]
       /\ \A n \in 1..N : order[n] = (CHOOSE p \in turns : Cardinality(upTo(p)) = n)[2]
  BY DEF RuleOrder, turns, at, NotAfter
<1>11. ASSUME NEW n \in 1..N
       PROVE  \E p \in turns : Cardinality(upTo(p)) = n /\ order[n] = p[2]
  BY <1>9, <1>10
<1>12. ASSUME NEW p \in turns, NEW n, n = Cardinality(upTo(p))
       PROVE  n \in 1..N /\ order[n] = p[2]
  BY <1>6, <1>8, <1>11, <1>12
<1> HIDE DEF upTo, order
<1>13. order \in [1..N -> 1..N]
  BY <1>1, <1>10, <1>11
<1>14. \A n, m \in 1..N : order[n] = order[m] => n = m
  <2> SUFFICES ASSUME NEW n \in 1..N, NEW m \in 1..N, order[n] = order[m] PROVE n = m
    OBVIOUS
  <2>1. PICK p \in turns : Cardinality(upTo(p)) = n /\ order[n] = p[2]
    BY <1>11
  <2>2. PICK q \in turns : Cardinality(upTo(q)) = m /\ order[m] = q[2]
    BY <1>11
  <2>3. p = q
    BY <1>1, <2>1, <2>2
  <2> QED
    BY <2>1, <2>2, <2>3
<1>15. \A i \in 1..N : \E n \in 1..N : order[n] = i
  BY <1>1, <1>12
<1> QED
  BY <1>13, <1>14, <1>15 DEF order, Bijection, Injection, Surjection, IsInjective

Times(commands, c) == Cardinality({i \in DOMAIN commands : commands[i] = c})

\* Two lists that are permutations of each other have everything equally often.
LEMMA PermutationKeepsCounts ==
  ASSUME NEW N \in Nat, NEW order \in Bijection(1..N, 1..N), NEW p, NEW q, NEW c,
         DOMAIN p = 1..N, DOMAIN q = 1..N, \A n \in 1..N : p[n] = q[order[n]]
  PROVE  Times(p, c) = Times(q, c)
<1> DEFINE S == {n \in 1..N : p[n] = c}
           T == {i \in 1..N : q[i] = c}
           f == [n \in S |-> order[n]]
<1>1. /\ order \in [1..N -> 1..N]
      /\ \A n, m \in 1..N : order[n] = order[m] => n = m
      /\ \A i \in 1..N : \E n \in 1..N : order[n] = i
  BY DEF Bijection, Injection, Surjection, IsInjective
<1>2. f \in Bijection(S, T)
  BY <1>1 DEF Bijection, Injection, Surjection, IsInjective
<1>3. IsFiniteSet(S)
  BY FS_Interval, FS_Subset
<1>4. Times(p, c) = Cardinality(S) /\ Times(q, c) = Cardinality(T)
  BY DEF Times
<1> HIDE DEF S, T, f
<1>5. Cardinality(S) = Cardinality(T)
  BY <1>2, <1>3, FS_Bijection DEF ExistsBijection
<1> QED
  BY <1>4, <1>5

LEMMA PlanOfFile ==
  ASSUME NEW f \in Files
  PROVE  \E N \in Nat :
           /\ DOMAIN PackOf(f).rules = 1..N
           /\ RuleOrder(PackOf(f)) \in Bijection(1..N, 1..N)
           /\ PlannedRules(f) = [n \in 1..N |-> PackOf(f).rules[RuleOrder(PackOf(f))[n]]]
<1> DEFINE pack == PackOf(f)
<1>1. \E m \in Nat : DOMAIN pack.flow = 1..m
  <2>1. CASE f.pack # NoPack
    BY <2>1, FilesAssumption DEF PackOf
  <2>2. CASE f.pack = NoPack
    <3>1. pack.flow = FlowOfChecks(f.checks) /\ \E m \in Nat : DOMAIN f.checks = 1..m
      BY <2>2, FilesAssumption DEF PackOf
    <3> QED
      BY <3>1, FlowIsList
  <2> QED
    BY <2>1, <2>2
<1>2. \E N \in Nat : DOMAIN pack.rules = 1..N
  BY FilesAssumption DEF PackOf
<1> HIDE DEF pack
<1>3. PICK m \in Nat, N \in Nat : DOMAIN pack.flow = 1..m /\ DOMAIN pack.rules = 1..N
  BY <1>1, <1>2
<1>4. RuleOrder(pack) \in Bijection(1..N, 1..N)
  BY <1>3, TurnIsNumber, OrderIsPermutation
<1>5. DOMAIN RuleOrder(pack) = 1..N
  BY <1>4 DEF Bijection, Injection
<1>6. PlannedRules(f) = [n \in 1..N |-> pack.rules[RuleOrder(pack)[n]]]
  BY <1>5 DEF PlannedRules, pack
<1> QED
  BY <1>3, <1>4, <1>6 DEF pack

LEMMA PlanIsList ==
  ASSUME NEW f \in Files, NEW p \in {<<>>, PlannedRules(f)}
  PROVE  /\ Len(p) \in Nat /\ DOMAIN p = 1..Len(p)
         /\ SubSeq(p, 1, 0) = <<>> /\ SubSeq(p, 1, Len(p)) = p
<1>1. \E N \in Nat : DOMAIN p = 1..N /\ p = [n \in 1..N |-> p[n]]
  <2>1. CASE p = <<>>
    BY <2>1
  <2>2. CASE p = PlannedRules(f)
    <3>1. PICK N \in Nat : PlannedRules(f) = [n \in 1..N |-> PackOf(f).rules[RuleOrder(PackOf(f))[n]]]
      BY PlanOfFile
    <3> QED
      BY <2>2, <3>1
  <2> QED
    BY <2>1, <2>2
<1>2. PICK N \in Nat : DOMAIN p = 1..N /\ p = [n \in 1..N |-> p[n]]
  BY <1>1
<1>3. p \in Seq({p[n] : n \in 1..N})
  BY <1>2
<1>4. Len(p) = N
  BY <1>2, <1>3, LenProperties
<1>5. SubSeq(p, 1, 0) = <<>>
  BY <1>3, SubSeqEmpty
<1>6. SubSeq(p, 1, N) = p
  BY <1>2, <1>3, <1>4, SubSeqProperties, LenProperties
<1> QED
  BY <1>2, <1>4, <1>5, <1>6

-----------------------------------------------------------------------------
\* What a goal run keeps of its file: the plan is the file's, a command that the
\* lifecycle has not got yet has run nothing, and a pass that ended well ran the
\* plan to its end and has the evidence of all its commands.
PlanIsRun ==
    /\ file \in Files /\ allowlist \in Allowlists
    /\ stage \in {"load", "validate", "lifecycle", "refused"} /\ denied \in BOOLEAN
    /\ goal.strengths = {rule.strength : rule \in Range(PlannedRules(file))}
    /\ plan \in {<<>>, PlannedRules(file)}
    /\ stage \in {"validate", "lifecycle"} => plan = PlannedRules(file)
    /\ stage # "lifecycle" => pc = "plan" /\ ran = <<>>
    /\ \E n \in 0..Len(plan) : ran = CommandsOf(SubSeq(plan, 1, n))
    /\ tool = "applied" => ran = CommandsOf(plan) /\ goal.strengths \subseteq evidence

\* The commands of no plan at all.
LEMMA NothingPlanned ==
  ASSUME NEW f \in Files, NEW p \in {<<>>, PlannedRules(f)}
  PROVE  \E n \in 0..Len(p) : <<>> = CommandsOf(SubSeq(p, 1, n))
<1>1. CommandsOf(<<>>) = <<>>
  BY DEF CommandsOf
<1>2. Len(p) \in Nat /\ SubSeq(p, 1, 0) = <<>>
  BY PlanIsList
<1>3. 0 \in 0..Len(p)
  BY <1>2
<1>4. <<>> = CommandsOf(SubSeq(p, 1, 0))
  BY <1>1, <1>2, Zenon
<1> QED
  BY <1>3, <1>4, Zenon

\* A pass that ended with the plan has run all of it.
LEMMA AppliedRanAll ==
  ASSUME PlanIsRun, NEW n \in 0..Len(plan), RunUpTo(n), tool' = "applied"
  PROVE  CommandsOf(SubSeq(plan, 1, n)) = CommandsOf(plan)
<1>1. n + 1 \notin DOMAIN plan
  BY DEF RunUpTo
<1>2. PICK last \in Nat : last = Len(plan) /\ DOMAIN plan = 1..last
  BY PlanIsList DEF PlanIsRun
<1>3. n = last
  BY <1>1, <1>2
<1>4. SubSeq(plan, 1, last) = plan
  BY <1>2, PlanIsList DEF PlanIsRun
<1> QED
  BY <1>3, <1>4

LEMMA PlanIsRunStep == ASSUME LifecycleInv, PlanIsRun, [GrNext]_grVars PROVE PlanIsRun'
<1>0. pc \in {"plan", "execute"} => tool = "skipped"
  BY DEF LifecycleInv, Approved
<1>1. CASE GrLoad
  <2>1. /\ UNCHANGED <<vars, file, allowlist, ran, denied>> /\ stage = "load"
        /\ stage' \in {"validate", "refused"} /\ plan' \in {<<>>, PlannedRules(file)}
        /\ stage' = "validate" => plan' = PlannedRules(file)
    BY <1>1 DEF GrLoad, PlanIsRun
  <2>2. \E n \in 0..Len(plan') : ran' = CommandsOf(SubSeq(plan', 1, n))
    BY <2>1, NothingPlanned DEF PlanIsRun
  <2> QED
    BY <1>0, <2>1, <2>2 DEF PlanIsRun, vars, execution
<1>2. CASE GrValidate
  BY <1>2 DEF GrValidate, PlanIsRun, vars, execution
<1>3. CASE GrExecute
  <2>1. UNCHANGED <<file, allowlist, plan, stage, goal>> /\ stage = "lifecycle"
    BY <1>3 DEF GrExecute, Execute
  <2>2. CASE toolRuns' = toolRuns
    <3>1. UNCHANGED <<ran, denied, tool, evidence>>
      BY <1>3, <2>2 DEF GrExecute, Execute, RunTool, execution, LifecycleInv, TypeOK
    <3> QED
      BY <2>1, <3>1 DEF PlanIsRun
  <2>3. CASE toolRuns' # toolRuns
    <3>1. PICK n \in 0..Len(plan) : RunUpTo(n) /\ ran' = CommandsOf(SubSeq(plan, 1, n))
      BY <1>3, <2>3 DEF GrExecute
    <3>2. tool' = "applied" => evidence' = goal.strengths
      BY <1>3, <2>3 DEF GrExecute, Execute, RunTool, execution
    <3>3. denied' \in BOOLEAN
      BY <3>1 DEF RunUpTo, PlanIsRun
    <3>4. tool' = "applied" => ran' = CommandsOf(plan)
      BY <3>1, AppliedRanAll
    <3> QED
      BY <2>1, <3>1, <3>2, <3>3, <3>4 DEF PlanIsRun
  <2> QED
    BY <2>2, <2>3
<1>4. CASE GrRepair
  <2>1. UNCHANGED <<file, allowlist, plan, stage, goal>> /\ stage = "lifecycle"
    BY <1>4 DEF GrRepair, Repair
  <2>2. CASE toolRuns' = toolRuns
    <3>1. UNCHANGED <<ran, denied, tool, evidence>>
      BY <1>4, <2>2 DEF GrRepair, Repair, RunTool, execution, LifecycleInv, TypeOK
    <3> QED
      BY <2>1, <3>1 DEF PlanIsRun
  <2>3. CASE toolRuns' # toolRuns
    <3>1. PICK n \in 0..Len(plan) :
            RunUpTo(n) /\ ran' = IF tool' = "applied" THEN CommandsOf(SubSeq(plan, 1, n)) ELSE ran
      BY <1>4, <2>3 DEF GrRepair
    <3>2. tool' = "applied" => goal.strengths \subseteq evidence'
      BY <1>4, <2>3 DEF GrRepair, Repair, RunTool, execution
    <3>3. denied' \in BOOLEAN
      BY <3>1 DEF RunUpTo, PlanIsRun
    <3>4. tool' = "applied" => ran' = CommandsOf(plan)
      BY <3>1, AppliedRanAll
    <3>5. \E m \in 0..Len(plan) : ran' = CommandsOf(SubSeq(plan, 1, m))
      BY <3>1 DEF PlanIsRun
    <3> QED
      BY <2>1, <3>2, <3>3, <3>4, <3>5 DEF PlanIsRun
  <2> QED
    BY <2>2, <2>3
<1>5. CASE GrOther
  BY <1>5 DEF GrOther, PreExecutionGuard, Verify, Finalize, Commit, PlanIsRun, execution
<1>6. CASE GrResume
  <2>1. /\ allowlist' \in Allowlists /\ UNCHANGED <<file, denied, goal>>
        /\ stage' = "load" /\ plan' = <<>> /\ ran' = <<>>
    BY <1>6 DEF GrResume, Resume, vars
  <2>2. pc' = "plan" /\ tool' = "skipped"
    BY <1>0, <1>6 DEF GrResume, Resume, PlanIsRun, vars, execution
  <2>3. \E n \in 0..Len(plan') : ran' = CommandsOf(SubSeq(plan', 1, n))
    BY <2>1, NothingPlanned DEF PlanIsRun
  <2> QED
    BY <2>1, <2>2, <2>3 DEF PlanIsRun
<1>7. CASE UNCHANGED grVars
  BY <1>7 DEF grVars, PlanIsRun, vars, execution
<1> QED
  BY <1>1, <1>2, <1>3, <1>4, <1>5, <1>6, <1>7 DEF GrNext, GrStep

LEMMA PlanInvariant == GrSpec => [](LifecycleInv /\ PlanIsRun)
<1>1. GrInit => PlanIsRun
  <2> SUFFICES ASSUME GrInit PROVE PlanIsRun
    OBVIOUS
  <2>1. /\ file \in Files /\ allowlist \in Allowlists /\ tool = "skipped" /\ pc = "plan"
        /\ plan = <<>> /\ stage = "load" /\ ran = <<>> /\ denied = FALSE
        /\ goal.strengths = {rule.strength : rule \in Range(PlannedRules(file))}
    BY DEF GrInit, Init, GoalOf
  <2>2. \E n \in 0..Len(plan) : ran = CommandsOf(SubSeq(plan, 1, n))
    BY <2>1, NothingPlanned
  <2> QED
    BY <2>1, <2>2 DEF PlanIsRun
<1>2. LifecycleInv /\ PlanIsRun /\ [GrNext]_grVars => PlanIsRun'
  BY PlanIsRunStep
<1> QED
  BY <1>1, <1>2, GoalRunsAreRuns, LifecycleInvariant, PTL DEF GrSpec

\* Type correctness, for every set of goal files and allowlists.
THEOREM GoalTypesHold == GrSpec => []GrTypeOK
<1>1. LifecycleInv /\ PlanIsRun => GrTypeOK
  BY DEF LifecycleInv, PlanIsRun, GrTypeOK
<1> QED
  BY <1>1, PlanInvariant, PTL

-----------------------------------------------------------------------------
(* A success ran every verifier of its goal.                               *)

\* plan.rs:291-320: the plan runs each command as often as the pack lists it.
LEMMA PlanRunsThePack ==
  ASSUME NEW f \in Files, NEW c
  PROVE  Times(CommandsOf(PlannedRules(f)), c) = Times(CommandsOf(PackOf(f).rules), c)
<1> DEFINE rules == PackOf(f).rules
           order == RuleOrder(PackOf(f))
<1>1. PICK N \in Nat : /\ DOMAIN rules = 1..N /\ order \in Bijection(1..N, 1..N)
                       /\ PlannedRules(f) = [n \in 1..N |-> rules[order[n]]]
  BY PlanOfFile
<1> DEFINE p == CommandsOf(PlannedRules(f))
           q == CommandsOf(rules)
<1>2. DOMAIN p = 1..N /\ DOMAIN q = 1..N /\ \A n \in 1..N : p[n] = rules[order[n]].command
  BY <1>1 DEF CommandsOf
<1>3. \A n \in 1..N : order[n] \in 1..N
  BY <1>1 DEF Bijection, Injection
<1>4. \A n \in 1..N : p[n] = q[order[n]]
  BY <1>1, <1>2, <1>3 DEF CommandsOf
<1> HIDE DEF p, q
<1>5. Times(p, c) = Times(q, c)
  BY <1>1, <1>2, <1>4, PermutationKeepsCounts
<1> QED
  BY <1>5 DEF p, q

\* A plan whose rules are all strong runs what the goal file says.
LEMMA StrongPlanIsWanted ==
  ASSUME NEW f \in Files,
         \A rule \in Range(PlannedRules(f)) : rule.strength = "strong"
  PROVE  CommandsOf(PackOf(f).rules) =
           IF f.pack = NoPack THEN [i \in DOMAIN f.checks |-> f.checks[i].tokens]
                              ELSE CommandsOf(f.pack.rules)
<1>1. CASE f.pack # NoPack
  BY <1>1 DEF PackOf
<1>2. CASE f.pack = NoPack
  <2> DEFINE rules == PackOf(f).rules
             order == RuleOrder(PackOf(f))
  <2>1. rules = [i \in DOMAIN f.checks |-> RuleOfCheck(f.checks[i])]
    BY <1>2 DEF PackOf
  <2>2. PICK N \in Nat : /\ DOMAIN rules = 1..N /\ order \in Bijection(1..N, 1..N)
                         /\ PlannedRules(f) = [n \in 1..N |-> rules[order[n]]]
    BY PlanOfFile
  <2> HIDE DEF rules, order
  <2>3. ASSUME NEW i \in DOMAIN f.checks
        PROVE  rules[i].command = f.checks[i].tokens
    <3>1. i \in 1..N /\ rules[i] = RuleOfCheck(f.checks[i])
      BY <2>1, <2>2
    <3>2. PICK n \in 1..N : order[n] = i
      BY <2>2, <3>1 DEF Bijection, Surjection
    <3>3. rules[i] \in Range(PlannedRules(f))
      BY <2>2, <3>2 DEF Range
    <3>4. RuleOfCheck(f.checks[i]).strength = "strong"
      BY <3>1, <3>3
    <3>5. IsCommand(f.checks[i])
      BY <3>4 DEF RuleOfCheck, UnresolvedStrength
    <3> QED
      BY <3>1, <3>5 DEF RuleOfCheck
  <2>4. CommandsOf(rules) = [i \in DOMAIN f.checks |-> f.checks[i].tokens]
    BY <2>1, <2>3 DEF CommandsOf
  <2> QED
    BY <1>2, <2>4 DEF rules
<1> QED
  BY <1>1, <1>2

\* docs/WORKFLOW_PACK_CONTRACT.md:58-63, for every goal file, pack and flow: a
\* success ran the verifier commands of its goal, each as often as the goal lists
\* it and nothing else.
THEOREM SuccessRanEveryVerifierHolds == GrSpec => []SuccessRanEveryVerifier
<1>1. LifecycleInv /\ PlanIsRun => SuccessRanEveryVerifier
  <2> SUFFICES ASSUME LifecycleInv, PlanIsRun, outcome = "success", pc = "done"
               PROVE  SuccessRanEveryVerifier
    BY DEF SuccessRanEveryVerifier
  <2> DEFINE wanted == IF file.pack = NoPack
                         THEN [i \in DOMAIN file.checks |-> file.checks[i].tokens]
                         ELSE CommandsOf(file.pack.rules)
  <2>1. tool = "applied" /\ evidence = {"strong"}
    BY DEF LifecycleInv, Earned
  <2>2. /\ file \in Files /\ plan = PlannedRules(file)
        /\ ran = CommandsOf(plan) /\ goal.strengths \subseteq evidence
        /\ goal.strengths = {rule.strength : rule \in Range(PlannedRules(file))}
    BY <2>1 DEF PlanIsRun
  <2>3. \A rule \in Range(PlannedRules(file)) : rule.strength = "strong"
    BY <2>1, <2>2
  <2>4. wanted = CommandsOf(PackOf(file).rules)
    BY <2>2, <2>3, StrongPlanIsWanted
  <2> HIDE DEF wanted
  <2>5. \A c : Times(ran, c) = Times(wanted, c)
    BY <2>2, <2>4, PlanRunsThePack
  <2> QED
    BY <2>5 DEF SuccessRanEveryVerifier, wanted, Times
<1> QED
  BY <1>1, PlanInvariant, PTL

-----------------------------------------------------------------------------
(* What runs is within the policy of its goal file.                        *)

\* What the lifecycle knows of the file is what the file says, and what left
\* evidence was run by this command.
PolicyIsRead ==
    /\ goal.always = file.always
    /\ goal.escalates = Escalates(file)
    /\ goal.violates = Violates(file)
    /\ ran # <<>> => toolRuns > 0

LEMMA PolicyIsReadStep == ASSUME LifecycleInv, PolicyIsRead, [GrNext]_grVars PROVE PolicyIsRead'
<1>1. UNCHANGED <<goal, file>>
  <2>1. CASE GrLoad \/ GrValidate \/ UNCHANGED grVars
    BY <2>1 DEF GrLoad, GrValidate, grVars, vars
  <2>2. CASE GrExecute \/ GrRepair
    BY <2>2 DEF GrExecute, GrRepair, Execute, Repair
  <2>3. CASE GrOther
    BY <2>3 DEF GrOther, PreExecutionGuard, Verify, Finalize, Commit
  <2>4. CASE GrResume
    BY <2>4 DEF GrResume, Resume, vars
  <2> QED
    BY <2>1, <2>2, <2>3, <2>4 DEF GrNext, GrStep
<1>2. ran' # <<>> => toolRuns' > 0
  <2>1. CASE GrLoad \/ GrValidate \/ UNCHANGED grVars
    BY <2>1 DEF GrLoad, GrValidate, grVars, vars, execution, PolicyIsRead
  <2>2. CASE GrExecute
    <3>1. toolRuns' = toolRuns => UNCHANGED ran
      BY <2>2 DEF GrExecute
    <3>2. toolRuns' # toolRuns => toolRuns' = toolRuns + 1
      BY <2>2 DEF GrExecute, Execute, RunTool, execution
    <3> QED
      BY <3>1, <3>2 DEF PolicyIsRead, LifecycleInv, TypeOK
  <2>3. CASE GrRepair
    <3>1. toolRuns' = toolRuns => UNCHANGED ran
      BY <2>3 DEF GrRepair
    <3>2. toolRuns' # toolRuns => toolRuns' = toolRuns + 1
      BY <2>3 DEF GrRepair, Repair, RunTool, execution
    <3> QED
      BY <3>1, <3>2 DEF PolicyIsRead, LifecycleInv, TypeOK
  <2>4. CASE GrOther
    BY <2>4 DEF GrOther, PreExecutionGuard, Verify, Finalize, Commit, execution, PolicyIsRead
  <2>5. CASE GrResume
    BY <2>5 DEF GrResume
  <2> QED
    BY <2>1, <2>2, <2>3, <2>4, <2>5 DEF GrNext, GrStep
<1>3. Escalates(file)' = Escalates(file) /\ Violates(file)' = Violates(file)
  BY <1>1 DEF Escalates, Violates
<1> QED
  BY <1>1, <1>2, <1>3 DEF PolicyIsRead

\* A command that ran is one of the file's plan.
LEMMA RanIsPlanned ==
  ASSUME PlanIsRun, NEW c \in Range(ran)
  PROVE  /\ stage = "lifecycle" /\ ran # <<>> /\ plan = PlannedRules(file)
         /\ \E rule \in Range(plan) : rule.command = c
<1>1. PICK i \in DOMAIN ran : ran[i] = c
  BY DEF Range
<1>2. ran # <<>>
  BY <1>1
<1>3. PICK last \in Nat : /\ last = Len(plan) /\ DOMAIN plan = 1..last
                          /\ plan = [k \in 1..last |-> plan[k]]
  BY PlanIsList, PlanOfFile DEF PlanIsRun
<1>4. plan \in Seq({plan[k] : k \in 1..last})
  BY <1>3
<1>5. PICK n \in 0..last : ran = CommandsOf(SubSeq(plan, 1, n))
  BY <1>3 DEF PlanIsRun
<1>6. i \in DOMAIN SubSeq(plan, 1, n) /\ c = SubSeq(plan, 1, n)[i].command
  BY <1>1, <1>5 DEF CommandsOf
<1>7. i \in 1..last /\ SubSeq(plan, 1, n)[i] = plan[i]
  BY <1>3, <1>4, <1>6, SubSeqProperties
<1> QED
  BY <1>2, <1>3, <1>6, <1>7 DEF PlanIsRun, Range

LEMMA PolicyInvariant == GrSpec => []PolicyIsRead
<1>1. GrInit => PolicyIsRead
  BY DEF GrInit, GoalOf, PolicyIsRead
<1>2. LifecycleInv /\ PolicyIsRead /\ [GrNext]_grVars => PolicyIsRead'
  BY PolicyIsReadStep
<1> QED
  BY <1>1, <1>2, PlanInvariant, PTL DEF GrSpec

\* docs/WORKFLOW_PACK_CONTRACT.md:31-42 and :91, for every goal file and every
\* sequence of allowlists: what ran is allowed, was approved where the goal asks
\* for it, and is in the goal's path scopes unless the goal was approved.
THEOREM RanWithinPolicyHolds == GrSpec => []RanWithinPolicy
<1>1. LifecycleInv /\ PlanIsRun /\ PolicyIsRead /\ PlanIsValidated => RanWithinPolicy
  <2> SUFFICES ASSUME LifecycleInv, PlanIsRun, PolicyIsRead, PlanIsValidated, NEW c \in Range(ran)
               PROVE  /\ Accepts(c, allowlist)
                      /\ file.always \/ (file.escalation /\ HighRisk(c)) => Granted
                      /\ ~Granted => \A paths \in file.scopes : InScope(c, ScopeOf(paths))
    BY DEF RanWithinPolicy
  <2>1. /\ stage = "lifecycle" /\ ran # <<>> /\ plan = PlannedRules(file)
        /\ \E rule \in Range(plan) : rule.command = c
    BY RanIsPlanned
  <2>2. PICK rule \in Range(PlannedRules(file)) : rule.command = c
    BY <2>1
  <2>3. Accepts(c, allowlist)
    BY <2>1, <2>2 DEF PlanIsValidated, CommandsValid
  <2>4. (NeedsApproval => Granted) /\ ~Rejected
    BY <2>1 DEF PolicyIsRead, LifecycleInv, Approved
  <2>5. file.escalation /\ HighRisk(c) => Escalates(file)
    BY <2>2 DEF Escalates
  <2>6. file.always \/ (file.escalation /\ HighRisk(c)) => Granted
    BY <2>4, <2>5 DEF PolicyIsRead, NeedsApproval
  <2>7. ~Granted => ~Violates(file)
    BY <2>4 DEF PolicyIsRead, Rejected, Granted, LifecycleInv, TypeOK
  <2>8. ~Granted => \A paths \in file.scopes : InScope(c, ScopeOf(paths))
    BY <2>2, <2>7 DEF Violates
  <2> QED
    BY <2>3, <2>6, <2>8
<1> QED
  BY <1>1, PlanInvariant, PolicyInvariant, ValidatedInvariant, PTL

-----------------------------------------------------------------------------
(* A command ends.                                                         *)

LEMMA StepCounts == ASSUME LifecycleInv, PlanIsRun, GrStep PROVE StepsLeft' \in 0..(StepsLeft - 1)
<1>1. /\ RepairBudget \in Nat /\ attempts \in Nat /\ attempts <= RepairBudget
      /\ pc = "repair" => attempts < RepairBudget
      /\ stage # "lifecycle" => pc = "plan"
  BY BudgetArithmetic DEF LifecycleInv, TypeOK, Budgeted, PlanIsRun
<1>2. CASE GrLoad \/ GrValidate
  <2>1. UNCHANGED <<pc, goal, attempts>> /\ pc = "plan"
    BY <1>1, <1>2 DEF GrLoad, GrValidate, vars
  <2>2. RepairBudget' = RepairBudget
    BY <2>1 DEF RepairBudget, planned
  <2>3. \/ stage = "load" /\ stage' \in {"validate", "refused"}
        \/ stage = "validate" /\ stage' \in {"lifecycle", "refused"}
    BY <1>2 DEF GrLoad, GrValidate
  <2> HIDE DEF RepairBudget
  <2> QED
    BY <1>1, <2>1, <2>2, <2>3 DEF StepsLeft
<1>3. CASE GrExecute \/ GrRepair \/ GrOther
  <2>1. /\ stage = "lifecycle" /\ stage' = "lifecycle" /\ goal' = goal
        /\ Execute \/ Repair \/ PreExecutionGuard \/ Verify \/ Finalize \/ Commit
    BY <1>3 DEF GrExecute, GrRepair, GrOther, Execute, Repair, PreExecutionGuard, Verify,
                Finalize, Commit
  <2>2. RepairBudget' = RepairBudget
    BY <2>1 DEF RepairBudget, planned
  <2>3. \/ pc = "plan" /\ pc' \in {"execute", "finalize"} /\ attempts' = attempts
        \/ pc = "execute" /\ pc' = "verify" /\ attempts' = attempts
        \/ pc = "verify" /\ pc' \in {"repair", "finalize"} /\ attempts' = attempts
        \/ pc = "repair" /\ pc' \in {"repair", "finalize"} /\ attempts' = attempts + 1
        \/ pc = "finalize" /\ pc' = "commit" /\ attempts' = attempts
        \/ pc = "commit" /\ pc' = "done" /\ attempts' = attempts
    BY <2>1 DEF Execute, Repair, PreExecutionGuard, Verify, Finalize, Commit
  <2> HIDE DEF RepairBudget
  <2> QED
    BY <1>1, <2>1, <2>2, <2>3 DEF StepsLeft
<1> QED
  BY <1>2, <1>3 DEF GrStep

\* docs/WORKFLOW_PACK_CONTRACT.md:120-122: whatever the goal file and its budget
\* are and however often the verifiers fail, a command takes a bounded number of
\* steps.
THEOREM EveryStepCountsHolds == GrSpec => EveryStepCounts
<1>1. LifecycleInv /\ PlanIsRun /\ [GrNext]_grVars
        => [GrStep => StepsLeft' \in 0..(StepsLeft - 1)]_grVars
  BY StepCounts
<1> QED
  BY <1>1, PlanInvariant, PTL DEF GrSpec, EveryStepCounts
==================================================================================
