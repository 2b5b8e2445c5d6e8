--------------------------------- MODULE GoalRun ---------------------------------
(***************************************************************************)
(* RunLifecycle for the goals that goal files describe: a `run` or         *)
(* `resume` reads the file, refuses it or its commands, or goes through    *)
(* the lifecycle with the commands the file plans                          *)
(* (cli_runtime/run_session.rs).  The tool checks each command again       *)
(* before it starts it.                                                    *)
(***************************************************************************)
EXTENDS RunLifecycle, GoalContract

CONSTANTS Files,       \* goal files
          Allowlists   \* what an operator may allow; the product's by default

\* A file's checks, and its pack's flow and rules, are lists.
ASSUME FilesAssumption ==
    \A f \in Files :
        /\ f.checks \in Seq(Range(f.checks))
        /\ f.pack # NoPack =>
             f.pack.flow \in Seq(Range(f.pack.flow)) /\ f.pack.rules \in Seq(Range(f.pack.rules))

VARIABLES file,        \* the goal file on disk
          allowlist,   \* the operator's command allowlist of this command
          plan,        \* the verifier commands that the file plans
          stage,       \* "load", "validate", "lifecycle", "refused"
          ran,         \* commands of the last pass that left their evidence
          denied       \* history: run_command denied a command of the plan

grVars == <<vars, file, allowlist, plan, stage, ran, denied>>

CommandsOf(rules) == [i \in DOMAIN rules |-> rules[i].command]
Line(c) == <<c.program>> \o c.args

\* goal_done_condition_failure asks whether a verifier with just that command
\* line ended with 0; it is asked when the whole plan did.
CommandConditionsMet(f) ==
    \A i \in DOMAIN f.conditions :
        f.conditions[i].kind = "command_exit_zero" =>
            \E rule \in Range(PlannedRules(f)) : Line(rule.command) = f.conditions[i].line

\* What the lifecycle reads of a goal file.  Whether the files and reports of
\* the other done conditions are there is a choice.
GoalOf(f, met) ==
    [queue |-> Len(f.conditions) + Len(f.checks), maxSteps |-> f.maxSteps,
     tokensFit |-> f.tokensFit, always |-> f.always,
     escalates |-> Escalates(f), violates |-> Violates(f),
     strengths |-> {rule.strength : rule \in Range(PlannedRules(f))},
     conditionsMet |-> met /\ CommandConditionsMet(f)]

GrInit ==
    /\ file \in Files
    /\ allowlist \in Allowlists
    /\ \E met \in BOOLEAN : goal = GoalOf(file, met)
    /\ Init
    /\ plan = <<>> /\ stage = "load" /\ ran = <<>> /\ denied = FALSE

\* parse_goal_file_template, before anything else.
GrLoad ==
    /\ stage = "load"
    /\ IF Loads(file) THEN stage' = "validate" /\ plan' = PlannedRules(file)
                       ELSE stage' = "refused" /\ UNCHANGED plan
    /\ UNCHANGED <<vars, file, allowlist, ran, denied>>

\* The `?` after validate_template_commands: the command returns an error and
\* nothing was executed or saved.
GrValidate ==
    /\ stage = "validate"
    /\ stage' = IF CommandsValid(plan, allowlist) THEN "lifecycle" ELSE "refused"
    /\ UNCHANGED <<vars, file, allowlist, plan, ran, denied>>

\* execute_tool: the commands up to n left evidence.  The pass ended with the
\* plan, with the exit code of the last one, or with one that left none: it was
\* denied or killed.
RunUpTo(n) ==
    /\ \A i \in 1..n : Accepts(plan[i].command, allowlist)
    /\ \/ tool' = "applied" /\ n + 1 \notin DOMAIN plan /\ UNCHANGED denied
       \/ tool' = "failed" /\ n > 0 /\ UNCHANGED denied
       \/ /\ tool' = "failed" /\ n + 1 \in DOMAIN plan
          /\ denied' = (denied \/ ~Accepts(plan[n + 1].command, allowlist))

StrengthsUpTo(n) == {plan[i].strength : i \in 1..n}

GrExecute ==
    /\ stage = "lifecycle" /\ Execute
    /\ IF toolRuns' = toolRuns
         THEN UNCHANGED <<ran, denied>>
         ELSE \E n \in 0..Len(plan) :
                RunUpTo(n) /\ evidence' = StrengthsUpTo(n) /\ ran' = CommandsOf(SubSeq(plan, 1, n))
    /\ UNCHANGED <<file, allowlist, plan, stage>>

\* A repair that fails leaves what the pass before it left.
GrRepair ==
    /\ stage = "lifecycle" /\ Repair
    /\ IF toolRuns' = toolRuns
         THEN UNCHANGED <<ran, denied>>
         ELSE \E n \in 0..Len(plan) :
                /\ RunUpTo(n)
                /\ ran' = IF tool' = "applied" THEN CommandsOf(SubSeq(plan, 1, n)) ELSE ran
    /\ UNCHANGED <<file, allowlist, plan, stage>>

GrOther ==
    /\ stage = "lifecycle"
    /\ PreExecutionGuard \/ Verify \/ Finalize \/ Commit
    /\ UNCHANGED <<file, allowlist, plan, stage, ran, denied>>

\* The operator approves: the file is read again, under what the operator
\* allows by now.  A waiting run whose file was refused goes on waiting.
GrResume ==
    /\ \/ stage = "lifecycle" /\ Resume
       \/ stage = "refused" /\ command = "resume" /\ UNCHANGED vars
    /\ allowlist' \in Allowlists
    /\ stage' = "load" /\ plan' = <<>> /\ ran' = <<>>
    /\ UNCHANGED <<file, denied>>

GrStep == GrLoad \/ GrValidate \/ GrExecute \/ GrRepair \/ GrOther

GrNext == GrStep \/ GrResume

\* One thread, and every command it waits for ends (CommandRunner!CommandEnds:
\* unless a process that outlives it holds its output).
GrSpec == GrInit /\ [][GrNext]_grVars /\ WF_grVars(GrStep)
-----------------------------------------------------------------------------
GrTypeOK ==
    /\ TypeOK
    /\ file \in Files /\ allowlist \in Allowlists
    /\ stage \in {"load", "validate", "lifecycle", "refused"}
    /\ \E n \in 0..Len(plan) : ran = CommandsOf(SubSeq(plan, 1, n))
    /\ denied \in BOOLEAN

\* docs/WORKFLOW_PACK_CONTRACT.md:58-63: a run that ends in success ran, once
\* each, all verifier commands of its goal: the command of every check's own
\* detail, no probe in its place, or every rule of its pack, whatever the flow
\* lists or leaves out.
SuccessRanEveryVerifier ==
    outcome = "success" /\ pc = "done" =>
        LET wanted == IF file.pack = NoPack
                        THEN [i \in DOMAIN file.checks |-> file.checks[i].tokens]
                        ELSE CommandsOf(file.pack.rules)
            times(commands, c) == Cardinality({i \in DOMAIN commands : commands[i] = c})
        IN  \A c \in Range(wanted) \cup Range(ran) : times(ran, c) = times(wanted, c)

\* docs/WORKFLOW_PACK_CONTRACT.md:31-42 and :91, what holds of them (see
\* ConstraintsAreEnforced for the rest): a verifier command that ran is one the
\* operator allows; it was approved when the goal asks for approval always, or when
\* the goal escalates and it is of high risk; and unless the goal was approved, it
\* is in each of the goal's path scopes.
RanWithinPolicy ==
    \A c \in Range(ran) :
        /\ Accepts(c, allowlist)
        /\ file.always \/ (file.escalation /\ HighRisk(c)) => Granted
        /\ ~Granted => \A paths \in file.scopes : InScope(c, ScopeOf(paths))

\* The allowlist that a goal is validated with is the one its commands meet in
\* the tool, also after an approval under another allowlist: no pass of the
\* verifiers stops halfway because a command is denied.
NothingIsDeniedMidRun == ~denied

\* docs/WORKFLOW_PACK_CONTRACT.md:120-122: every command reaches its outcome or is
\* refused, however often its verifiers fail and it is resumed.
CommandsEnd == []<>(stage = "refused" \/ pc = "done")

\* How many steps a command has left: reading and validating the file, then the
\* phases of the lifecycle, of which each repair attempt is one.
StepsLeft ==
    LET phases == CASE pc = "plan"     -> RepairBudget + 6
                    [] pc = "execute"  -> RepairBudget + 5
                    [] pc = "verify"   -> RepairBudget + 4
                    [] pc = "repair"   -> RepairBudget - attempts + 3
                    [] pc = "finalize" -> 2
                    [] pc = "commit"   -> 1
                    [] pc = "done"     -> 0
    IN  CASE stage = "load"      -> phases + 2
          [] stage = "validate"  -> phases + 1
          [] stage = "lifecycle" -> phases
          [] stage = "refused"   -> 0

\* docs/WORKFLOW_PACK_CONTRACT.md:120-122 as a bound: a command has at most
\* RepairBudget + 8 steps, and each that it takes is one less to take.
EveryStepCounts == [][GrStep => StepsLeft' \in 0..(StepsLeft - 1)]_grVars
===================================================================================
