------------------------------ MODULE GoalContract ------------------------------
(***************************************************************************)
(* What a goal file and its workflow pack mean: when they load, which      *)
(* verifier commands they plan, which commands are valid, and what the     *)
(* enforced constraints say of them (goal_file.rs, intent.rs,              *)
(* workflow_pack.rs, runtime_compose/plan.rs and the command policy of     *)
(* tool.rs).                                                               *)
(*                                                                         *)
(* A command is a program and its arguments.  What the code looks for in   *)
(* the text of an argument is a constant: whether it starts with a dash,   *)
(* holds a character that is refused, and which path it is.                *)
(***************************************************************************)
EXTENDS Naturals, Sequences, FiniteSets, SequencesExt

CONSTANTS Flags,      \* arguments that start with '-'
          Unsafe,     \* arguments with a NUL, ';', '&' or '|', and the empty one
          Upward,     \* arguments with ".."
          PathOf,     \* the path an argument names: its segments, without the
                      \* slashes at both ends
          NoTokens,   \* a detail that cannot be split: an open quote
          NoPack      \* the goal file names no workflow pack

ASSUME ArgumentTexts == Unsafe \cap Flags = {}

ProductAllowlist ==
    {"pwd", "git", "cargo", "npm", "node", "python", "python3", "pytest", "rg",
     "ls", "cat", "pnpm", "yarn", "uv", "make"}

Profiles == {"build", "test", "lint", "generic"}

\* classify_run_command_class.  (Of a program with a path, ./x, no arguments are
\* accepted.)
CommandClass(program) ==
    IF program \in {"rm", "mv"} THEN "destructive"
    ELSE IF program \in ProductAllowlist \cup {"sh", "bash"} THEN "workspace_local"
    ELSE "external"

\* validate_run_command_policy.
ProgramAllowed(program, allowlist) ==
    /\ program \notin {"", "sh", "bash"}
    /\ CommandClass(program) = "workspace_local"
    /\ program \in allowlist

SafePath(arg) == arg \notin Flags \cup Unsafe \cup Upward
SafeCli(arg) == arg \notin Unsafe
AllArgs(args, Safe(_)) == \A i \in DOMAIN args : Safe(args[i])

PackageTargets == {"lint", "build", "typecheck"}
Runs == {<<"run", target>> : target \in PackageTargets}
Targets == {<<target>> : target \in PackageTargets}

\* validate_run_command_args, one table per program.
ArgsAllowed(program, args) ==
    CASE program = "pwd" -> args = <<>>
      [] program \in {"ls", "cat"} -> AllArgs(args, SafePath)
      [] program = "rg" ->
           AllArgs(args, LAMBDA a : SafePath(a) \/ a \in {"--files", "-n"})
      [] program = "git" ->
           args \in {<<"status">>, <<"status", "--short">>, <<"diff", "--name-only">>,
                     <<"rev-parse", "--show-toplevel">>}
      [] program = "cargo" ->
           /\ args # <<>> /\ args[1] \in {"build", "test", "clippy", "fmt"}
           /\ AllArgs(Tail(args), SafeCli)
      [] program = "npm" -> args \in {<<"install", "--ignore-scripts">>, <<"test">>} \cup Runs
      [] program = "pnpm" -> args \in {<<"test">>} \cup Runs
      [] program = "yarn" -> args \in {<<"test">>} \cup Runs \cup Targets
      [] program \in {"python", "python3"} ->
           \/ /\ Len(args) >= 2 /\ args[1] = "-m"
              /\ args[2] \in {"compileall", "unittest", "py_compile"}
              /\ AllArgs(SubSeq(args, 3, Len(args)), LAMBDA a : SafePath(a) \/ SafeCli(a))
           \/ Len(args) = 1 /\ SafePath(args[1])
      [] program = "node" -> Len(args) = 1 /\ SafePath(args[1])
      [] program = "pytest" -> AllArgs(args, LAMBDA a : SafePath(a) \/ SafeCli(a))
      [] program = "uv" ->
           /\ Len(args) >= 2 /\ args[1] = "run"
           /\ AllArgs(Tail(args), LAMBDA a : SafePath(a) \/ SafeCli(a))
      [] program = "make" -> args \in Targets
      [] OTHER -> FALSE

\* validate_run_command_spec: the same check when a pack is loaded, when a
\* command of the goal is planned, and in run_command itself.
Accepts(command, allowlist) ==
    /\ ProgramAllowed(command.program, allowlist)
    /\ ArgsAllowed(command.program, command.args)

\* classify_tool_request_risk of a RunCommand.
HighRisk(command) == command.program \in {"git", "rm", "mv"}

-----------------------------------------------------------------------------
\* verifier_profile_for_detail: the first word the detail mentions.
ProfileOf(check) ==
    IF "lint" \in check.mentions THEN "lint"
    ELSE IF "build" \in check.mentions THEN "build"
    ELSE IF "test" \in check.mentions THEN "test"
    ELSE "generic"

\* fallback_verifier_probe.
Probe(profile) ==
    IF profile = "generic" THEN [program |-> "ls", args |-> <<".">>]
    ELSE [program |-> "rg", args |-> <<"--files", ".">>]

\* parse_command_detail: the tokens are a command the product accepts.
IsCommand(check) == check.tokens # NoTokens /\ Accepts(check.tokens, ProductAllowlist)

\* Mutant of RuleOfCheck: a probe counts like the command it stands for.
RuleOfCheckStrongProbe(check) ==
    [profile  |-> ProfileOf(check),
     command  |-> IF IsCommand(check) THEN check.tokens ELSE Probe(ProfileOf(check)),
     strength |-> "strong"]

\* unresolved_verifier_strength: the detail of a goal that loaded is not blank.
UnresolvedStrength(check) == IF "pack" \in check.mentions THEN "pack_required" ELSE "weak"

\* derive_default_verifier_command.
RuleOfCheck(check) ==
    [profile  |-> ProfileOf(check),
     command  |-> IF IsCommand(check) THEN check.tokens ELSE Probe(ProfileOf(check)),
     strength |-> IF IsCommand(check) THEN "strong" ELSE UnresolvedStrength(check)]

\* recommended_goal_verifier_flow: the profiles in the order of the checks.
FlowOfChecks(checks) ==
    LET profiles == [i \in DOMAIN checks |-> ProfileOf(checks[i])]
        firsts   == {i \in DOMAIN checks : \A j \in 1..(i - 1) : profiles[j] # profiles[i]}
        nth(n)   == CHOOSE i \in firsts : Cardinality(firsts \cap 1..i) = n
    IN  IF checks = <<>> THEN <<"generic">>
        ELSE [n \in 1..Cardinality(firsts) |-> profiles[nth(n)]]

\* goal_workflow_pack: the pack of the goal file, or the default one.
PackOf(f) ==
    IF f.pack # NoPack THEN f.pack
    ELSE [flow     |-> FlowOfChecks(f.checks),
          rules    |-> [i \in DOMAIN f.checks |-> RuleOfCheck(f.checks[i])],
          tools    |-> {"read_file", "search_files", "file_write", "replace_in_file",
                        "run_command"},
          wellFormed |-> TRUE]

\* The turn of the flow that takes rule i: behind those before the first with
\* its profile, which are all of them where no profile of the flow is the rule's.
Turn(pack, i) ==
    1 + Cardinality({n \in DOMAIN pack.flow :
                        \A m \in 1..n : pack.flow[m] # pack.rules[i].profile})

\* Mutant of RuleOrder: the rules already taken are not marked as used.
RuleOrderUnmarked(pack) ==
    LET rules(Taken(_)) == SelectSeq([i \in DOMAIN pack.rules |-> i], Taken)
    IN  FlattenSeq([n \in 1..Len(pack.flow) |-> rules(LAMBDA i : pack.rules[i].profile = pack.flow[n])])
        \o rules(LAMBDA i : Turn(pack, i) > Len(pack.flow))

\* goal_verifier_tool_plan: the rules of the flow's profiles in turn, then the
\* rules that no profile of the flow took, each time in the order of the pack.
RuleOrder(pack) ==
    LET turns == {<<Turn(pack, i), i>> : i \in DOMAIN pack.rules}
        place(p) == Cardinality({q \in turns : q[1] < p[1] \/ (q[1] = p[1] /\ q[2] <= p[2])})
    IN  [n \in DOMAIN pack.rules |-> (CHOOSE p \in turns : place(p) = n)[2]]

\* The commands of the plan, in the order in which they run.
PlannedRules(f) ==
    LET pack  == PackOf(f)
        order == RuleOrder(pack)
    IN  [i \in DOMAIN order |-> pack.rules[order[i]]]

-----------------------------------------------------------------------------
\* WorkspaceRelativePath::parse, of a path cut at its slashes: an absolute one
\* starts with an empty segment.
PathParses(path) ==
    /\ path[1] # "" /\ ".." \notin Range(path)
    /\ \E i \in DOMAIN path : path[i] \notin {"", "."}

\* DoneConditionEvidence::parse.
EvidenceParses(evidence) ==
    \/ evidence.kind = "report_artifact_exists"
    \/ evidence.kind \in {"file_exists", "path_changed"} /\ PathParses(evidence.path)
    \/ evidence.kind = "command_exit_zero" /\ evidence.line # <<>>

\* RunGoal::validate and RunBudget::validate; wellFormed stands for the labels,
\* details and texts that may not be blank.
GoalValid(f) ==
    /\ f.wellFormed
    /\ f.conditions # <<>> /\ f.checks # <<>>
    /\ \A i \in DOMAIN f.conditions : EvidenceParses(f.conditions[i])
    /\ f.maxSteps > 0

\* WorkflowPackContract::validate; wellFormed stands for its texts and for the
\* operations and the scope of its tools.
PackValid(pack) ==
    pack.wellFormed /\ pack.flow # <<>> /\ pack.tools # {} /\ pack.rules # <<>>

\* validate_loaded_workflow_pack: whatever the operator allows, the commands of a
\* pack are commands of the product, and the pack says that it runs commands.
PackLoads(pack) ==
    /\ PackValid(pack)
    /\ "run_command" \in pack.tools
    /\ \A i \in DOMAIN pack.rules : Accepts(pack.rules[i].command, ProductAllowlist)

\* parse_goal_file_template.
Loads(f) == GoalValid(f) /\ (f.pack # NoPack => PackLoads(f.pack))

\* Mutant of CommandsValid: validated against what the product allows.
CommandsValidForProduct(rules, allowlist) ==
    \A rule \in Range(rules) : Accepts(rule.command, ProductAllowlist)

\* validate_template_commands, with the allowlist of the tool.
CommandsValid(rules, allowlist) ==
    \A rule \in Range(rules) : Accepts(rule.command, allowlist)

\* command_scope_candidates: only ls, cat and rg have paths to look at.
Candidates(command) ==
    IF command.program \in {"ls", "cat", "rg"}
      THEN {PathOf[a] : a \in {b \in Range(command.args) : b \notin Flags}}
      ELSE {}

\* parse_path_scope_constraint: nothing stands for the workspace.
ScopeOf(paths) == IF paths = {} THEN {<<".">>} ELSE paths

\* path_scope_allows_command.
InScope(command, scope) ==
    \A path \in Candidates(command) :
        path = <<".">> \/ \E prefix \in scope : prefix = <<".">> \/ IsPrefix(prefix, path)

\* constraint_policy_violation.
Violates(f) ==
    \E rule \in Range(PlannedRules(f)) :
        LET command == rule.command
        IN  \/ \E paths \in f.scopes : ~InScope(command, ScopeOf(paths))
            \/ f.denyDestructive /\ CommandClass(command.program) = "destructive"
            \/ f.denyExternal /\ CommandClass(command.program) = "external"

\* Mutant of Escalates: asks for a plan that is all of high risk.
EscalatesOnAll(f) ==
    f.escalation /\ \A rule \in Range(PlannedRules(f)) : HighRisk(rule.command)

\* constraint_requires_pre_execution_approval.
Escalates(f) ==
    f.escalation /\ \E rule \in Range(PlannedRules(f)) : HighRisk(rule.command)
=================================================================================
