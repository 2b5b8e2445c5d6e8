------------------------------- MODULE MCGoalRun -------------------------------
(* Goal files, packs and allowlists for TLC. *)
EXTENDS GoalRun, TLC

CONSTANTS noTokens, noPack

MCFlags == {"--files", "-n", "--short"}
MCUnsafe == {"a;b"}
MCUpward == {"../notes"}
MCPathOf == [a \in {".", "src", "src/lib", "notes", "../notes", "a;b"} |->
                CASE a = "src/lib" -> <<"src", "lib">>
                  [] a = "../notes" -> <<"..", "notes">>
                  [] OTHER -> <<a>>]

Cmd(program, args) == [program |-> program, args |-> args]
Test == Cmd("cargo", <<"test">>)
Build == Cmd("cargo", <<"build">>)
Status == Cmd("git", <<"status", "--short">>)
Check(tokens, mentions) == [tokens |-> tokens, mentions |-> mentions]

\* Details that are commands, prose, a command that is refused and an open quote.
TestCheck == Check(Test, {"test"})
BuildCheck == Check(Build, {"build"})
StatusCheck == Check(Status, {})
CatCheck == Check(Cmd("cat", <<"notes">>), {})
ListCheck == Check(Cmd("ls", <<"src/lib">>), {})
ProseCheck == Check(Cmd("tests", <<"are", "green">>), {"test"})
RefusedCheck == Check(Cmd("cat", <<"../notes">>), {})
PackCheck == Check(noTokens, {"lint", "pack"})

\* Sequences of checks for queues of 2, 3, 6 and 7 with one or two conditions.
CheckLists ==
    {<<TestCheck>>, <<CatCheck>>, <<ProseCheck>>, <<RefusedCheck>>, <<PackCheck>>,
     <<TestCheck, TestCheck>>, <<StatusCheck, CatCheck>>, <<ListCheck, ProseCheck>>,
     <<TestCheck, BuildCheck, StatusCheck, BuildCheck, TestCheck>>,
     <<ProseCheck, BuildCheck, TestCheck, PackCheck, ListCheck>>}

Rule(profile, cmd, strength) ==
    [profile |-> profile, command |-> cmd, strength |-> strength]
Pack(flow, rules) ==
    [wellFormed |-> TRUE, tools |-> {"run_command"}, flow |-> flow, rules |-> rules]

\* A flow that leaves a rule out, one that names a profile twice, a rule that is
\* not resolved, and packs that are refused.
Skips == Pack(<<"build">>, <<Rule("test", Test, "strong"), Rule("build", Build, "strong")>>)
Repeats == Pack(<<"test", "lint", "test">>,
                <<Rule("test", Test, "strong"), Rule("test", Status, "strong")>>)
Unresolved == Pack(<<"generic">>, <<Rule("generic", Test, "unresolved")>>)
Shell == Pack(<<"test">>, <<Rule("test", Cmd("sh", <<>>), "strong")>>)
Reads == [Skips EXCEPT !.tools = {"read_file"}]
Broken == [Skips EXCEPT !.wellFormed = FALSE]

ReportThere == [kind |-> "report_artifact_exists"]
TestRan == [kind |-> "command_exit_zero", line |-> <<"cargo", "test">>]
Changed(path) == [kind |-> "path_changed", path |-> path]

File(checks, pack, conditions, scopes, escalation, always, maxSteps, tokensFit) ==
    [wellFormed |-> TRUE, conditions |-> conditions, checks |-> checks,
     pack |-> pack, scopes |-> scopes, denyDestructive |-> TRUE, denyExternal |-> TRUE,
     escalation |-> escalation, always |-> always, maxSteps |-> maxSteps,
     tokensFit |-> tokensFit]

\* Goals with checks of their own.
PlainFiles ==
    {File(checks, noPack, conditions, scopes, escalation, always, maxSteps, TRUE) :
        checks \in CheckLists,
        conditions \in {<<ReportThere>>, <<TestRan, Changed(<<".", "src">>)>>},
        scopes \in {{}, {{<<"src">>}, {}}},
        escalation \in BOOLEAN, always \in BOOLEAN, maxSteps \in {5, 7, 10}}

PackFiles ==
    {File(<<TestCheck>>, pack, <<ReportThere>>, {}, escalation, FALSE, maxSteps, tokensFit) :
        pack \in {Skips, Repeats, Unresolved, Shell, Reads, Broken},
        escalation \in BOOLEAN, maxSteps \in {4, 6}, tokensFit \in BOOLEAN}

One == File(<<TestCheck>>, noPack, <<ReportThere>>, {}, FALSE, TRUE, 6, TRUE)
BadFiles ==
    {[One EXCEPT !.wellFormed = FALSE], [One EXCEPT !.conditions = <<>>],
     [One EXCEPT !.checks = <<>>], [One EXCEPT !.maxSteps = 0],
     [One EXCEPT !.conditions = <<Changed(<<"..", "src">>)>>],
     [One EXCEPT !.conditions = <<Changed(<<"", "src">>)>>],
     [One EXCEPT !.conditions = <<Changed(<<".">>)>>],
     [One EXCEPT !.conditions = <<[kind |-> "command_exit_zero", line |-> <<>>]>>],
     [One EXCEPT !.conditions = <<[kind |-> "done_when_done"]>>]}

MCFiles == PlainFiles \cup PackFiles \cup BadFiles

\* The product's allowlist, and one without git and ls.
MCAllowlists == {ProductAllowlist, {"cargo", "cat", "rg"}}

\* Every goal that loads is one that the lifecycle can be given.
ASSUME FilesAreGoals ==
    \A f \in MCFiles : Loads(f) => GoalOf(f, TRUE) \in Goals

\* The files of the violation run: one that reads outside of its path_scope.
MCScopeFiles ==
    {File(<<CatCheck>>, noPack, <<ReportThere>>, {{<<"src">>}}, FALSE, always, 6, TRUE) :
        always \in BOOLEAN}
=================================================================================
