------------------------------- MODULE MCAdapters -------------------------------
(***************************************************************************)
(* Instances of the adapters' modules for TLC.  They share nothing, so one *)
(* of them moves in a behaviour and the others stay where they start.      *)
(***************************************************************************)
EXTENDS MarkdownMemory, SqliteMemory, ProviderSessions, ToolFiles

CONSTANTS k1, k2, v1, v2, moduleA, moduleB, textA, textB

VARIABLE part

MCKeys == {k1, k2}
MCTerms == {"key", "x", "y"}

\* A term of the key, one of both values, one of one value.
MCTermsOf ==
    [p \in MCKeys \X {v1, v2, CutValue} |->
        (IF p[1] = k1 THEN {"key"} ELSE {}) \cup
        (CASE p[2] = v1 -> {"x"} [] p[2] = v2 -> {"x", "y"} [] OTHER -> {})]

\* Two files of one name in two directories.
MCHosts == [timeout : BOOLEAN, permits : {1, 2}]
MCPaths == {moduleA, moduleB}
MCFileName == [p \in MCPaths |-> "mod.rs"]

\* The settings and the files at the beginning vary in the part that moves; the
\* files hold textA or are absent, both contents are written later.
Init ==
    /\ part \in {"markdown", "sqlite", "provider", "files"}
    /\ MdInit /\ (part = "markdown" \/ mdReplaces)
    /\ SqInit
    /\ PvInit /\ (part = "provider" \/ pvHost = CHOOSE h \in PvHosts : TRUE)
    /\ FlInit /\ (\A p \in Paths : flFile[p] # textB) /\ (part = "files" \/ (flReplaces /\ \A p \in Paths : flFile[p] = Absent))

Next ==
    /\ UNCHANGED part
    /\ \/ part = "markdown" /\ MdNext /\ UNCHANGED <<sqVars, pvVars, flVars>>
       \/ part = "sqlite" /\ SqNext /\ UNCHANGED <<mdVars, pvVars, flVars>>
       \/ part = "provider" /\ PvNext /\ UNCHANGED <<mdVars, sqVars, flVars>>
       \/ part = "files" /\ FlNext /\ UNCHANGED <<mdVars, sqVars, pvVars>>

vars == <<part, mdVars, sqVars, pvVars, flVars>>

Spec == Init /\ [][Next]_vars /\ PvFairness

\* Every adapter's variables keep their types.
AdaptersTypeOK == MdTypeOK /\ SqTypeOK /\ PvTypeOK /\ FlTypeOK
=================================================================================
