------------------------------- MODULE ToolFiles -------------------------------
(***************************************************************************)
(* The tool's changes to files (src/crates/adapters/src/tool.rs and        *)
(* tool_write.rs) and their undo when the commit of the run fails          *)
(* (src/crates/apps/src/run_commit.rs:282-366).  Every change leaves a     *)
(* restore artifact with the contents before it and a patch artifact that  *)
(* names the restore artifact; the undo reads both.                        *)
(*                                                                         *)
(* Artifacts are named by file name, process and millisecond, so two paths *)
(* with one file name, or one path twice, share names within one           *)
(* millisecond.  A path is a file: of a directory no digest can be read    *)
(* (tool_write.rs:127-139), so that every change of one, its removal       *)
(* included, is an error before anything is touched.                       *)
(***************************************************************************)
EXTENDS Naturals, Sequences, FiniteSets

CONSTANTS Paths, FileNames,
          FileName,   \* the file name of a path
          Contents, Absent,
          Cut,        \* what a write that failed half-way leaves
          FlRenames,  \* TRUE: rename replaces a file, FALSE: AlreadyExists
          MaxFlOps, MaxFlFaults, MaxMillis  \* bounds

ASSUME FlAssumption ==
    /\ Paths # {} /\ FileName \in [Paths -> FileNames] /\ {Absent, Cut} \cap Contents = {} /\ Absent # Cut
    /\ FlRenames \subseteq BOOLEAN
    /\ MaxFlOps \in Nat /\ MaxFlFaults \in Nat /\ MaxMillis \in Nat

Artifacts == FileNames \X (0..MaxMillis)
Texts == Contents \cup {Absent, Cut}
NoArtifact == <<>>
Modes == {"restore", "delete_created"}

VARIABLES flReplaces,  \* the platform
          flFile,      \* what is at each path
          flRestores,  \* .axiomrunner/restores; Absent where there is none
          flPatches,   \* .axiomrunner/patches; {} or one record
          flNow,       \* the clock
          flAt, flOp,  \* where the tool is, and in which change
          flSaved,     \* restore_artifact_path of this change
          flDone,      \* the run's patch artifacts, as the tool returned them
          flUsed,      \* changes and faults so far
          flBefore,    \* history: the files when the run began
          flTwice,     \* history: paths changed more than once
          flDirty,     \* history: paths a failing step left as they were then
          flShared     \* history: artifact names used twice

flVars == <<flReplaces, flFile, flRestores, flPatches, flNow, flAt, flOp, flSaved, flDone, flUsed,
            flBefore, flTwice, flDirty, flShared>>

FlOp(kind, p, c) == [kind |-> kind, path |-> p, text |-> c]
FlNoOp == FlOp("none", CHOOSE p \in Paths : TRUE, Absent)

FlInit ==
    /\ flReplaces \in FlRenames
    /\ flFile \in [Paths -> {Absent} \cup Contents] /\ flBefore = flFile
    /\ flRestores = [a \in Artifacts |-> Absent] /\ flPatches = [a \in Artifacts |-> {}]
    /\ flNow = 0 /\ flAt = "idle"
    /\ flOp = FlNoOp
    /\ flSaved = NoArtifact /\ flDone = <<>>
    /\ flUsed = [ops |-> 0, faults |-> 0]
    /\ flTwice = {} /\ flDirty = {} /\ flShared = {}

FlFault == flUsed.faults < MaxFlFaults /\ flUsed' = [flUsed EXCEPT !.faults = @ + 1]
FlReturn == flAt' = "idle" /\ flOp' = FlNoOp /\ flSaved' = NoArtifact
Name == <<FileName[flOp.path], flNow>>

-----------------------------------------------------------------------------
(* The tool.                                                               *)

FlBegin(kind, p, text) ==
    /\ flAt = "idle" /\ flUsed.ops < MaxFlOps
    /\ flUsed' = [flUsed EXCEPT !.ops = @ + 1]
    /\ flOp' = FlOp(kind, p, text)
    /\ flAt' = IF flFile[p] = Absent THEN "change" ELSE "save"
    /\ UNCHANGED <<flReplaces, flFile, flRestores, flPatches, flNow, flSaved, flDone, flBefore,
                   flTwice, flDirty, flShared>>

FlWrite == \E p \in Paths, kind \in {"overwrite", "append"}, c \in Contents : FlBegin(kind, p, c)

\* replace_in_file: a write of the text it made from the file.
FlReplace == \E p \in Paths, c \in Contents : flFile[p] # Absent /\ FlBegin("overwrite", p, c)

\* remove_path of a path that is not there is Ok and leaves no artifact.
FlRemove == \E p \in Paths : flFile[p] # Absent /\ FlBegin("remove", p, Absent)

\* write_file_restore_artifact.
FlSave ==
    /\ flAt = "save"
    /\ flShared' = IF flRestores[Name] = Absent THEN flShared ELSE flShared \cup {Name}
    /\ \/ /\ flRestores' = [flRestores EXCEPT ![Name] = flFile[flOp.path]]
          /\ flSaved' = Name /\ flAt' = "change" /\ UNCHANGED <<flUsed, flOp>>
       \/ /\ FlFault /\ flRestores' = [flRestores EXCEPT ![Name] = Cut]
          /\ FlReturn
    /\ UNCHANGED <<flReplaces, flFile, flPatches, flNow, flDone, flBefore, flTwice, flDirty>>

Set(text) == flFile' = [flFile EXCEPT ![flOp.path] = text]
Spoil == flDirty' = flDirty \cup {flOp.path}

\* atomic_overwrite: temporary file, then rename over the target, which where
\* rename does not replace is removed first; append and remove work in place.
FlChange ==
    /\ flAt = "change"
    /\ \/ /\ flOp.kind # "overwrite" \/ flReplaces \/ flFile[flOp.path] = Absent
          /\ Set(flOp.text) /\ flAt' = "patch"
       \/ /\ flOp.kind = "overwrite" /\ ~flReplaces /\ flFile[flOp.path] # Absent
          /\ Set(Absent) /\ flAt' = "rename"
    /\ UNCHANGED <<flReplaces, flRestores, flPatches, flNow, flOp, flSaved, flDone, flUsed, flBefore,
                   flTwice, flDirty, flShared>>

FlRename ==
    /\ flAt = "rename" /\ Set(flOp.text) /\ flAt' = "patch"
    /\ UNCHANGED <<flReplaces, flRestores, flPatches, flNow, flOp, flSaved, flDone, flUsed, flBefore,
                   flTwice, flDirty, flShared>>

\* The change fails: an overwrite leaves the target, or no target once it was
\* removed; an append may stop half-way.
FlChangeFails ==
    /\ flAt \in {"change", "rename"} /\ FlFault /\ FlReturn
    /\ \/ UNCHANGED flFile
       \/ flOp.kind = "append" /\ Set(Cut)
    /\ IF flFile' = flFile /\ flAt = "change" THEN UNCHANGED flDirty ELSE Spoil
    /\ UNCHANGED <<flReplaces, flRestores, flPatches, flNow, flDone, flBefore, flTwice, flShared>>

\* write_patch_artifact, and the result with its path.
FlPatch ==
    /\ flAt = "patch" /\ FlReturn
    /\ flPatches' = [flPatches EXCEPT ![Name] =
                        {[mode |-> IF flSaved = NoArtifact THEN "delete_created" ELSE "restore",
                          from |-> flSaved]}]
    /\ flShared' = IF flPatches[Name] = {} THEN flShared ELSE flShared \cup {Name}
    /\ flDone' = Append(flDone, [path |-> flOp.path, patch |-> Name, created |-> flSaved = NoArtifact])
    /\ flTwice' = flTwice \cup ({flOp.path} \cap {flDone[i].path : i \in DOMAIN flDone})
    /\ UNCHANGED <<flReplaces, flFile, flRestores, flNow, flUsed, flBefore, flDirty>>

\* The file is changed, the artifact is not there, and the call is an error.
FlPatchFails ==
    /\ flAt = "patch" /\ FlReturn /\ FlFault /\ Spoil
    /\ UNCHANGED <<flReplaces, flFile, flRestores, flPatches, flNow, flDone, flBefore, flTwice, flShared>>

FlTick ==
    /\ flNow < MaxMillis /\ flNow' = flNow + 1
    /\ flAt \notin {"undo", "undone"}
    /\ UNCHANGED <<flReplaces, flFile, flRestores, flPatches, flAt, flOp, flSaved, flDone, flUsed,
                   flBefore, flTwice, flDirty, flShared>>

-----------------------------------------------------------------------------
(* The undo.                                                               *)

FlUndo ==
    /\ flAt = "idle" /\ flAt' = "undo"
    /\ UNCHANGED <<flReplaces, flFile, flRestores, flPatches, flNow, flOp, flSaved, flDone, flUsed,
                   flBefore, flTwice, flDirty, flShared>>

\* cleanup_execution_target: what becomes of the target of artifact d.
Undone(d) ==
    IF flPatches[d.patch] = {}
      THEN IF d.created THEN Absent ELSE flFile[d.path]
      ELSE LET patch == CHOOSE x \in flPatches[d.patch] : TRUE IN
           IF patch.mode = "delete_created" THEN Absent
           ELSE IF flRestores[patch.from] \in {Absent, Cut} THEN flFile[d.path]
           ELSE flRestores[patch.from]

\* Mutant of FlUndoOne: the patch artifact goes first.
FlUndoOnePatchFirst ==
    /\ flAt = "undo" /\ flDone # <<>>
    /\ LET d == Head(flDone) IN
         /\ flFile' = [flFile EXCEPT ![d.path] = IF d.created THEN Absent ELSE @]
         /\ flPatches' = [flPatches EXCEPT ![d.patch] = {}]
    /\ flDone' = Tail(flDone)
    /\ UNCHANGED <<flReplaces, flRestores, flNow, flAt, flOp, flSaved, flUsed, flBefore, flTwice, flDirty, flShared>>

\* cleanup_commit_artifacts: the artifacts in the order of the changes, both
\* artifacts removed behind it.
FlUndoOne ==
    /\ flAt = "undo" /\ flDone # <<>>
    /\ LET d == Head(flDone) IN
         /\ flFile' = [flFile EXCEPT ![d.path] = Undone(d)]
         /\ flRestores' = [a \in Artifacts |->
                              IF \E x \in flPatches[d.patch] : x.mode = "restore" /\ x.from = a
                                THEN Absent ELSE flRestores[a]]
         /\ flPatches' = [flPatches EXCEPT ![d.patch] = {}]
    /\ flDone' = Tail(flDone)
    /\ UNCHANGED <<flReplaces, flNow, flAt, flOp, flSaved, flUsed, flBefore, flTwice, flDirty, flShared>>

\* The restore is written in place and may stop half-way; its error is ignored.
FlUndoFails ==
    /\ flAt = "undo" /\ flDone # <<>> /\ FlFault
    /\ LET d == Head(flDone) IN
         /\ flFile' = [flFile EXCEPT ![d.path] = Cut]
         /\ flPatches' = [flPatches EXCEPT ![d.patch] = {}]
         /\ flDirty' = flDirty \cup {d.path}
    /\ flDone' = Tail(flDone)
    /\ UNCHANGED <<flReplaces, flRestores, flNow, flAt, flOp, flSaved, flBefore, flTwice, flShared>>

FlEnd ==
    /\ flAt = "undo" /\ flDone = <<>> /\ flAt' = "undone"
    /\ UNCHANGED <<flReplaces, flFile, flRestores, flPatches, flNow, flOp, flSaved, flDone, flUsed,
                   flBefore, flTwice, flDirty, flShared>>

FlNext ==
    \/ FlWrite \/ FlReplace \/ FlRemove \/ FlSave \/ FlChange \/ FlRename \/ FlChangeFails \/ FlPatch \/ FlPatchFails
    \/ FlTick \/ FlUndo \/ FlUndoOne \/ FlUndoFails \/ FlEnd

FlSpec == FlInit /\ [][FlNext]_flVars
-----------------------------------------------------------------------------
(* Properties.                                                             *)

FlTypeOK ==
    /\ flReplaces \in BOOLEAN
    /\ flFile \in [Paths -> Texts] /\ flBefore \in [Paths -> Texts]
    /\ flRestores \in [Artifacts -> Texts]
    /\ flPatches \in [Artifacts -> SUBSET [mode : Modes, from : Artifacts \cup {NoArtifact}]]
    /\ flNow \in 0..MaxMillis
    /\ flAt \in {"idle", "save", "change", "rename", "patch", "undo", "undone"}
    /\ flOp \in [kind : {"none", "overwrite", "append", "remove"}, path : Paths,
                 text : Contents \cup {Absent}]
    /\ flSaved \in Artifacts \cup {NoArtifact}
    /\ flDone \in Seq([path : Paths, patch : Artifacts, created : BOOLEAN])
    /\ flUsed \in [ops : 0..MaxFlOps, faults : 0..MaxFlFaults]
    /\ flTwice \subseteq Paths /\ flDirty \subseteq Paths /\ flShared \subseteq Artifacts

\* The undo gives every path the contents it had before the run, whatever
\* changes, failing steps and clock ticks there were on other paths; except a
\* path the run changed twice (the undo goes forward and ends with what the
\* first change wrote, run_commit.rs:295), one whose artifact names were used
\* twice, and one a failing step left without its artifact.
UndoRestoresFiles ==
    flAt = "undone" =>
        \A p \in Paths \ (flTwice \cup flDirty) :
            (\A a \in flShared : a[1] # FileName[p]) => flFile[p] = flBefore[p]
=============================================================================
