---------------------------- MODULE MarkdownMemory ----------------------------
(***************************************************************************)
(* The Markdown memory (src/crates/adapters/src/memory_markdown.rs).  Each *)
(* process that opens it loads the file, writes it back at once, keeps     *)
(* records and index in memory, and for every change writes the whole text *)
(* to memory.tmp and renames it over the file.                             *)
(*                                                                         *)
(* A process opens the memory when it builds its runtime, before it has    *)
(* the workspace lock; read-only commands do so too and never take it      *)
(* (cli_runtime.rs:95).  Two of them share memory.tmp.                     *)
(***************************************************************************)
EXTENDS MemoryIndex

CONSTANTS MdAdapters,   \* processes, each with an adapter
          MdRenames,    \* TRUE: rename replaces a file, FALSE: AlreadyExists
          NoFile, Unreadable,  \* no file; one load_markdown_records rejects
          MaxMdOps, MaxMdFaults, MaxMdKills  \* bounds

ASSUME MdAssumption ==
    /\ {NoFile, Unreadable} \cap Maps = {} /\ NoFile # Unreadable
    /\ MdRenames \subseteq BOOLEAN
    /\ MaxMdOps \in Nat /\ MaxMdFaults \in Nat /\ MaxMdKills \in Nat

VARIABLES mdReplaces,  \* the platform
          mdFile, mdTmp,  \* the texts in the file and in memory.tmp
          mdAt,        \* where a process is
          mdDoing,     \* the operation it is in
          mdRecords, mdIndex,  \* state.records, state.index
          mdNext,      \* next_records and next_index
          mdWrites,    \* what its open descriptor points to: "tmp", "file",
                       \* or "gone"
          mdUsed,      \* operations, faults, kills so far
          mdAcked,     \* history: what operations that returned Ok left
          mdShared     \* history: two processes had it open at a time

mdDisk == <<mdFile, mdTmp>>
mdVars == <<mdReplaces, mdDisk, mdAt, mdDoing, mdRecords, mdIndex, mdNext, mdWrites, mdUsed,
            mdAcked, mdShared>>

Copy(m, i) == [map |-> m, index |-> i]
Op(kind, keys, v) == [kind |-> kind, keys |-> keys, value |-> v]
NoOp == Op("none", {}, NoValue)
NoCopy == Copy(EmptyMap, EmptyIndex)

-----------------------------------------------------------------------------
(* Texts.                                                                  *)

Loaded == IF mdFile = NoFile THEN EmptyMap ELSE mdFile

\* What load_markdown_records reads from the beginning of a text: some of its
\* records, the last one perhaps with a cut value, or an error.
CutText(m) ==
    {c \in Maps : \A k \in Keys : c[k] = NoValue \/ (m[k] # NoValue /\ c[k] \in {m[k], CutValue})}
      \cup {Unreadable}

\* A text written from the start of a file that is not empty: records behind
\* its end are read as well, and the last line of a key counts.
TextOver(old, new) ==
    IF old = Unreadable
      THEN {m \in Maps : \A k \in Keys : m[k] = new[k] \/ m[k] # NoValue} \cup {Unreadable}
      ELSE {m \in Maps : \A k \in Keys : m[k] = new[k] \/ (m[k] = old[k] /\ old[k] # NoValue)}

-----------------------------------------------------------------------------
MdInit ==
    /\ mdReplaces \in MdRenames
    /\ mdFile = NoFile /\ mdTmp = NoFile
    /\ mdAt = [a \in MdAdapters |-> "closed"]
    /\ mdDoing = [a \in MdAdapters |-> NoOp]
    /\ mdRecords = [a \in MdAdapters |-> EmptyMap]
    /\ mdIndex = [a \in MdAdapters |-> EmptyIndex]
    /\ mdNext = [a \in MdAdapters |-> NoCopy]
    /\ mdWrites = [a \in MdAdapters |-> "gone"]
    /\ mdUsed = [ops |-> 0, faults |-> 0, kills |-> 0]
    /\ mdAcked = EmptyMap /\ mdShared = FALSE

MdGo(a, place) == mdAt' = [mdAt EXCEPT ![a] = place]
MdCount(what, max) == mdUsed[what] < max /\ mdUsed' = [mdUsed EXCEPT ![what] = @ + 1]
OthersOpen(a) == \E b \in MdAdapters \ {a} : mdAt[b] # "closed"

\* The operation returns an error; records and index stay.
MdFail(a) ==
    /\ MdGo(a, IF mdDoing[a].kind = "open" THEN "closed" ELSE "idle")
    /\ mdDoing' = [mdDoing EXCEPT ![a] = NoOp]
    /\ mdNext' = [mdNext EXCEPT ![a] = NoCopy]
    /\ mdWrites' = [mdWrites EXCEPT ![a] = "gone"]

\* The process is gone, with its copy.
MdGone(a) ==
    /\ MdGo(a, "closed")
    /\ mdRecords' = [mdRecords EXCEPT ![a] = EmptyMap]
    /\ mdIndex' = [mdIndex EXCEPT ![a] = EmptyIndex]

-----------------------------------------------------------------------------
(* The operations, up to the text they write.                              *)

\* new: without a file, or with one it can read, the text is written back; a
\* file it cannot read is an error, and the process works without a memory.
MdOpen(a) ==
    /\ mdAt[a] = "closed" /\ MdCount("ops", MaxMdOps)
    /\ IF Loaded = Unreadable
         THEN UNCHANGED <<mdAt, mdDoing, mdNext, mdShared>>
         ELSE /\ MdGo(a, "truncate")
              /\ mdDoing' = [mdDoing EXCEPT ![a] = Op("open", {}, NoValue)]
              /\ mdNext' = [mdNext EXCEPT ![a] = Copy(Loaded, FromRecords(Loaded))]
              /\ mdShared' = (mdShared \/ OthersOpen(a))
    /\ UNCHANGED <<mdReplaces, mdDisk, mdRecords, mdIndex, mdWrites, mdAcked>>

\* store: the same value again is Ok without a write.
MdStore(a) ==
    /\ mdAt[a] = "idle" /\ MdCount("ops", MaxMdOps)
    /\ \E k \in Keys, v \in Values :
         IF mdRecords[a][k] = v
           THEN /\ mdAcked' = [mdAcked EXCEPT ![k] = v]
                /\ UNCHANGED <<mdAt, mdDoing, mdNext>>
           ELSE /\ MdGo(a, "truncate")
                /\ mdDoing' = [mdDoing EXCEPT ![a] = Op("store", {k}, v)]
                /\ mdNext' = [mdNext EXCEPT ![a] = Copy([mdRecords[a] EXCEPT ![k] = v],
                                                        UpsertRecord(mdIndex[a], k, v))]
                /\ UNCHANGED mdAcked
    /\ UNCHANGED <<mdReplaces, mdDisk, mdRecords, mdIndex, mdWrites, mdShared>>

\* delete: a key that is not there is Ok(false) without a write.
MdDelete(a) ==
    /\ mdAt[a] = "idle" /\ MdCount("ops", MaxMdOps)
    /\ \E k \in Keys :
         IF mdRecords[a][k] = NoValue
           THEN /\ mdAcked' = [mdAcked EXCEPT ![k] = NoValue]
                /\ UNCHANGED <<mdAt, mdDoing, mdNext>>
           ELSE /\ MdGo(a, "truncate")
                /\ mdDoing' = [mdDoing EXCEPT ![a] = Op("delete", {k}, NoValue)]
                /\ mdNext' = [mdNext EXCEPT ![a] = Copy([mdRecords[a] EXCEPT ![k] = NoValue],
                                                        RemoveKey(mdIndex[a], k))]
                /\ UNCHANGED mdAcked
    /\ UNCHANGED <<mdReplaces, mdDisk, mdRecords, mdIndex, mdWrites, mdShared>>

-----------------------------------------------------------------------------
(* persist_records.                                                        *)

\* fs::write opens and truncates memory.tmp ...
MdTruncate(a) ==
    /\ mdAt[a] = "truncate" /\ MdGo(a, "write")
    /\ mdTmp' = EmptyMap
    /\ mdWrites' = [mdWrites EXCEPT ![a] = "tmp"]
    /\ UNCHANGED <<mdReplaces, mdFile, mdDoing, mdRecords, mdIndex, mdNext, mdUsed, mdAcked, mdShared>>

\* A write goes to wherever memory.tmp has got to by now, and leaves one of the
\* texts there.
Put(a, inTmp, inFile) ==
    /\ mdTmp'  \in IF mdWrites[a] = "tmp"  THEN inTmp  ELSE {mdTmp}
    /\ mdFile' \in IF mdWrites[a] = "file" THEN inFile ELSE {mdFile}

PutCut(a) == LET cut == CutText(mdNext[a].map) IN Put(a, cut, cut)

\* Mutant of MdWrite: without memory.tmp, the text goes into the file.
MdWriteInPlace(a) ==
    /\ mdAt[a] = "write" /\ MdGo(a, "return")
    /\ \/ mdFile' = mdNext[a].map
       \/ mdFile' \in CutText(mdNext[a].map)
    /\ mdWrites' = [mdWrites EXCEPT ![a] = "gone"]
    /\ UNCHANGED <<mdReplaces, mdTmp, mdDoing, mdRecords, mdIndex, mdNext, mdUsed, mdAcked, mdShared>>

\* ... and writes the text.
MdWrite(a) ==
    /\ mdAt[a] = "write" /\ MdGo(a, "rename")
    /\ Put(a, TextOver(mdTmp, mdNext[a].map), TextOver(mdFile, mdNext[a].map))
    /\ mdWrites' = [mdWrites EXCEPT ![a] = "gone"]
    /\ UNCHANGED <<mdReplaces, mdDoing, mdRecords, mdIndex, mdNext, mdUsed, mdAcked, mdShared>>

\* The open or the write fails.
MdWriteFails(a) ==
    /\ mdAt[a] \in {"truncate", "write"} /\ MdCount("faults", MaxMdFaults)
    /\ IF mdAt[a] = "write" THEN PutCut(a) ELSE UNCHANGED mdDisk
    /\ MdFail(a)
    /\ UNCHANGED <<mdReplaces, mdRecords, mdIndex, mdAcked, mdShared>>

\* The descriptors of the other writers follow the files.
Moved == [b \in MdAdapters |-> IF mdWrites[b] = "tmp" THEN "file" ELSE "gone"]
Without(name) == [b \in MdAdapters |-> IF mdWrites[b] = name THEN "gone" ELSE mdWrites[b]]

Renamed == mdFile' = mdTmp /\ mdTmp' = NoFile /\ mdWrites' = Moved

\* rename: memory.tmp may be gone by now, which is an error like any other.
MdRename(a) ==
    /\ mdAt[a] = "rename"
    /\ \/ /\ mdTmp # NoFile /\ (mdReplaces \/ mdFile = NoFile)
          /\ Renamed /\ MdGo(a, "return")
          /\ UNCHANGED <<mdDoing, mdNext>>
       \/ /\ mdTmp # NoFile /\ ~mdReplaces /\ mdFile # NoFile
          /\ MdGo(a, "remove")
          /\ UNCHANGED <<mdDisk, mdWrites, mdDoing, mdNext>>
       \/ /\ mdTmp = NoFile /\ MdFail(a)
          /\ UNCHANGED mdDisk
    /\ UNCHANGED <<mdReplaces, mdRecords, mdIndex, mdUsed, mdAcked, mdShared>>

\* An error of rename: memory.tmp is removed, or stays where that fails too.
MdRenameFails(a) ==
    /\ mdAt[a] = "rename" /\ mdTmp # NoFile /\ MdCount("faults", MaxMdFaults)
    /\ MdGo(a, IF mdDoing[a].kind = "open" THEN "closed" ELSE "idle")
    /\ mdDoing' = [mdDoing EXCEPT ![a] = NoOp]
    /\ mdNext' = [mdNext EXCEPT ![a] = NoCopy]
    /\ \/ mdTmp' = NoFile /\ mdWrites' = Without("tmp")
       \/ UNCHANGED <<mdTmp, mdWrites>>
    /\ UNCHANGED <<mdReplaces, mdFile, mdRecords, mdIndex, mdAcked, mdShared>>

\* AlreadyExists: the file is removed first.  A missing file or a failing call
\* is an error that leaves memory.tmp.
MdRemove(a) ==
    /\ mdAt[a] = "remove"
    /\ \/ /\ mdFile # NoFile
          /\ mdFile' = NoFile /\ mdWrites' = Without("file") /\ MdGo(a, "rename2")
          /\ UNCHANGED <<mdDoing, mdNext, mdUsed>>
       \/ /\ mdFile = NoFile /\ MdFail(a)
          /\ UNCHANGED <<mdFile, mdUsed>>
       \/ /\ MdCount("faults", MaxMdFaults) /\ MdFail(a)
          /\ UNCHANGED mdFile
    /\ UNCHANGED <<mdReplaces, mdTmp, mdRecords, mdIndex, mdAcked, mdShared>>

MdRenameAgain(a) ==
    /\ mdAt[a] = "rename2"
    /\ \/ /\ mdTmp # NoFile /\ mdFile = NoFile
          /\ Renamed /\ MdGo(a, "return")
          /\ UNCHANGED <<mdDoing, mdNext, mdUsed>>
       \/ /\ mdTmp = NoFile \/ mdFile # NoFile
          /\ MdFail(a)
          /\ UNCHANGED <<mdDisk, mdUsed>>
       \/ /\ MdCount("faults", MaxMdFaults) /\ MdFail(a)
          /\ UNCHANGED mdDisk
    /\ UNCHANGED <<mdReplaces, mdRecords, mdIndex, mdAcked, mdShared>>

-----------------------------------------------------------------------------
AckedBy(op) == [k \in Keys |-> IF k \in op.keys THEN op.value ELSE mdAcked[k]]

\* The text is in place: the copy in memory is the new one, and it is Ok.
MdReturn(a) ==
    /\ mdAt[a] = "return" /\ MdGo(a, "idle")
    /\ mdRecords' = [mdRecords EXCEPT ![a] = mdNext[a].map]
    /\ mdIndex' = [mdIndex EXCEPT ![a] = mdNext[a].index]
    /\ mdAcked' = AckedBy(mdDoing[a])
    /\ mdDoing' = [mdDoing EXCEPT ![a] = NoOp]
    /\ mdNext' = [mdNext EXCEPT ![a] = NoCopy]
    /\ UNCHANGED <<mdReplaces, mdDisk, mdWrites, mdUsed, mdShared>>

\* recall of a query that is not blank; a blank one returns every record.
MdRecall(a, query) == Matched(mdRecords[a], mdIndex[a].postings, query)

\* The process ends between operations.
MdClose(a) ==
    /\ mdAt[a] = "idle" /\ MdGone(a)
    /\ UNCHANGED <<mdReplaces, mdDisk, mdDoing, mdNext, mdWrites, mdUsed, mdAcked, mdShared>>

\* A kill, also in the middle of the write.  An operation that was under way
\* has happened or has not.
MdKill(a) ==
    /\ mdAt[a] # "closed" /\ MdCount("kills", MaxMdKills) /\ MdGone(a)
    /\ \/ UNCHANGED mdDisk
       \/ mdAt[a] = "write" /\ PutCut(a)
    /\ mdAcked' = IF mdAt[a] = "return" THEN AckedBy(mdDoing[a]) ELSE mdAcked
    /\ mdDoing' = [mdDoing EXCEPT ![a] = NoOp]
    /\ mdNext' = [mdNext EXCEPT ![a] = NoCopy]
    /\ mdWrites' = [mdWrites EXCEPT ![a] = "gone"]
    /\ UNCHANGED <<mdReplaces, mdShared>>

MdNext ==
    \E a \in MdAdapters :
      \/ MdOpen(a) \/ MdStore(a) \/ MdDelete(a) \/ MdClose(a) \/ MdKill(a)
      \/ MdTruncate(a) \/ MdWrite(a) \/ MdWriteFails(a)
      \/ MdRename(a) \/ MdRenameFails(a) \/ MdRemove(a) \/ MdRenameAgain(a)
      \/ MdReturn(a)

MdSpec == MdInit /\ [][MdNext]_mdVars

-----------------------------------------------------------------------------
(* Properties.                                                             *)

MdPlaces == {"closed", "idle", "truncate", "write", "rename", "remove", "rename2", "return"}
Indexes == [terms : [Keys -> SUBSET Terms], postings : SUBSET (Terms \X Keys)]
Ops == [kind : {"none", "open", "store", "delete"}, keys : SUBSET Keys,
        value : Values \cup {NoValue}]

MdTypeOK ==
    /\ mdReplaces \in BOOLEAN
    /\ mdFile \in Maps \cup {NoFile, Unreadable} /\ mdTmp \in Maps \cup {NoFile, Unreadable}
    /\ mdAt \in [MdAdapters -> MdPlaces] /\ mdDoing \in [MdAdapters -> Ops]
    /\ mdRecords \in [MdAdapters -> Maps] /\ mdIndex \in [MdAdapters -> Indexes]
    /\ mdNext \in [MdAdapters -> [map : Maps, index : Indexes]]
    /\ mdWrites \in [MdAdapters -> {"tmp", "file", "gone"}]
    /\ mdUsed \in [ops : 0..MaxMdOps, faults : 0..MaxMdFaults, kills : 0..MaxMdKills]
    /\ mdAcked \in Maps /\ mdShared \in BOOLEAN

\* A recall finds exactly the records with every term of the query, after any
\* stores over older values, deletes, failed writes and reloads: the index is
\* kept by upsert_record and remove_key and never rebuilt while the process
\* lives (memory_markdown.rs:40-78).
MdRecallFindsWhatIsStored ==
    \A a \in MdAdapters, query \in SUBSET Terms : MdRecall(a, query) = Found(mdRecords[a], query)

\* Where rename replaces, and as long as one process at a time has the memory
\* open, the next open finds every change that returned Ok, whatever writes
\* failed and wherever processes were killed (memory_markdown.rs:150-163).
MdAckedChangesSurvive ==
    (mdReplaces /\ ~mdShared) =>
        /\ Loaded # Unreadable
        /\ \A k \in Keys : \/ Loaded[k] = mdAcked[k]
                           \/ \E a \in MdAdapters : /\ mdAt[a] = "return" /\ k \in mdDoing[a].keys
                                                     /\ Loaded[k] = mdDoing[a].value
=============================================================================
