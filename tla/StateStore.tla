------------------------------ MODULE StateStore ------------------------------
(***************************************************************************)
(* The state snapshot file (src/crates/apps/src/storage/state.rs): a save  *)
(* writes state.tmp and renames it over state.snapshot; a load reads       *)
(* state.snapshot and falls back to state.tmp only when the first is       *)
(* missing.  Loads take no lock.  A save is made under the lock of a       *)
(* workspace, but the path is by default one for all of them               *)
(* (state.rs:64-69): where it is shared, saves overlap and use the same    *)
(* state.tmp.  Every file-system call is a step, every one may fail, and a *)
(* saving process may be killed between any two.                           *)
(*                                                                         *)
(* A snapshot is its sequence number and its pending run; the other fields *)
(* travel with them.                                                       *)
(***************************************************************************)
EXTENDS Naturals

CONSTANTS Runs,            \* names of pending runs
          NoRun,           \* pending_run: None
          MaxSeq,          \* bound on the sequence number
          Missing,         \* no file
          Empty,           \* a file without a byte
          Unreadable,      \* another file parse_snapshot rejects
          Nothing,         \* no save is going on
          Savers,          \* commands that save
          Settings         \* the platforms and faults looked at

Snapshots == [seq : 0..MaxSeq, pending : Runs \cup {NoRun}]

ASSUME MarkersAreNoSnapshots ==
    /\ {Missing, Empty, Unreadable, Nothing} \cap Snapshots = {}
    /\ Missing \notin {Empty, Unreadable}
ASSUME BoundsAreNat == MaxSeq \in Nat
\* replaces: rename works over an existing file (POSIX, and std's rename on
\* Windows), otherwise AlreadyExists; fresh: no snapshot was ever saved;
\* shared: the savers are commands of several workspaces, whose locks do not
\* keep them apart; errors: file-system calls may fail; kills: how often a save
\* is killed.
ASSUME SettingsType ==
    Settings \subseteq [replaces : BOOLEAN, fresh : BOOLEAN, shared : BOOLEAN,
                        errors : BOOLEAN, kills : Nat]

VARIABLES setting,     \* the one of Settings this behaviour is about
          primary,     \* content of state.snapshot
          temp,        \* content of state.tmp
          pc,          \* where a saver is
          saving,      \* the snapshot it saves, or Nothing
          writes,      \* what its open descriptor points to: "temp", "primary",
                       \* or "gone"
          reader,      \* where a load is
          loaded,      \* what the last load returned; Empty, Unreadable: an error
          kills,       \* kills so far
          overlapped,  \* history: savers whose last save overlapped another
          sound,       \* history: a save was acknowledged, overlapped no other,
                       \* and none has overlapped since
          acked,       \* history: its snapshot, or that of a later such save
          unsure       \* history: snapshots whose save was killed since

files == <<primary, temp>>
save == <<pc, saving, writes>>
load == <<reader, loaded>>
history == <<overlapped, sound, acked, unsure>>
vars == <<setting, files, save, load, kills, history>>

Default == [seq |-> 0, pending |-> NoRun]    \* RuntimeStateSnapshot::default

Contents == Snapshots \cup {Missing, Empty, Unreadable}
PCs == {"idle", "open", "write", "rename", "discard", "remove", "again", "done"}

-----------------------------------------------------------------------------
(* Texts.                                                                  *)

\* What a text leaves in a file with content old, written as a whole: where
\* another saver wrote the same file, a longer text of his shows behind the
\* end, with its pending run or a broken line.
Over(old, s) ==
    IF old = Empty THEN {s}
    ELSE LET runs == IF old \in Snapshots THEN {old.pending} ELSE Runs
         IN  [seq : {s.seq}, pending : {s.pending} \cup runs] \cup {Unreadable}

\* What a beginning of the text leaves.  The version line and the pending_run
\* fields are required once begun, the last of them only up to where it is cut;
\* every other line defaults and a cut number is a smaller number.
Cuts(old, s) ==
    IF old = Empty THEN [seq : 0..s.seq, pending : {NoRun}] \cup {s, Empty, Unreadable}
    ELSE Snapshots \cup {Unreadable}

\* Mutant of LoadedFrom: no fallback.
LoadedFromPrimaryOnly(p, t) == IF p # Missing THEN p ELSE Default

\* load_snapshot: the primary file, else the temporary one, else the default.
LoadedFrom(p, t) ==
    IF p # Missing THEN p ELSE IF t # Missing THEN t ELSE Default
Load == LoadedFrom(primary, temp)

-----------------------------------------------------------------------------
Init ==
    /\ setting \in Settings
    /\ IF setting.fresh THEN primary = Missing /\ acked = Default
                        ELSE primary \in Snapshots /\ acked = primary
    /\ temp = Missing
    /\ pc = [p \in Savers |-> "idle"] /\ saving = [p \in Savers |-> Nothing]
    /\ writes = [p \in Savers |-> "gone"]
    /\ reader = "idle" /\ loaded = Default
    /\ kills = 0
    /\ overlapped = {} /\ sound = ~setting.fresh /\ unsure = {}

Go(p, place) == pc' = [pc EXCEPT ![p] = place]

Quiet == \A p \in Savers : pc[p] = "idle"

\* save_snapshot is called, after the lock of the saver's workspace was taken.
BeginSave(p, s) ==
    /\ pc[p] = "idle" /\ (Quiet \/ setting.shared)
    /\ Go(p, "open")
    /\ saving' = [saving EXCEPT ![p] = s]
    /\ IF Quiet
         THEN overlapped' = overlapped \ {p} /\ UNCHANGED <<sound, acked, unsure>>
         ELSE /\ overlapped' = overlapped \cup {p} \cup {q \in Savers : pc[q] # "idle"}
              /\ sound' = FALSE /\ acked' = Default /\ unsure' = {}
    /\ UNCHANGED <<files, writes, load, kills>>

\* fs::write creates or truncates state.tmp ...
OpenTemp(p) ==
    /\ pc[p] = "open" /\ Go(p, "write")
    /\ temp' = Empty
    /\ writes' = [writes EXCEPT ![p] = "temp"]
    /\ UNCHANGED <<primary, saving, load, kills, history>>

\* A write goes to wherever that file has got to by now.
Put(p, inTemp, inPrimary) ==
    /\ temp' \in IF writes[p] = "temp" THEN inTemp ELSE {temp}
    /\ primary' \in IF writes[p] = "primary" THEN inPrimary ELSE {primary}

Close(p) == writes' = [writes EXCEPT ![p] = "gone"]

\* ... and writes the serialized snapshot.
WriteTemp(p) ==
    /\ pc[p] = "write" /\ Go(p, "rename")
    /\ Put(p, Over(temp, saving[p]), Over(primary, saving[p]))
    /\ Close(p)
    /\ UNCHANGED <<saving, load, kills, history>>

\* The other descriptors follow the files.
Moved == [q \in Savers |-> IF writes[q] = "temp" THEN "primary" ELSE "gone"]
Without(name) == [q \in Savers |-> IF writes[q] = name THEN "gone" ELSE writes[q]]

Renamed == primary' = temp /\ temp' = Missing /\ writes' = Moved

\* The save returns an error.
Return(p) == Go(p, "idle") /\ saving' = [saving EXCEPT ![p] = Nothing]

\* Mutant of Rename: the old file is removed first on every platform.
RemoveThenRename(p) ==
    /\ pc[p] = "rename" /\ Go(p, "again")
    /\ primary' = Missing
    /\ writes' = Without("primary")
    /\ UNCHANGED <<temp, saving, load, kills, history>>

\* fs::rename, in one step where it replaces an existing file.  An overlapping
\* save may have moved state.tmp away, which is an error like any other.
Rename(p) ==
    /\ pc[p] = "rename"
    /\ \/ /\ temp # Missing /\ (setting.replaces \/ primary = Missing)
          /\ Renamed /\ Go(p, "done")
       \/ /\ temp # Missing /\ ~setting.replaces /\ primary # Missing
          /\ Go(p, "remove") /\ UNCHANGED <<files, writes>>
       \/ /\ temp = Missing \/ setting.errors
          /\ Go(p, "discard") /\ UNCHANGED <<files, writes>>
    /\ UNCHANGED <<saving, load, kills, history>>

\* `let _ = fs::remove_file(&temp_path)` after a failing rename.
Discard(p) ==
    /\ pc[p] = "discard" /\ Return(p)
    /\ \/ temp' = Missing /\ writes' = Without("temp")
       \/ setting.errors /\ UNCHANGED <<temp, writes>>
    /\ UNCHANGED <<primary, load, kills, history>>

\* The AlreadyExists branch: remove the old file, then rename again.
RemovePrimary(p) ==
    /\ pc[p] = "remove"
    /\ \/ /\ primary # Missing
          /\ primary' = Missing /\ writes' = Without("primary") /\ Go(p, "again")
          /\ UNCHANGED saving
       \/ /\ primary = Missing \/ setting.errors
          /\ Return(p) /\ UNCHANGED <<primary, writes>>
    /\ UNCHANGED <<temp, load, kills, history>>

RenameAgain(p) ==
    /\ pc[p] = "again"
    /\ \/ /\ temp # Missing /\ primary = Missing
          /\ Renamed /\ Go(p, "done")
          /\ UNCHANGED saving
       \/ /\ temp = Missing \/ primary # Missing \/ setting.errors
          /\ Return(p) /\ UNCHANGED <<files, writes>>
    /\ UNCHANGED <<load, kills, history>>

SaveReturnsOk(p) ==
    /\ pc[p] = "done" /\ Return(p)
    /\ IF p \in overlapped
         THEN UNCHANGED <<sound, acked, unsure>>
         ELSE sound' = TRUE /\ acked' = saving[p] /\ unsure' = {}
    /\ UNCHANGED <<files, writes, load, kills, overlapped>>

\* Mutant of WriteFails: a write error is ignored and the cut file renamed.
WriteErrorIgnored(p) ==
    /\ setting.errors /\ pc[p] = "write" /\ Go(p, "rename")
    /\ Put(p, Cuts(temp, saving[p]), Cuts(primary, saving[p]))
    /\ Close(p)
    /\ UNCHANGED <<saving, load, kills, history>>

\* create_dir_all, the open or the write fails; a failing write leaves part of
\* the text.
WriteFails(p) ==
    /\ setting.errors /\ pc[p] \in {"open", "write"} /\ Return(p)
    /\ IF pc[p] = "write" THEN Put(p, Cuts(temp, saving[p]), Cuts(primary, saving[p]))
                          ELSE UNCHANGED files
    /\ Close(p)
    /\ UNCHANGED <<load, kills, history>>

\* A saving process is killed; a write in progress may be cut.
Kill(p) ==
    /\ pc[p] # "idle" /\ kills < setting.kills
    /\ kills' = kills + 1
    /\ Return(p)
    /\ IF pc[p] = "write" THEN Put(p, Cuts(temp, saving[p]), Cuts(primary, saving[p]))
                          ELSE UNCHANGED files
    /\ Close(p)
    /\ unsure' = IF sound THEN unsure \cup {saving[p]} ELSE unsure
    /\ UNCHANGED <<load, overlapped, sound, acked>>

\* A load, in any process, without the lock: read_snapshot_file(primary).
ReadPrimary ==
    /\ reader = "idle"
    /\ IF primary = Missing
         THEN reader' = "temp" /\ UNCHANGED loaded
         ELSE loaded' = primary /\ UNCHANGED reader
    /\ UNCHANGED <<files, save, kills, history>>

\* The primary file was missing: read_snapshot_file(temp).
ReadTemp ==
    /\ reader = "temp"
    /\ reader' = "idle"
    /\ loaded' = LoadedFrom(Missing, temp)
    /\ UNCHANGED <<files, save, kills, history>>

Step ==
    \/ \E p \in Savers :
         \/ \E s \in Snapshots : BeginSave(p, s)
         \/ OpenTemp(p) \/ WriteTemp(p) \/ WriteFails(p) \/ Rename(p) \/ Discard(p)
         \/ RemovePrimary(p) \/ RenameAgain(p) \/ SaveReturnsOk(p) \/ Kill(p)
    \/ ReadPrimary \/ ReadTemp

Next == Step /\ UNCHANGED setting

Spec == Init /\ [][Next]_vars
-----------------------------------------------------------------------------
TypeOK ==
    /\ setting \in Settings
    /\ primary \in Contents /\ temp \in Contents
    /\ pc \in [Savers -> PCs] /\ saving \in [Savers -> Snapshots \cup {Nothing}]
    /\ writes \in [Savers -> {"temp", "primary", "gone"}]
    /\ reader \in {"idle", "temp"} /\ loaded \in Snapshots \cup {Empty, Unreadable}
    /\ kills \in 0..setting.kills
    /\ overlapped \subseteq Savers /\ sound \in BOOLEAN
    /\ acked \in Snapshots /\ unsure \subseteq Snapshots

\* Where rename replaces: from the first acknowledged save on, every load
\* finds the last acknowledged snapshot or one whose save was killed later,
\* never an error, never an older or a truncated one, never one whose save
\* reported an error (state.rs:101-143).  Two exceptions: before the first
\* acknowledged save a torn state.tmp is what a load finds; and saves that
\* overlap, which only a state path shared by workspaces allows (state.rs:64-69),
\* spoil each other's state.tmp, until a save that runs alone is acknowledged.
LoadsWhatWasSaved ==
    setting.replaces /\ sound =>
        Load \in {acked} \cup unsure \cup {saving[p] : p \in Savers}

\* For the next command, where rename does not replace: the window between the
\* removal and the second rename is what the fallback to state.tmp is for (test
\* state_store_loads_tmp_snapshot_when_primary_is_missing).  It covers one
\* kill and no failing call, for saves one after the other: those that overlap
\* are excepted as in LoadsWhatWasSaved.
NextCommandLoads ==
    setting.kills <= 1 /\ ~setting.errors /\ Quiet /\ sound => Load \in {acked} \cup unsure

-----------------------------------------------------------------------------
\* Once a snapshot exists, where rename replaces and the path belongs to one
\* workspace, whose lock lets one save at a time (state.rs:64-69: not by
\* default), the two files are one atomic register: the rename is the step in
\* which a save takes effect.  Nothing is claimed elsewhere: the register stays
\* as it is.
Atomic == setting.replaces /\ ~setting.fresh /\ ~setting.shared

Register == INSTANCE SnapshotRegister
    WITH Values <- Snapshots,
         Writers <- Savers,
         stored <- IF Atomic THEN Load ELSE Default,
         input <- IF Atomic THEN saving ELSE [p \in Savers |-> Nothing],
         applied <- [p \in Savers |-> Atomic /\ pc[p] = "done"],
         got <- IF Atomic THEN loaded ELSE Default

ImplementsRegister == Register!SRSpec
=============================================================================
