--------------------------- MODULE StateStoreProofs ---------------------------
(***************************************************************************)
(* Theorems about the snapshot files, for every bound, every set of runs   *)
(* and any number of savers, also of one shared path.  Where rename        *)
(* replaces the old file, state.snapshot is never missing once a save was  *)
(* acknowledged, so a load does not look at state.tmp any more; a save     *)
(* that runs alone renames a complete text, so from its acknowledgement to *)
(* the next overlap the renames alone decide what a load returns.          *)
(***************************************************************************)
EXTENDS StateStore, TLAPS

(* What a text leaves in a file is a content, and a file.                  *)
LEMMA TextTypes ==
    ASSUME NEW s \in Snapshots, NEW old \in Contents
    PROVE  /\ Over(old, s) \subseteq Contents \ {Missing}
           /\ Cuts(old, s) \subseteq Contents \ {Missing}
<1>1. s.seq \in 0..MaxSeq /\ 0..s.seq \subseteq 0..MaxSeq
  BY BoundsAreNat DEF Snapshots
<1>2. old \in Snapshots => old.pending \in Runs \cup {NoRun}
  BY DEF Snapshots
<1>3. s.pending \in Runs \cup {NoRun}
  BY DEF Snapshots
<1>4. Over(old, s) \subseteq Snapshots \cup {Unreadable}
  BY <1>1, <1>2, <1>3 DEF Over, Snapshots
<1>5. Cuts(old, s) \subseteq Snapshots \cup {Empty, Unreadable}
  BY <1>1 DEF Cuts, Snapshots
<1>6. QED
  BY <1>4, <1>5, MarkersAreNoSnapshots DEF Contents

(* The default snapshot is a snapshot.                                     *)
LEMMA DefaultType == Default \in Snapshots
  BY BoundsAreNat DEF Default, Snapshots

\* The saved snapshot is known, and a descriptor open, exactly while they are
\* needed.
SavingIsKnown ==
    \A p \in Savers : /\ pc[p] = "idle" <=> saving[p] = Nothing
                      /\ writes[p] # "gone" => pc[p] = "write"

(* A save in progress has its snapshot, and renames only complete files.   *)
LEMMA SavingStep ==
    ASSUME TypeOK, SavingIsKnown, [Next]_vars
    PROVE  TypeOK' /\ SavingIsKnown'
<1> USE DEF TypeOK, SavingIsKnown, files, save, load, history, Go, Return, Close
<1> USE MarkersAreNoSnapshots, SettingsType
<1>0. CASE Next
  <2>1. setting' = setting /\ Step
    BY <1>0 DEF Next
  <2>2. ASSUME NEW p \in Savers, NEW s \in Snapshots, BeginSave(p, s)
        PROVE  TypeOK' /\ SavingIsKnown'
    BY <2>1, <2>2, DefaultType DEF BeginSave, Quiet, PCs
  <2>3. ASSUME NEW p \in Savers, OpenTemp(p) PROVE TypeOK' /\ SavingIsKnown'
    BY <2>1, <2>3 DEF OpenTemp, PCs, Contents
  <2>4. ASSUME NEW p \in Savers, WriteTemp(p) PROVE TypeOK' /\ SavingIsKnown'
    <3>1. saving[p] \in Snapshots
      BY <2>4 DEF WriteTemp
    <3>2. temp' \in Contents /\ primary' \in Contents
      BY <2>4, <3>1, TextTypes DEF WriteTemp, Put
    <3>3. QED
      BY <2>1, <2>4, <3>2 DEF WriteTemp, PCs
  <2>5. ASSUME NEW p \in Savers, WriteFails(p) PROVE TypeOK' /\ SavingIsKnown'
    <3>1. saving[p] \in Snapshots
      BY <2>5 DEF WriteFails
    <3>2. temp' \in Contents /\ primary' \in Contents
      BY <2>5, <3>1, TextTypes DEF WriteFails, Put
    <3>3. QED
      BY <2>1, <2>5, <3>2 DEF WriteFails, PCs
  <2>6. ASSUME NEW p \in Savers, Rename(p) PROVE TypeOK' /\ SavingIsKnown'
    BY <2>1, <2>6 DEF Rename, PCs, Contents, Renamed, Moved
  <2>7. ASSUME NEW p \in Savers, Discard(p) PROVE TypeOK' /\ SavingIsKnown'
    BY <2>1, <2>7 DEF Discard, PCs, Contents, Without
  <2>8. ASSUME NEW p \in Savers, RemovePrimary(p) PROVE TypeOK' /\ SavingIsKnown'
    BY <2>1, <2>8 DEF RemovePrimary, PCs, Contents, Without
  <2>9. ASSUME NEW p \in Savers, RenameAgain(p) PROVE TypeOK' /\ SavingIsKnown'
    BY <2>1, <2>9 DEF RenameAgain, PCs, Contents, Renamed, Moved
  <2>10. ASSUME NEW p \in Savers, SaveReturnsOk(p) PROVE TypeOK' /\ SavingIsKnown'
    <3>1. saving[p] \in Snapshots
      BY <2>10 DEF SaveReturnsOk
    <3>2. QED
      BY <2>1, <2>10, <3>1 DEF SaveReturnsOk, PCs
  <2>11. ASSUME NEW p \in Savers, Kill(p) PROVE TypeOK' /\ SavingIsKnown'
    <3>1. saving[p] \in Snapshots
      BY <2>11 DEF Kill
    <3>2. temp' \in Contents /\ primary' \in Contents
      BY <2>11, <3>1, TextTypes DEF Kill, Put
    <3>3. kills' \in 0..setting.kills /\ unsure' \subseteq Snapshots
      BY <2>11, <3>1 DEF Kill
    <3>4. QED
      BY <2>1, <2>11, <3>2, <3>3 DEF Kill, PCs
  <2>12. CASE ReadPrimary
    BY <2>1, <2>12 DEF ReadPrimary, Contents
  <2>13. CASE ReadTemp
    <3>1. LoadedFrom(Missing, temp) \in Snapshots \cup {Empty, Unreadable}
      BY DefaultType DEF LoadedFrom, Contents
    <3>2. QED
      BY <2>1, <2>13, <3>1 DEF ReadTemp
  <2>14. QED
    BY <2>1, <2>2, <2>3, <2>4, <2>5, <2>6, <2>7, <2>8, <2>9, <2>10, <2>11, <2>12, <2>13 DEF Step
<1>1. CASE UNCHANGED vars
  BY <1>1 DEF vars
<1>2. QED
  BY <1>0, <1>1

(* The files and the savers keep their types on every platform.            *)
THEOREM StoreTypeOK == Spec => [](TypeOK /\ SavingIsKnown)
<1>1. Init => TypeOK /\ SavingIsKnown
  BY DefaultType, SettingsType DEF Init, TypeOK, SavingIsKnown, Contents, PCs
<1>2. QED
  BY <1>1, SavingStep, PTL DEF Spec

-----------------------------------------------------------------------------
\* The save of p has overlapped no other so far.
Alone(p) == pc[p] # "idle" /\ p \notin overlapped

\* The files as the save of p expects them.
Expected(p) ==
    /\ pc[p] = "write" => temp = Empty /\ writes[p] = "temp"
    /\ pc[p] \in {"rename", "remove", "again"} => temp = saving[p]
    /\ pc[p] = "remove" => primary # Missing
    /\ pc[p] = "again" => primary = Missing
    /\ pc[p] = "done" => primary = saving[p]
    /\ ~setting.errors => pc[p] # "discard"

\* A save is either alone, with the files as it expects them, or known to have
\* overlapped another, which it can neither after a sound one nor where the path
\* is not shared.
AloneOrOverlapped ==
    /\ \A p, q \in Savers : Alone(p) /\ pc[q] # "idle" => q = p
    /\ sound \/ ~setting.shared => \A p \in Savers : pc[p] # "idle" => Alone(p)
    /\ \A p \in Savers : Alone(p) => Expected(p)

(* Nobody else touches the files while a save is alone.                    *)
LEMMA AloneStep ==
    ASSUME TypeOK, SavingIsKnown, AloneOrOverlapped, [Next]_vars
    PROVE  AloneOrOverlapped'
<1> USE DEF TypeOK, SavingIsKnown, AloneOrOverlapped, Alone, Expected
<1> USE DEF files, save, load, history, Go, Return, Close
<1> USE MarkersAreNoSnapshots
<1>0. CASE Next
  <2>1. setting' = setting /\ Step
    BY <1>0 DEF Next
  <2>2. ASSUME NEW p \in Savers, NEW s \in Snapshots, BeginSave(p, s) PROVE AloneOrOverlapped'
    BY <2>1, <2>2 DEF BeginSave, Quiet
  <2>3. ASSUME NEW p \in Savers, OpenTemp(p) PROVE AloneOrOverlapped'
    BY <2>1, <2>3 DEF OpenTemp
  <2>4. ASSUME NEW p \in Savers, WriteTemp(p) PROVE AloneOrOverlapped'
    BY <2>1, <2>4 DEF WriteTemp, Put, Over
  <2>5. ASSUME NEW p \in Savers, WriteFails(p) PROVE AloneOrOverlapped'
    BY <2>1, <2>5 DEF WriteFails, Put
  <2>6. ASSUME NEW p \in Savers, Rename(p) PROVE AloneOrOverlapped'
    BY <2>1, <2>6 DEF Rename, Renamed, Moved
  <2>7. ASSUME NEW p \in Savers, Discard(p) PROVE AloneOrOverlapped'
    BY <2>1, <2>7 DEF Discard, Without
  <2>8. ASSUME NEW p \in Savers, RemovePrimary(p) PROVE AloneOrOverlapped'
    BY <2>1, <2>8 DEF RemovePrimary, Without
  <2>9. ASSUME NEW p \in Savers, RenameAgain(p) PROVE AloneOrOverlapped'
    BY <2>1, <2>9 DEF RenameAgain, Renamed, Moved
  <2>10. ASSUME NEW p \in Savers, SaveReturnsOk(p) PROVE AloneOrOverlapped'
    BY <2>1, <2>10 DEF SaveReturnsOk
  <2>11. ASSUME NEW p \in Savers, Kill(p) PROVE AloneOrOverlapped'
    BY <2>1, <2>11 DEF Kill, Put
  <2>12. CASE ReadPrimary
    BY <2>1, <2>12 DEF ReadPrimary
  <2>13. CASE ReadTemp
    BY <2>1, <2>13 DEF ReadTemp
  <2>14. QED
    BY <2>1, <2>2, <2>3, <2>4, <2>5, <2>6, <2>7, <2>8, <2>9, <2>10, <2>11, <2>12, <2>13 DEF Step
<1>1. CASE UNCHANGED vars
  BY <1>1 DEF vars
<1>2. QED
  BY <1>0, <1>1

(* What every save may rely on.                                            *)
LEMMA AloneInvariant == Spec => [](TypeOK /\ SavingIsKnown /\ AloneOrOverlapped)
<1>1. Init => AloneOrOverlapped
  BY DEF Init, AloneOrOverlapped, Alone
<1>2. TypeOK /\ SavingIsKnown /\ AloneOrOverlapped /\ [Next]_vars => AloneOrOverlapped'
  BY AloneStep
<1>3. QED
  BY <1>1, <1>2, StoreTypeOK, PTL DEF Spec

-----------------------------------------------------------------------------
\* Where rename replaces, a snapshot file that is there is never removed.  After
\* a sound save it holds the acknowledged snapshot or one a later, killed or
\* unfinished save renamed into place.
PrimaryIsDurable ==
    setting.replaces =>
      /\ \A p \in Savers : pc[p] \notin {"remove", "again"}
      /\ ~setting.fresh => primary # Missing /\ reader = "idle"
      /\ sound => \/ primary \in {acked} \cup unsure
                  \/ \E p \in Savers : pc[p] = "done" /\ primary = saving[p]

(* Where rename replaces, no step loses or tears the snapshot file.        *)
LEMMA DurableStep ==
    ASSUME TypeOK, SavingIsKnown, AloneOrOverlapped, PrimaryIsDurable, [Next]_vars
    PROVE  PrimaryIsDurable'
<1> USE DEF TypeOK, SavingIsKnown, AloneOrOverlapped, Alone, Expected, PrimaryIsDurable
<1> USE DEF files, save, load, history, Go, Return, Close
<1> USE MarkersAreNoSnapshots
<1>0. CASE Next
  <2>1. setting' = setting /\ Step
    BY <1>0 DEF Next
  <2>2. ASSUME NEW p \in Savers, NEW s \in Snapshots, BeginSave(p, s) PROVE PrimaryIsDurable'
    BY <2>1, <2>2 DEF BeginSave, Quiet
  <2>3. ASSUME NEW p \in Savers, OpenTemp(p) PROVE PrimaryIsDurable'
    BY <2>1, <2>3 DEF OpenTemp
  <2>4. ASSUME NEW p \in Savers, WriteTemp(p) PROVE PrimaryIsDurable'
    <3>1. saving[p] \in Snapshots
      BY <2>4 DEF WriteTemp
    <3>2. primary # Missing => primary' # Missing
      BY <2>4, <3>1, TextTypes DEF WriteTemp, Put
    <3>3. sound => primary' = primary
      BY <2>4 DEF WriteTemp, Put
    <3>4. QED
      BY <2>1, <2>4, <3>2, <3>3 DEF WriteTemp
  <2>5. ASSUME NEW p \in Savers, WriteFails(p) PROVE PrimaryIsDurable'
    <3>1. saving[p] \in Snapshots
      BY <2>5 DEF WriteFails
    <3>2. primary # Missing => primary' # Missing
      BY <2>5, <3>1, TextTypes DEF WriteFails, Put
    <3>3. sound => primary' = primary
      BY <2>5 DEF WriteFails, Put
    <3>4. QED
      BY <2>1, <2>5, <3>2, <3>3 DEF WriteFails
  <2>6. ASSUME NEW p \in Savers, Rename(p) PROVE PrimaryIsDurable'
    BY <2>1, <2>6 DEF Rename, Renamed
  <2>7. ASSUME NEW p \in Savers, Discard(p) PROVE PrimaryIsDurable'
    BY <2>1, <2>7 DEF Discard
  <2>8. ASSUME NEW p \in Savers, RemovePrimary(p) PROVE PrimaryIsDurable'
    BY <2>1, <2>8 DEF RemovePrimary
  <2>9. ASSUME NEW p \in Savers, RenameAgain(p) PROVE PrimaryIsDurable'
    BY <2>1, <2>9 DEF RenameAgain, Renamed
  <2>10. ASSUME NEW p \in Savers, SaveReturnsOk(p) PROVE PrimaryIsDurable'
    BY <2>1, <2>10 DEF SaveReturnsOk
  <2>11. ASSUME NEW p \in Savers, Kill(p) PROVE PrimaryIsDurable'
    <3>1. saving[p] \in Snapshots
      BY <2>11 DEF Kill
    <3>2. primary # Missing => primary' # Missing
      BY <2>11, <3>1, TextTypes DEF Kill, Put
    <3>3. sound => primary' = primary
      BY <2>11 DEF Kill, Put
    <3>4. QED
      BY <2>1, <2>11, <3>2, <3>3 DEF Kill
  <2>12. CASE ReadPrimary
    BY <2>1, <2>12 DEF ReadPrimary
  <2>13. CASE ReadTemp
    BY <2>1, <2>13 DEF ReadTemp
  <2>14. QED
    BY <2>1, <2>2, <2>3, <2>4, <2>5, <2>6, <2>7, <2>8, <2>9, <2>10, <2>11, <2>12, <2>13 DEF Step
<1>1. CASE UNCHANGED vars
  BY <1>1 DEF vars
<1>2. QED
  BY <1>0, <1>1

(* With a replacing rename, a snapshot saved before is never lost.         *)
LEMMA DurableInvariant ==
    Spec => [](TypeOK /\ SavingIsKnown /\ AloneOrOverlapped /\ PrimaryIsDurable)
<1>1. Init => PrimaryIsDurable
  BY MarkersAreNoSnapshots DEF Init, PrimaryIsDurable
<1>2. TypeOK /\ SavingIsKnown /\ AloneOrOverlapped /\ PrimaryIsDurable /\ [Next]_vars
      => PrimaryIsDurable'
  BY DurableStep
<1>3. QED
  BY <1>1, <1>2, AloneInvariant, PTL DEF Spec

(* Where rename replaces, from the first acknowledged save on every load   *)
(* returns the last acknowledged snapshot or one whose save was killed or  *)
(* is in its last step, whatever calls fail and however often a save is    *)
(* killed, for any number of savers: only an overlap of two saves ends it, *)
(* until the next one that runs alone.                                     *)
THEOREM ReplaceLoadsWhatWasSaved == Spec => []LoadsWhatWasSaved
<1>1. TypeOK /\ SavingIsKnown /\ PrimaryIsDurable => LoadsWhatWasSaved
  <2> SUFFICES ASSUME TypeOK, SavingIsKnown, PrimaryIsDurable, setting.replaces, sound
               PROVE  Load \in {acked} \cup unsure \cup {saving[p] : p \in Savers}
    BY DEF LoadsWhatWasSaved
  <2>1. CASE primary \in {acked} \cup unsure
    BY <2>1, MarkersAreNoSnapshots DEF TypeOK, Load, LoadedFrom
  <2>2. CASE \E p \in Savers : pc[p] = "done" /\ primary = saving[p]
    <3>1. PICK p \in Savers : pc[p] = "done" /\ primary = saving[p]
      BY <2>2
    <3>2. primary # Missing
      BY <3>1, MarkersAreNoSnapshots DEF TypeOK, SavingIsKnown
    <3>3. QED
      BY <3>1, <3>2 DEF Load, LoadedFrom
  <2>3. QED
    BY <2>1, <2>2 DEF PrimaryIsDurable
<1>2. QED
  BY <1>1, DurableInvariant, PTL

-----------------------------------------------------------------------------
\* Without failing calls and with one kill, after a sound save: the snapshot file
\* holds what a load may find, or is missing because a save is between its
\* removal and the second rename, or because one was killed there.  Then state.tmp
\* has the snapshot of that save until the next one, which cannot be killed,
\* writes its own.
FallbackCovers ==
    setting.kills <= 1 /\ ~setting.errors /\ sound =>
      \/ primary \in {acked} \cup unsure
      \/ \E p \in Savers : pc[p] = "done" \/ (pc[p] = "again" /\ primary = Missing)
      \/ /\ primary = Missing /\ kills = setting.kills
         /\ \A p \in Savers : pc[p] \in {"idle", "open", "write", "rename"}
         /\ (\A p \in Savers : pc[p] \in {"idle", "open"}) => temp \in unsure

(* No step leaves a place from which the fallback does not recover.        *)
LEMMA FallbackStep ==
    ASSUME TypeOK, SavingIsKnown, AloneOrOverlapped, FallbackCovers, [Next]_vars
    PROVE  FallbackCovers'
<1> USE DEF TypeOK, SavingIsKnown, AloneOrOverlapped, Alone, Expected, FallbackCovers
<1> USE DEF files, save, load, history, Go, Return, Close
<1> USE MarkersAreNoSnapshots, SettingsType
<1>0. CASE Next
  <2>1. setting' = setting /\ Step
    BY <1>0 DEF Next
  <2>2. ASSUME NEW p \in Savers, NEW s \in Snapshots, BeginSave(p, s) PROVE FallbackCovers'
    <3>1. CASE Quiet
      <4>1. /\ pc' = [pc EXCEPT ![p] = "open"] /\ \A q \in Savers : pc[q] = "idle"
            /\ UNCHANGED <<primary, temp, acked, unsure, kills, sound>>
        BY <2>2, <3>1 DEF BeginSave, Quiet
      <4>2. \A q \in Savers : pc'[q] \in {"idle", "open"}
        BY <4>1
      <4>3. QED
        BY <2>1, <4>1, <4>2
    <3>2. CASE ~Quiet
      BY <2>2, <3>2 DEF BeginSave
    <3>3. QED
      BY <3>1, <3>2
  <2>3. ASSUME NEW p \in Savers, OpenTemp(p) PROVE FallbackCovers'
    BY <2>1, <2>3 DEF OpenTemp
  <2>4. ASSUME NEW p \in Savers, WriteTemp(p) PROVE FallbackCovers'
    BY <2>1, <2>4 DEF WriteTemp, Put
  <2>5. ASSUME NEW p \in Savers, WriteFails(p) PROVE FallbackCovers'
    BY <2>1, <2>5 DEF WriteFails, Put
  <2>6. ASSUME NEW p \in Savers, Rename(p) PROVE FallbackCovers'
    BY <2>1, <2>6 DEF Rename, Renamed
  <2>7. ASSUME NEW p \in Savers, Discard(p) PROVE FallbackCovers'
    BY <2>1, <2>7 DEF Discard
  <2>8. ASSUME NEW p \in Savers, RemovePrimary(p) PROVE FallbackCovers'
    BY <2>1, <2>8 DEF RemovePrimary
  <2>9. ASSUME NEW p \in Savers, RenameAgain(p) PROVE FallbackCovers'
    BY <2>1, <2>9 DEF RenameAgain, Renamed
  <2>10. ASSUME NEW p \in Savers, SaveReturnsOk(p) PROVE FallbackCovers'
    BY <2>1, <2>10 DEF SaveReturnsOk
  <2>11. ASSUME NEW p \in Savers, Kill(p) PROVE FallbackCovers'
    <3>1. /\ pc[p] # "idle" /\ pc' = [pc EXCEPT ![p] = "idle"]
          /\ kills < setting.kills /\ kills' = kills + 1
          /\ acked' = acked /\ sound' = sound
          /\ sound => unsure' = unsure \cup {saving[p]}
          /\ pc[p] # "write" => temp' = temp /\ primary' = primary
          /\ writes[p] # "primary" => primary' = primary
      BY <2>11 DEF Kill, Put
    <3>2. kills \in Nat /\ setting.kills \in Nat
      OBVIOUS
    <3>3. setting.kills <= 1 => kills' = setting.kills
      BY <3>1, <3>2
    <3>4. kills # setting.kills
      BY <3>1, <3>2
    <3>5. QED
      BY <2>1, <3>1, <3>3, <3>4
  <2>12. CASE ReadPrimary
    BY <2>1, <2>12 DEF ReadPrimary
  <2>13. CASE ReadTemp
    BY <2>1, <2>13 DEF ReadTemp
  <2>14. QED
    BY <2>1, <2>2, <2>3, <2>4, <2>5, <2>6, <2>7, <2>8, <2>9, <2>10, <2>11, <2>12, <2>13 DEF Step
<1>1. CASE UNCHANGED vars
  BY <1>1 DEF vars
<1>2. QED
  BY <1>0, <1>1

(* On every platform, without failing calls and after one kill anywhere,   *)
(* the next command loads the last acknowledged snapshot or the one whose  *)
(* save was killed, unless saves overlapped since.                         *)
THEOREM OneKillIsRecovered == Spec => []NextCommandLoads
<1>1. Init => FallbackCovers
  BY DEF Init, FallbackCovers
<1>2. TypeOK /\ SavingIsKnown /\ AloneOrOverlapped /\ FallbackCovers /\ [Next]_vars
      => FallbackCovers'
  BY FallbackStep
<1>3. TypeOK /\ FallbackCovers => NextCommandLoads
  BY MarkersAreNoSnapshots
  DEF TypeOK, FallbackCovers, NextCommandLoads, Quiet, Load, LoadedFrom
<1>4. QED
  BY <1>1, <1>2, <1>3, AloneInvariant, PTL DEF Spec

-----------------------------------------------------------------------------
(* Each step of the two files is a step of the register or a stutter.      *)
LEMMA StepImplementsRegister ==
    ASSUME TypeOK, SavingIsKnown, AloneOrOverlapped, PrimaryIsDurable, PrimaryIsDurable',
           [Next]_vars
    PROVE  [Register!SRNext]_(Register!srVars)
<1> USE DEF TypeOK, SavingIsKnown, files, save, load, history, Go, Return, Close
<1> USE MarkersAreNoSnapshots
<1>1. setting' = setting
  BY DEF Next, vars
<1>2. CASE ~Atomic
  BY <1>1, <1>2 DEF Atomic, Register!srVars
<1>3. CASE Atomic
  <2>1. Atomic /\ Atomic' /\ setting.replaces
    BY <1>1, <1>3 DEF Atomic
  <2>2. /\ Load = primary /\ Load' = primary' /\ reader = "idle" /\ primary # Missing
        /\ \A p \in Savers : pc[p] \notin {"remove", "again"}
    BY <1>1, <1>3 DEF Atomic, PrimaryIsDurable, Load, LoadedFrom
  <2>3. \A p \in Savers : pc[p] # "idle" => Alone(p) /\ Expected(p)
    BY <1>3 DEF Atomic, AloneOrOverlapped
  <2> USE DEF Alone, Expected
  <2>4. ASSUME NEW p \in Savers, NEW s \in Snapshots, BeginSave(p, s) PROVE Register!BeginSave(p)
    BY <2>1, <2>2, <2>4 DEF BeginSave, Register!BeginSave
  <2>5. ASSUME NEW p \in Savers, OpenTemp(p) PROVE UNCHANGED Register!srVars
    BY <2>1, <2>2, <2>5 DEF OpenTemp, Register!srVars
  <2>6. ASSUME NEW p \in Savers, WriteTemp(p) PROVE UNCHANGED Register!srVars
    BY <2>1, <2>2, <2>3, <2>6 DEF WriteTemp, Put, Register!srVars
  <2>7. ASSUME NEW p \in Savers, WriteFails(p) PROVE Register!Fail(p)
    BY <2>1, <2>2, <2>3, <2>7 DEF WriteFails, Put, Register!Fail, Register!End
  <2>8. ASSUME NEW p \in Savers, Rename(p)
        PROVE  Register!TakeEffect(p) \/ UNCHANGED Register!srVars
    <3>1. \/ primary' = saving[p] /\ pc' = [pc EXCEPT ![p] = "done"]
          \/ /\ primary' = primary
             /\ pc' \in {[pc EXCEPT ![p] = "remove"], [pc EXCEPT ![p] = "discard"]}
      BY <2>3, <2>8 DEF Rename, Renamed
    <3>2. pc[p] = "rename" /\ saving[p] # Nothing /\ UNCHANGED <<saving, loaded>>
      BY <2>8 DEF Rename
    <3>3. CASE primary' = saving[p] /\ pc' = [pc EXCEPT ![p] = "done"]
      BY <2>1, <2>2, <3>2, <3>3 DEF Register!TakeEffect
    <3>4. CASE /\ primary' = primary
               /\ pc' \in {[pc EXCEPT ![p] = "remove"], [pc EXCEPT ![p] = "discard"]}
      BY <2>1, <2>2, <3>2, <3>4 DEF Register!srVars
    <3>5. QED
      BY <3>1, <3>3, <3>4
  <2>9. ASSUME NEW p \in Savers, Discard(p) PROVE Register!Fail(p)
    BY <2>1, <2>2, <2>9 DEF Discard, Register!Fail, Register!End
  <2>10. ASSUME NEW p \in Savers, RemovePrimary(p) \/ RenameAgain(p) PROVE FALSE
    BY <2>2, <2>10 DEF RemovePrimary, RenameAgain
  <2>11. ASSUME NEW p \in Savers, SaveReturnsOk(p) PROVE Register!Acknowledge(p)
    BY <2>1, <2>2, <2>11 DEF SaveReturnsOk, Register!Acknowledge, Register!End
  <2>12. ASSUME NEW p \in Savers, Kill(p) PROVE Register!Die(p)
    BY <2>1, <2>2, <2>3, <2>12 DEF Kill, Put, Register!Die, Register!End
  <2>13. ASSUME ReadPrimary PROVE Register!Get
    BY <2>1, <2>2, <2>13 DEF ReadPrimary, Register!Get
  <2>14. CASE ReadTemp
    BY <2>2, <2>14 DEF ReadTemp
  <2>15. CASE UNCHANGED vars
    BY <2>1, <2>2, <2>15 DEF vars, Register!srVars
  <2>16. QED
    BY <2>4, <2>5, <2>6, <2>7, <2>8, <2>9, <2>10, <2>11, <2>12, <2>13, <2>14, <2>15
    DEF Next, Step, Register!SRNext
<1>4. QED
  BY <1>2, <1>3

(* Where rename replaces, a snapshot exists and the path is not shared by   *)
(* workspaces, the two files implement one atomic register: a save that     *)
(* reports an error changed nothing, a killed one happened or did not, and  *)
(* no load sees anything in between.                                        *)
THEOREM ReplaceImplementsRegister == Spec => ImplementsRegister
<1>1. Init => Register!SRInit
  BY DefaultType, MarkersAreNoSnapshots
  DEF Init, Atomic, Register!SRInit, Load, LoadedFrom
<1>2. /\ TypeOK /\ SavingIsKnown /\ AloneOrOverlapped /\ PrimaryIsDurable
      /\ PrimaryIsDurable' /\ [Next]_vars
      => [Register!SRNext]_(Register!srVars)
  BY StepImplementsRegister
<1>3. QED
  BY <1>1, <1>2, DurableInvariant, PTL DEF Spec, ImplementsRegister, Register!SRSpec
=============================================================================
