--------------------------- MODULE SnapshotRegister ---------------------------
(***************************************************************************)
(* What a caller of StateStore may rely on: one snapshot is stored; a save *)
(* takes effect in one step or not at all; a save that reports an error    *)
(* has not taken effect; a save whose process is killed has or has not; a  *)
(* load returns the stored snapshot.                                       *)
(***************************************************************************)
CONSTANTS Values,   \* the snapshots
          Nothing,  \* no save is going on
          Writers   \* the commands that save

VARIABLES stored,   \* the snapshot a load returns
          input,    \* the snapshot a writer saves, or Nothing
          applied,  \* whether its save has taken effect
          got       \* what the last load returned

srVars == <<stored, input, applied, got>>

SRInit ==
    /\ stored \in Values
    /\ input = [p \in Writers |-> Nothing]
    /\ applied = [p \in Writers |-> FALSE]
    /\ got \in Values

BeginSave(p) ==
    /\ input[p] = Nothing
    /\ \E s \in Values : input' = [input EXCEPT ![p] = s]
    /\ UNCHANGED <<stored, applied, got>>

TakeEffect(p) ==
    /\ input[p] # Nothing /\ ~applied[p]
    /\ stored' = input[p]
    /\ applied' = [applied EXCEPT ![p] = TRUE]
    /\ UNCHANGED <<input, got>>

\* The save of p is over.
End(p) ==
    /\ input' = [input EXCEPT ![p] = Nothing]
    /\ applied' = [applied EXCEPT ![p] = FALSE]
    /\ UNCHANGED <<stored, got>>

\* Ok(()): the save has taken effect.
Acknowledge(p) == applied[p] /\ End(p)

\* Err(_): it has not.
Fail(p) == input[p] # Nothing /\ ~applied[p] /\ End(p)

\* The saving process is killed before or after the effect.
Die(p) == input[p] # Nothing /\ End(p)

Get ==
    /\ got' = stored
    /\ UNCHANGED <<stored, input, applied>>

SRNext ==
    \/ \E p \in Writers : BeginSave(p) \/ TakeEffect(p) \/ Acknowledge(p) \/ Fail(p) \/ Die(p)
    \/ Get

SRSpec == SRInit /\ [][SRNext]_srVars
=============================================================================
