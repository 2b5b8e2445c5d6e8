----------------------------- MODULE MCStateStore -----------------------------
(***************************************************************************)
(* The instance of StateStore for TLC.  One save at a time: where rename   *)
(* replaces, with and without a snapshot at the start, every call may fail *)
(* and two saves are killed; where it does not, one save is killed.  Two   *)
(* savers of one path: the same with one kill each.                        *)
(***************************************************************************)
EXTENDS StateStore

Setting(replaces, fresh, shared, errors, n) ==
    [replaces |-> replaces, fresh |-> fresh, shared |-> shared, errors |-> errors, kills |-> n]
MCSettings ==
    {Setting(TRUE, f, FALSE, TRUE, 2) : f \in BOOLEAN}
      \cup {Setting(FALSE, f, FALSE, FALSE, 1) : f \in BOOLEAN}
      \cup {Setting(TRUE, FALSE, TRUE, TRUE, 1), Setting(FALSE, FALSE, TRUE, FALSE, 1)}
=============================================================================
