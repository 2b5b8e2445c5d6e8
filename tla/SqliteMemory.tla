----------------------------- MODULE SqliteMemory -----------------------------
(***************************************************************************)
(* The SQLite memory (src/crates/adapters/src/memory_sqlite.rs): rows and  *)
(* term index in two tables, changed by several statements in one          *)
(* immediate transaction.  SQLite itself is external: a transaction sees   *)
(* its own changes, others see them after the commit, an immediate one     *)
(* fails while another is open, and what was not committed is rolled back. *)
(***************************************************************************)
EXTENDS MemoryIndex

CONSTANTS SqAdapters,  \* processes, each with a connection
          MaxSqOps, MaxSqFaults  \* bounds; a kill counts as a fault

ASSUME SqAssumption == MaxSqOps \in Nat /\ MaxSqFaults \in Nat

VARIABLES sqRows, sqPostings,  \* the committed tables
          sqAt,    \* where a process is in its transaction
          sqDoing, \* the operation it is in
          sqView,  \* the tables as its transaction sees them
          sqLeft,  \* terms it has still to insert
          sqUsed   \* operations and faults so far

sqVars == <<sqRows, sqPostings, sqAt, sqDoing, sqView, sqLeft, sqUsed>>

SqOp(kind, keys, v) == [kind |-> kind, keys |-> keys, value |-> v]
SqNoOp == SqOp("none", {}, NoValue)
Tables(rows, postings) == [rows |-> rows, postings |-> postings]
NoTables == Tables(EmptyMap, {})

SqInit ==
    /\ sqRows = EmptyMap /\ sqPostings = {}
    /\ sqAt = [a \in SqAdapters |-> "idle"]
    /\ sqDoing = [a \in SqAdapters |-> SqNoOp]
    /\ sqView = [a \in SqAdapters |-> NoTables]
    /\ sqLeft = [a \in SqAdapters |-> {}]
    /\ sqUsed = [ops |-> 0, faults |-> 0]

SqGo(a, place) == sqAt' = [sqAt EXCEPT ![a] = place]
SqStart == sqUsed.ops < MaxSqOps /\ sqUsed' = [sqUsed EXCEPT !.ops = @ + 1]
InTransaction == {a \in SqAdapters : sqAt[a] # "idle"}

\* BEGIN IMMEDIATE.
SqBegin(a, op, place) ==
    /\ sqAt[a] = "idle" /\ SqStart
    /\ InTransaction = {}
    /\ SqGo(a, place)
    /\ sqDoing' = [sqDoing EXCEPT ![a] = op]
    /\ sqView' = [sqView EXCEPT ![a] = Tables(sqRows, sqPostings)]
    /\ UNCHANGED <<sqRows, sqPostings>>

\* store_at: row, old terms, new terms one by one.
SqStore(a) ==
    \E k \in Keys, v \in Values :
      /\ SqBegin(a, SqOp("store", {k}, v), "row")
      /\ sqLeft' = [sqLeft EXCEPT ![a] = TermsOf[<<k, v>>]]

\* delete, and prune_before, which takes the keys older than its cutoff: terms
\* first, then the row.
SqDelete(a) ==
    \E keys \in SUBSET Keys :
      /\ Cardinality(keys) = 1 \/ \A k \in keys : sqRows[k] # NoValue
      /\ SqBegin(a, SqOp("delete", keys, NoValue), "terms")
      /\ UNCHANGED sqLeft

\* Another transaction is open past the busy timeout: an error.
SqBusy(a) ==
    /\ sqAt[a] = "idle" /\ InTransaction # {} /\ SqStart
    /\ UNCHANGED <<sqRows, sqPostings, sqAt, sqDoing, sqView, sqLeft>>

SqRow(a) ==
    /\ sqAt[a] = "row"
    /\ SqGo(a, IF sqDoing[a].kind = "store" THEN "terms" ELSE "commit")
    /\ sqView' = [sqView EXCEPT ![a].rows =
                     [k \in Keys |-> IF k \in sqDoing[a].keys THEN sqDoing[a].value ELSE @[k]]]
    /\ UNCHANGED <<sqRows, sqPostings, sqDoing, sqLeft, sqUsed>>

\* Mutant of SqDeleteTerms: a store leaves the terms of the old value.
SqDeleteTermsOnDeleteOnly(a) ==
    /\ sqAt[a] = "terms"
    /\ SqGo(a, IF sqDoing[a].kind = "store" THEN "insert" ELSE "row")
    /\ sqView' = IF sqDoing[a].kind = "store" THEN sqView
                 ELSE [sqView EXCEPT ![a].postings = {p \in @ : p[2] \notin sqDoing[a].keys}]
    /\ UNCHANGED <<sqRows, sqPostings, sqDoing, sqLeft, sqUsed>>

SqDeleteTerms(a) ==
    /\ sqAt[a] = "terms"
    /\ SqGo(a, IF sqDoing[a].kind = "store" THEN "insert" ELSE "row")
    /\ sqView' = [sqView EXCEPT ![a].postings = {p \in @ : p[2] \notin sqDoing[a].keys}]
    /\ UNCHANGED <<sqRows, sqPostings, sqDoing, sqLeft, sqUsed>>

SqInsertTerm(a) ==
    /\ sqAt[a] = "insert"
    /\ \/ \E t \in sqLeft[a] :
            /\ sqView' = [sqView EXCEPT ![a].postings = @ \cup ({t} \X sqDoing[a].keys)]
            /\ sqLeft' = [sqLeft EXCEPT ![a] = @ \ {t}]
            /\ UNCHANGED sqAt
       \/ sqLeft[a] = {} /\ SqGo(a, "commit") /\ UNCHANGED <<sqView, sqLeft>>
    /\ UNCHANGED <<sqRows, sqPostings, sqDoing, sqUsed>>

SqEnd(a) ==
    /\ SqGo(a, "idle")
    /\ sqDoing' = [sqDoing EXCEPT ![a] = SqNoOp]
    /\ sqView' = [sqView EXCEPT ![a] = NoTables]
    /\ sqLeft' = [sqLeft EXCEPT ![a] = {}]

SqCommit(a) ==
    /\ sqAt[a] = "commit" /\ SqEnd(a)
    /\ sqRows' = sqView[a].rows /\ sqPostings' = sqView[a].postings
    /\ UNCHANGED sqUsed

\* A statement or the commit fails and the transaction is dropped, or the
\* process is killed: SQLite rolls back.
SqRollback(a) ==
    /\ sqAt[a] # "idle" /\ SqEnd(a)
    /\ sqUsed.faults < MaxSqFaults /\ sqUsed' = [sqUsed EXCEPT !.faults = @ + 1]
    /\ UNCHANGED <<sqRows, sqPostings>>

\* recall of a query that is not blank, by a process outside of a transaction.
SqRecall(query) == Matched(sqRows, sqPostings, query)

SqNext ==
    \E a \in SqAdapters :
      \/ SqStore(a) \/ SqDelete(a) \/ SqBusy(a)
      \/ SqRow(a) \/ SqDeleteTerms(a) \/ SqInsertTerm(a)
      \/ SqCommit(a) \/ SqRollback(a)

SqSpec == SqInit /\ [][SqNext]_sqVars

-----------------------------------------------------------------------------
(* Properties.                                                             *)

SqTables == [rows : Maps, postings : SUBSET (Terms \X Keys)]

SqTypeOK ==
    /\ sqRows \in Maps /\ sqPostings \in SUBSET (Terms \X Keys)
    /\ sqAt \in [SqAdapters -> {"idle", "row", "terms", "insert", "commit"}]
    /\ sqDoing \in [SqAdapters -> [kind : {"none", "store", "delete"}, keys : SUBSET Keys,
                                   value : Values \cup {NoValue}]]
    /\ sqView \in [SqAdapters -> SqTables]
    /\ sqLeft \in [SqAdapters -> SUBSET Terms]
    /\ sqUsed \in [ops : 0..MaxSqOps, faults : 0..MaxSqFaults]

\* What any process recalls, at any moment, is exactly the records with every
\* term of the query: the two tables agree whenever another process can see
\* them (memory_sqlite.rs:83-130, :310-336).
SqRecallFindsWhatIsStored == \A query \in SUBSET Terms : SqRecall(query) = Found(sqRows, query)
=============================================================================
