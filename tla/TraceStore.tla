------------------------------ MODULE TraceStore ------------------------------
(***************************************************************************)
(* The trace log events.jsonl (src/crates/apps/src/storage/trace.rs): a    *)
(* command appends one JSON line per event, straight to an unbuffered      *)
(* file; a commit that fails after its event was appended takes that event *)
(* back by rewriting the whole file; `status`, `replay`, `doctor` and      *)
(* `resume` read the file back.  One process writes at a time (it holds    *)
(* the workspace lock) and may be killed anywhere; loads take no lock.     *)
(*                                                                         *)
(* The file is its newline-terminated lines and what follows the last      *)
(* newline.  An event is its number, its intent, and whether it replaces   *)
(* an event that was taken back.                                           *)
(***************************************************************************)
EXTENDS Naturals, Sequences, SequencesExt

CONSTANTS Intents,    \* intent ids
          MaxEvents,  \* bound on the events ever appended
          Malformed,  \* a terminated line that is not one JSON event
          NoTail,     \* nothing follows the last newline
          Part,       \* the beginning of one event
          Glued,      \* an event written behind an unterminated line
          NoEvent,    \* nothing is being appended
          Rewrites,   \* commits fail after their event was appended
          IoErrors,   \* file-system calls may fail
          MaxKills    \* how often a writer is killed

Events == [n : 1..MaxEvents, intent : Intents, replaces : BOOLEAN]

ASSUME MarkersAreNoEvents ==
    {Malformed, NoTail, Part, Glued, NoEvent} \cap Events = {}
ASSUME TraceBoundsAreNat == MaxEvents \in Nat /\ MaxKills \in Nat

VARIABLES lines,    \* the terminated lines: events or Malformed
          tail,     \* what follows the last newline
          pc,       \* where the writer is
          writing,  \* the event being appended, or NoEvent
          keep,     \* the lines a rewrite will put back
          count,    \* events begun so far
          kills,    \* kills so far
          acked,    \* history: the events whose append returned Ok and that
                    \* were not taken back since
          rewriteCut \* history: a rewrite did not put its lines back

file == <<lines, tail>>
history == <<acked, rewriteCut>>
vars == <<file, pc, writing, keep, count, kills, history>>

PCs == {"idle", "open", "part", "newline", "done", "appended", "truncated", "replace"}

\* load_events: a line that does not parse is an error, unless it is the last
\* one and unterminated ...
LoadFails == Malformed \in Range(lines)

\* ... and else these are the events.
LoadEvents == IF tail \in {NoTail, Part, Glued} THEN lines ELSE Append(lines, tail)

Init ==
    /\ lines = <<>> /\ tail = NoTail
    /\ pc = "idle" /\ writing = NoEvent /\ keep = <<>>
    /\ count = 0 /\ kills = 0
    /\ acked = {} /\ rewriteCut = FALSE

\* commit_prepared_run calls append_intent_event for the run of intent i.
BeginAppend(i) ==
    /\ pc = "idle" /\ count < MaxEvents
    /\ count' = count + 1
    /\ writing' = [n |-> count + 1, intent |-> i, replaces |-> FALSE]
    /\ pc' = "open"
    /\ UNCHANGED <<file, keep, kills, history>>

\* serde_json::to_writer writes token by token: a first token is there ...
WriteFirstToken ==
    /\ pc = "open"
    /\ tail' = IF tail = NoTail THEN Part ELSE Glued
    /\ pc' = "part"
    /\ UNCHANGED <<lines, writing, keep, count, kills, history>>

\* ... and the rest of the event follows.
WriteRest ==
    /\ pc = "part"
    /\ tail' = IF tail = Part THEN writing ELSE Glued
    /\ pc' = "newline"
    /\ UNCHANGED <<lines, writing, keep, count, kills, history>>

\* The newline makes one line of everything behind the previous newline.
WriteNewline ==
    /\ pc = "newline"
    /\ lines' = Append(lines, IF tail = Glued THEN Malformed ELSE tail)
    /\ tail' = NoTail
    /\ pc' = "done"
    /\ UNCHANGED <<writing, keep, count, kills, history>>

AppendReturnsOk ==
    /\ pc = "done"
    /\ pc' = "appended"
    /\ acked' = acked \cup {writing}
    /\ UNCHANGED <<file, writing, keep, count, kills, rewriteCut>>

AppendFails ==
    /\ IoErrors
    /\ pc \in {"open", "part", "newline"}
    /\ pc' = "idle"
    /\ writing' = NoEvent
    /\ UNCHANGED <<file, keep, count, kills, history>>

\* The lines as remove_last_event_for_intent sees them: a tail is a line too.
AllLines == IF tail = NoTail THEN lines ELSE Append(lines, tail)

\* What a rewrite does first: fs::write truncates the file.
TruncateTo(rest) ==
    /\ keep' = rest
    /\ lines' = <<>> /\ tail' = NoTail
    /\ acked' = acked \ {writing}
    /\ pc' = "truncated"
    /\ UNCHANGED <<writing, count, kills, rewriteCut>>

CommitFailed ==
    /\ Rewrites
    /\ pc = "appended" /\ ~writing.replaces

\* The last line is an event of this intent.
LastIsOurs ==
    AllLines # <<>> /\ Last(AllLines) \in Events /\ Last(AllLines).intent = writing.intent

\* Mutant of TakeBack: every event of the intent goes.
TakeBackAllOfIntent ==
    /\ CommitFailed /\ LastIsOurs
    /\ TruncateTo(SelectSeq(AllLines,
           LAMBDA l : l \notin Events \/ l.intent # writing.intent))

\* remove_last_event_for_intent, after the memory or the snapshot failed.
TakeBack ==
    /\ CommitFailed /\ LastIsOurs
    /\ TruncateTo(Front(AllLines))

\* It reports an error or Ok(false), which rewrite_failed_commit_visibility
\* ignores; so does a file it cannot read.
TakeBackDoesNothing ==
    /\ CommitFailed
    /\ ~LastIsOurs \/ IoErrors
    /\ pc' = "replace"
    /\ UNCHANGED <<file, writing, keep, count, kills, history>>

\* fs::write puts the other lines back.
WriteBack ==
    /\ pc = "truncated"
    /\ lines' = keep
    /\ keep' = <<>>
    /\ pc' = "replace"
    /\ UNCHANGED <<tail, writing, count, kills, history>>

\* The event of the failed commit is appended in its place.
BeginReplacement ==
    /\ pc = "replace" /\ count < MaxEvents
    /\ count' = count + 1
    /\ writing' = [n |-> count + 1, intent |-> writing.intent, replaces |-> TRUE]
    /\ pc' = "open"
    /\ UNCHANGED <<file, keep, kills, history>>

\* The command ends: its commit is complete, or it failed and the failure
\* report could not be written.
CommandEnds ==
    /\ pc \in {"appended", "replace"}
    /\ pc' = "idle"
    /\ writing' = NoEvent
    /\ UNCHANGED <<file, keep, count, kills, history>>

\* What a line that ends early leaves: an event may be complete without its
\* newline, a malformed line never parses.
CutLine(l) == IF l = Malformed THEN {NoTail, Glued} ELSE {NoTail, Part, l}

\* The writing of the kept lines ends early, after k of them and perhaps a
\* part of the next one.
CutRewrite ==
    \E k \in 0..Len(keep) :
        /\ lines' = SubSeq(keep, 1, k)
        /\ tail' \in IF k < Len(keep) THEN CutLine(keep[k + 1]) ELSE {NoTail}
        /\ rewriteCut' = (rewriteCut \/ k < Len(keep))

\* fs::write fails half way; the error is ignored.
WriteBackFails ==
    /\ IoErrors
    /\ pc = "truncated"
    /\ CutRewrite
    /\ keep' = <<>>
    /\ pc' = "replace"
    /\ UNCHANGED <<writing, count, kills, acked>>

\* The writer is killed; the next command starts with the file as it is.
Kill ==
    /\ pc # "idle" /\ kills < MaxKills
    /\ kills' = kills + 1
    /\ IF pc = "truncated" THEN CutRewrite ELSE UNCHANGED <<file, rewriteCut>>
    /\ pc' = "idle"
    /\ writing' = NoEvent
    /\ keep' = <<>>
    /\ UNCHANGED <<count, acked>>

Next ==
    \/ \E i \in Intents : BeginAppend(i)
    \/ WriteFirstToken \/ WriteRest \/ WriteNewline
    \/ AppendReturnsOk \/ AppendFails
    \/ TakeBack \/ TakeBackDoesNothing \/ WriteBack \/ WriteBackFails
    \/ BeginReplacement \/ CommandEnds \/ Kill

Spec == Init /\ [][Next]_vars
-----------------------------------------------------------------------------
\* No two events are the same or in another order than the one in which their
\* appends began.
InOrder(events) ==
    \A i, j \in DOMAIN events : i < j => events[i].n < events[j].n

\* Every load returns every event whose append was acknowledged, once and in
\* order; events whose append was cut may be among them.
AckedEventsLoad ==
    /\ ~LoadFails
    /\ acked \subseteq Range(LoadEvents)
    /\ InOrder(LoadEvents)

\* docs/RUNBOOK.md:140: a torn line at the end is ignored and the events
\* before it are read, until something is appended behind it; and outside
\* a rewrite no acknowledged event is lost.
AckedEventsLoadUntilGlued ==
    \/ LoadFails \/ pc = "truncated" \/ rewriteCut
    \/ AckedEventsLoad

=============================================================================
