----------------------------- MODULE TraceStoreProofs -----------------------------
(***************************************************************************)
(* What a load of the trace log returns, for every number of events,       *)
(* intents and kills, with and without I/O errors.                         *)
(***************************************************************************)
EXTENDS TraceStore, SequenceTheorems, TLAPS

Lines == Events \cup {Malformed}

\* The lines that are in the file, or that a rewrite is about to put back.
Log == IF pc = "truncated" THEN keep ELSE lines

\* Nothing repairs this.
Damaged == Malformed \in Range(Log) \/ rewriteCut

TraceTypes ==
    /\ lines \in Seq(Lines) /\ keep \in Seq(Lines)
    /\ tail \in Events \cup {NoTail, Part, Glued}
    /\ pc \in PCs
    /\ writing \in Events \cup {NoEvent}
    /\ pc # "idle" => writing \in Events
    /\ count \in 0..MaxEvents
    /\ acked \subseteq Events /\ rewriteCut \in BOOLEAN

\* What follows the last newline while an event is written.
TailIsOurs ==
    /\ pc \in {"open", "part", "newline"} => writing.n = count
    /\ pc = "newline" => tail \in {writing, Glued}
    /\ pc \in {"done", "appended", "truncated"} => tail = NoTail

\* What holds of the log as long as it is not damaged: the numbers rise, those
\* of a tail and of an event that is being written are higher still, the event
\* just written is the last line, and the acknowledged events are there.
Healthy ==
    /\ InOrder(Log)
    /\ \A i \in DOMAIN Log :
          /\ Log[i].n <= count
          /\ pc \in {"open", "part", "newline"} => Log[i].n < count
          /\ tail \in Events => Log[i].n < tail.n
    /\ acked \subseteq Range(Log)
    /\ pc \in {"done", "appended"} => Log # <<>> /\ Log[Len(Log)] = writing

TraceInv == TraceTypes /\ TailIsOurs /\ (~Damaged => Healthy)

-----------------------------------------------------------------------------
(* What the two ways to shorten a log leave of it. *)

\* Taking back an event leaves the lines before it, a malformed one among them.
LEMMA FrontOfLog ==
  ASSUME NEW log \in Seq(Lines), log # <<>>, log[Len(log)] \in Events
  PROVE  /\ Front(log) \in Seq(Lines)
         /\ DOMAIN Front(log) = 1..(Len(log) - 1)
         /\ \A i \in 1..(Len(log) - 1) : Front(log)[i] = log[i]
         /\ Range(Front(log)) \subseteq Range(log)
         /\ Range(log) \ {log[Len(log)]} \subseteq Range(Front(log))
         /\ Malformed \in Range(log) => Malformed \in Range(Front(log))
<1>1. Len(log) \in Nat \ {0}
  OBVIOUS
<1>2. /\ Front(log) \in Seq(Lines)
      /\ DOMAIN Front(log) = 1..(Len(log) - 1)
      /\ \A i \in 1..(Len(log) - 1) : Front(log)[i] = log[i]
  BY <1>1, SubSeqProperties, Z3 DEF Front
<1>3. Range(Front(log)) \subseteq Range(log)
  BY <1>1, <1>2 DEF Range
<1>4. Range(log) \ {log[Len(log)]} \subseteq Range(Front(log))
  BY <1>1, <1>2 DEF Range
<1>5. Malformed # log[Len(log)]
  BY MarkersAreNoEvents
<1> QED
  BY <1>2, <1>3, <1>4, <1>5

\* A rewrite that is cut leaves a log, and all of it unless it counts as cut.
LEMMA CutLog ==
  ASSUME keep \in Seq(Lines), tail \in Events \cup {NoTail, Part, Glued},
         rewriteCut \in BOOLEAN, CutRewrite
  PROVE  /\ lines' \in Seq(Lines)
         /\ tail' \in Events \cup {NoTail, Part, Glued}
         /\ rewriteCut' \in BOOLEAN
         /\ rewriteCut => rewriteCut'
         /\ rewriteCut' \/ (lines' = keep /\ tail' = NoTail)
<1>1. PICK k \in 0..Len(keep) :
        /\ lines' = SubSeq(keep, 1, k)
        /\ tail' \in IF k < Len(keep) THEN CutLine(keep[k + 1]) ELSE {NoTail}
        /\ rewriteCut' = (rewriteCut \/ k < Len(keep))
  BY DEF CutRewrite
<1>2. lines' \in Seq(Lines)
  BY <1>1, SubSeqProperties
<1>3. tail' \in Events \cup {NoTail, Part, Glued}
  <2>1. CASE k < Len(keep)
    <3>1. keep[k + 1] \in Lines
      BY <2>1
    <3> QED
      BY <1>1, <2>1, <3>1 DEF CutLine, Lines
  <2>2. CASE ~(k < Len(keep))
    BY <1>1, <2>2
  <2> QED
    BY <2>1, <2>2
<1>4. CASE k < Len(keep)
  BY <1>1, <1>2, <1>3, <1>4
<1>5. CASE k = Len(keep)
  BY <1>1, <1>2, <1>3, <1>5, SubSeqFull
<1> QED
  BY <1>4, <1>5

-----------------------------------------------------------------------------
LEMMA TraceInit == Init => TraceInv
<1> SUFFICES ASSUME Init PROVE TraceInv
  OBVIOUS
<1>0. <<>> \in Seq(Lines) /\ 0 \in 0..MaxEvents
  BY TraceBoundsAreNat
<1>1. TraceTypes
  BY <1>0 DEF Init, TraceTypes, PCs
<1>2. TailIsOurs
  BY DEF Init, TailIsOurs
<1>3. Healthy
  BY DEF Init, Healthy, Log, InOrder, Range
<1> QED
  BY <1>1, <1>2, <1>3 DEF TraceInv

\* The event that is written next.
LEMMA NextEvent ==
  ASSUME TraceTypes, count < MaxEvents, NEW i \in Intents, NEW r \in BOOLEAN
  PROVE  /\ count + 1 \in 0..MaxEvents
         /\ [n |-> count + 1, intent |-> i, replaces |-> r] \in Events
BY TraceBoundsAreNat DEF TraceTypes, Events

\* At TakeBack there is no tail.
LEMMA TakesBackLastLine ==
  ASSUME TraceInv, TakeBack
  PROVE  /\ pc = "appended" /\ pc' = "truncated"
         /\ lines # <<>> /\ lines[Len(lines)] \in Events
         /\ keep' = Front(lines) /\ lines' = <<>> /\ tail' = NoTail
         /\ acked' = acked \ {writing}
         /\ UNCHANGED <<writing, count, kills, rewriteCut>>
BY DEF TraceInv, TailIsOurs, TakeBack, CommitFailed, LastIsOurs, TruncateTo, AllLines, Last

LEMMA TypesStep == ASSUME TraceInv, [Next]_vars PROVE TraceTypes'
<1> USE DEF TraceTypes
<1>0. TraceTypes
  BY DEF TraceInv
<1>1. ASSUME NEW i \in Intents, BeginAppend(i) PROVE TraceTypes'
  BY <1>0, <1>1, NextEvent DEF BeginAppend, PCs, file, history
<1>2. CASE WriteFirstToken
  BY <1>0, <1>2 DEF WriteFirstToken, PCs, history
<1>3. CASE WriteRest
  BY <1>0, <1>3 DEF WriteRest, PCs, history
<1>4. CASE WriteNewline
  <2>1. tail \in {writing, Glued}
    BY <1>4 DEF TraceInv, TailIsOurs, WriteNewline
  <2>2. (IF tail = Glued THEN Malformed ELSE tail) \in Lines
    BY <1>0, <1>4, <2>1 DEF WriteNewline, Lines
  <2>3. lines' \in Seq(Lines)
    BY <1>0, <1>4, <2>2, AppendProperties DEF WriteNewline
  <2> QED
    BY <1>0, <1>4, <2>3 DEF WriteNewline, PCs, history
<1>5. CASE AppendReturnsOk \/ AppendFails \/ CommandEnds \/ TakeBackDoesNothing
  BY <1>0, <1>5 DEF AppendReturnsOk, AppendFails, CommandEnds, TakeBackDoesNothing,
                    CommitFailed, PCs, file, history
<1>6. CASE TakeBack
  <2>1. keep' \in Seq(Lines)
    BY <1>0, <1>6, TakesBackLastLine, FrontOfLog
  <2>2. lines' \in Seq(Lines)
    BY <1>6, TakesBackLastLine
  <2> QED
    BY <1>0, <1>6, <2>1, <2>2, TakesBackLastLine DEF PCs
<1>7. CASE WriteBack
  BY <1>0, <1>7 DEF WriteBack, PCs, history
<1>8. CASE WriteBackFails
  BY <1>0, <1>8, CutLog DEF WriteBackFails, PCs
<1>9. CASE BeginReplacement
  <2>1. writing \in Events /\ writing.intent \in Intents
    BY <1>0, <1>9 DEF BeginReplacement, Events
  <2> QED
    BY <1>0, <1>9, <2>1, NextEvent DEF BeginReplacement, PCs, file, history
<1>10. CASE Kill
  <2>1. CASE pc = "truncated"
    BY <1>0, <1>10, <2>1, CutLog DEF Kill, PCs
  <2>2. CASE pc # "truncated"
    BY <1>0, <1>10, <2>2 DEF Kill, PCs, file
  <2> QED
    BY <2>1, <2>2
<1>11. CASE UNCHANGED vars
  BY <1>0, <1>11 DEF vars, file, history
<1> QED
  BY <1>1, <1>2, <1>3, <1>4, <1>5, <1>6, <1>7, <1>8, <1>9, <1>10, <1>11 DEF Next

LEMMA TailStep == ASSUME TraceInv, [Next]_vars PROVE TailIsOurs'
<1> USE DEF TailIsOurs
<1>0. TraceTypes /\ TailIsOurs
  BY DEF TraceInv
<1>1. CASE \E i \in Intents : BeginAppend(i)
  BY <1>0, <1>1 DEF BeginAppend
<1>2. CASE WriteFirstToken \/ WriteRest \/ WriteNewline
  BY <1>0, <1>2 DEF WriteFirstToken, WriteRest, WriteNewline
<1>3. CASE AppendReturnsOk \/ AppendFails \/ CommandEnds \/ TakeBackDoesNothing
  BY <1>0, <1>3 DEF AppendReturnsOk, AppendFails, CommandEnds, TakeBackDoesNothing, file
<1>4. CASE TakeBack
  BY <1>4, TakesBackLastLine
<1>5. CASE WriteBack \/ WriteBackFails \/ BeginReplacement \/ Kill
  BY <1>5 DEF WriteBack, WriteBackFails, BeginReplacement, Kill
<1>6. CASE UNCHANGED vars
  BY <1>0, <1>6 DEF vars, file
<1> QED
  BY <1>1, <1>2, <1>3, <1>4, <1>5, <1>6 DEF Next

-----------------------------------------------------------------------------
\* A log that is not damaged is a sequence of events.
LEMMA HealthyLog ==
  ASSUME TraceTypes, ~Damaged
  PROVE  /\ Log \in Seq(Events)
         /\ \A i \in DOMAIN Log : Log[i] \in Events /\ Log[i].n \in Nat
         /\ count \in Nat /\ ~rewriteCut
<1>1. Log \in Seq(Lines) /\ Malformed \notin Range(Log) /\ ~rewriteCut
  BY DEF TraceTypes, Damaged, Log
<1>2. Log \in Seq(Events)
  <2>1. \A i \in 1..Len(Log) : Log[i] \in Events
    BY <1>1 DEF Lines, Range
  <2> QED
    BY <1>1, <2>1
<1>3. \A e \in Events : e.n \in Nat
  BY TraceBoundsAreNat DEF Events
<1>4. count \in Nat
  BY TraceBoundsAreNat DEF TraceTypes
<1> QED
  BY <1>1, <1>2, <1>3, <1>4

\* An action that leaves the log and the acknowledged events, and that writes no
\* event of its own, leaves it healthy.
LEMMA SameLogIsHealthy ==
  ASSUME TraceTypes, ~Damaged, Healthy, Log' = Log, acked' = acked,
         tail' = tail \/ tail' \notin Events,
         \/ pc' \in {"idle", "replace"} /\ count' = count
         \/ pc' = "open" /\ count' = count + 1
         \/ pc' \in {"part", "newline"} /\ pc \in {"open", "part"} /\ count' = count
         \/ pc' = "appended" /\ pc = "done" /\ UNCHANGED <<writing, count>>
  PROVE  Healthy'
<1>1. /\ Log \in Seq(Events) /\ count \in Nat
      /\ \A i \in DOMAIN Log : Log[i] \in Events /\ Log[i].n \in Nat
  BY HealthyLog
<1>2. count' \in {count, count + 1}
  OBVIOUS
<1>3. ASSUME NEW i \in DOMAIN Log
      PROVE  /\ Log[i].n <= count'
             /\ pc' \in {"open", "part", "newline"} => Log[i].n < count'
             /\ tail' \in Events => Log[i].n < tail'.n
  <2>1. Log[i].n \in Nat /\ Log[i].n <= count
    BY <1>1 DEF Healthy
  <2>2. Log[i].n <= count'
    BY <1>1, <1>2, <2>1
  <2>3. pc' \in {"open", "part", "newline"} => Log[i].n < count'
    BY <1>1, <2>1 DEF Healthy
  <2>4. tail' \in Events => Log[i].n < tail'.n
    BY DEF Healthy
  <2> QED
    BY <2>2, <2>3, <2>4
<1>4. pc' \in {"done", "appended"} => Log # <<>> /\ Log[Len(Log)] = writing'
  BY DEF Healthy
<1> QED
  BY <1>3, <1>4 DEF Healthy, InOrder

LEMMA HealthStep == ASSUME TraceInv, [Next]_vars PROVE ~Damaged' => Healthy'
<1> SUFFICES ASSUME ~Damaged' PROVE Healthy'
  OBVIOUS
<1>0. TraceTypes /\ TailIsOurs /\ (~Damaged => Healthy)
  BY DEF TraceInv
<1>1. ASSUME NEW i \in Intents, BeginAppend(i) PROVE Healthy'
  <2>1. Log' = Log /\ ~Damaged
    BY <1>1 DEF BeginAppend, Log, Damaged, file, history
  <2> QED
    BY <1>0, <1>1, <2>1, SameLogIsHealthy DEF BeginAppend, file, history
<1>2. CASE WriteFirstToken
  <2>1. Log' = Log /\ ~Damaged
    BY <1>2 DEF WriteFirstToken, Log, Damaged, history
  <2>2. tail' \notin Events
    BY <1>2, MarkersAreNoEvents DEF WriteFirstToken
  <2> QED
    BY <1>0, <1>2, <2>1, <2>2, SameLogIsHealthy DEF WriteFirstToken, history
<1>3. CASE WriteRest
  <2>1. Log' = Log /\ ~Damaged
    BY <1>3 DEF WriteRest, Log, Damaged, history
  <2>2. writing \in Events /\ writing.n = count
    BY <1>0, <1>3 DEF WriteRest, TraceTypes, TailIsOurs
  <2>3. tail' \in Events => tail'.n = count
    BY <1>3, <2>2, MarkersAreNoEvents DEF WriteRest
  <2> QED
    BY <1>0, <1>3, <2>1, <2>3, HealthyLog DEF WriteRest, Healthy, InOrder, history
<1>4. CASE WriteNewline
  <2>1. pc = "newline" /\ writing \in Events /\ writing.n = count
    BY <1>0, <1>4 DEF WriteNewline, TraceTypes, TailIsOurs
  <2>2. Log = lines /\ Log' = Append(lines, IF tail = Glued THEN Malformed ELSE tail)
    BY <1>4 DEF WriteNewline, Log
  <2>3. (IF tail = Glued THEN Malformed ELSE tail) \in Lines
    BY <1>0, <2>1 DEF TailIsOurs, Lines
  <2>4. /\ Len(Log') = Len(lines) + 1 /\ DOMAIN Log' = 1..(Len(lines) + 1)
        /\ \A i \in 1..Len(lines) : Log'[i] = lines[i]
        /\ Log'[Len(lines) + 1] = (IF tail = Glued THEN Malformed ELSE tail)
    BY <1>0, <2>2, <2>3, AppendProperties DEF TraceTypes
  <2>5. Len(lines) \in Nat /\ DOMAIN lines = 1..Len(lines)
    BY <1>0 DEF TraceTypes
  <2>6. ~Damaged
    BY <1>4, <2>2, <2>4, <2>5 DEF WriteNewline, Damaged, Range, history
  <2>7. Log'[Len(lines) + 1] = writing
    BY <1>0, <2>1, <2>4, <2>5 DEF TailIsOurs, Damaged, Range
  <2>8. InOrder(Log)'
    BY <1>0, <2>1, <2>2, <2>4, <2>5, <2>6, <2>7, HealthyLog DEF Healthy, InOrder
  <2>9. Range(Log) \subseteq Range(Log')
    BY <2>2, <2>4, <2>5 DEF Range
  <2>10. tail' = NoTail /\ UNCHANGED <<count, writing, acked>> /\ pc' = "done"
    BY <1>4 DEF WriteNewline, history
  <2>11. \A i \in DOMAIN Log' : Log'[i].n <= count
    BY <1>0, <2>1, <2>2, <2>4, <2>5, <2>6, <2>7, HealthyLog DEF Healthy
  <2> QED
    BY <1>0, <2>4, <2>5, <2>6, <2>7, <2>8, <2>9, <2>10, <2>11, MarkersAreNoEvents DEF Healthy
<1>5. CASE AppendReturnsOk
  <2>1. Log' = Log /\ ~Damaged
    BY <1>5 DEF AppendReturnsOk, Log, Damaged, file
  <2>2. Log # <<>> /\ Log[Len(Log)] = writing /\ Healthy
    BY <1>0, <1>5, <2>1 DEF AppendReturnsOk, Healthy
  <2>3. writing \in Range(Log)
    BY <1>0, <2>1, <2>2, HealthyLog DEF Range
  <2> QED
    BY <1>5, <2>1, <2>2, <2>3 DEF AppendReturnsOk, Healthy, file
<1>6. CASE AppendFails \/ CommandEnds \/ TakeBackDoesNothing
  <2>1. Log' = Log /\ ~Damaged
    BY <1>6 DEF AppendFails, CommandEnds, TakeBackDoesNothing, CommitFailed, Log, Damaged,
                file, history
  <2> QED
    BY <1>0, <1>6, <2>1, SameLogIsHealthy
    DEF AppendFails, CommandEnds, TakeBackDoesNothing, file, history
<1>7. CASE TakeBack
  <2>1. /\ Log = lines /\ Log' = Front(lines)
        /\ lines # <<>> /\ lines[Len(lines)] \in Events /\ lines \in Seq(Lines)
        /\ acked' = acked \ {writing} /\ tail' = NoTail /\ pc' = "truncated"
        /\ UNCHANGED <<count, rewriteCut>>
    BY <1>0, <1>7, TakesBackLastLine DEF Log, TraceTypes
  <2>2. /\ DOMAIN Log' = 1..(Len(lines) - 1)
        /\ \A i \in 1..(Len(lines) - 1) : Log'[i] = lines[i]
        /\ Range(Log) \ {lines[Len(lines)]} \subseteq Range(Log')
        /\ Malformed \in Range(Log) => Malformed \in Range(Log')
    BY <2>1, FrontOfLog
  <2>3. ~Damaged /\ Healthy
    BY <1>0, <2>1, <2>2 DEF Damaged
  <2>4. lines[Len(lines)] = writing
    BY <1>7, <2>1, <2>3, TakesBackLastLine DEF Healthy
  <2>5. acked' \subseteq Range(Log')
    BY <2>1, <2>2, <2>3, <2>4 DEF Healthy
  <2>6. InOrder(Log)' /\ \A i \in DOMAIN Log' : Log'[i].n <= count
    BY <2>1, <2>2, <2>3, HealthyLog DEF Healthy, InOrder
  <2> QED
    BY <2>1, <2>5, <2>6, MarkersAreNoEvents DEF Healthy
<1>8. CASE WriteBack
  <2>1. Log' = Log /\ ~Damaged
    BY <1>8 DEF WriteBack, Log, Damaged, history
  <2> QED
    BY <1>0, <1>8, <2>1, SameLogIsHealthy DEF WriteBack, history
<1>9. ASSUME WriteBackFails \/ (Kill /\ pc = "truncated")
      PROVE  Healthy'
  <2>1. /\ CutRewrite /\ pc = "truncated" /\ pc' \in {"replace", "idle"}
        /\ UNCHANGED <<count, acked>>
    BY <1>9 DEF WriteBackFails, Kill
  <2>2. ~rewriteCut' /\ lines' = keep /\ tail' = NoTail /\ ~rewriteCut
    BY <1>0, <2>1, CutLog DEF TraceTypes, Damaged
  <2>3. Log' = Log /\ ~Damaged
    BY <2>1, <2>2 DEF Log, Damaged
  <2>4. tail' \notin Events
    BY <2>2, MarkersAreNoEvents
  <2> QED
    BY <1>0, <2>1, <2>3, <2>4, SameLogIsHealthy
<1>10. CASE BeginReplacement
  <2>1. Log' = Log /\ ~Damaged
    BY <1>10 DEF BeginReplacement, Log, Damaged, file, history
  <2> QED
    BY <1>0, <1>10, <2>1, SameLogIsHealthy DEF BeginReplacement, file, history
<1>11. CASE Kill /\ pc # "truncated"
  <2>1. Log' = Log /\ ~Damaged
    BY <1>11 DEF Kill, Log, Damaged, file
  <2> QED
    BY <1>0, <1>11, <2>1, SameLogIsHealthy DEF Kill, file
<1>12. CASE UNCHANGED vars
  BY <1>0, <1>12 DEF vars, file, history, Healthy, InOrder, Log, Damaged
<1> QED
  BY <1>1, <1>2, <1>3, <1>4, <1>5, <1>6, <1>7, <1>8, <1>9, <1>10, <1>11, <1>12 DEF Next

LEMMA TraceInvariant == Spec => []TraceInv
<1>1. TraceInv /\ [Next]_vars => TraceInv'
  <2> SUFFICES ASSUME TraceInv, [Next]_vars PROVE TraceInv'
    OBVIOUS
  <2> QED
    BY TypesStep, TailStep, HealthStep DEF TraceInv
<1> QED
  BY TraceInit, <1>1, PTL DEF Spec

-----------------------------------------------------------------------------
\* docs/RUNBOOK.md:140 and trace.rs:363-441: whatever is killed or fails, as long as
\* no event was glued to a torn line and no rewrite was cut, a load returns every
\* acknowledged event, once and in the order of the appends.
THEOREM AckedEventsLoadUntilGluedHolds == Spec => []AckedEventsLoadUntilGlued
<1>1. ASSUME TraceInv PROVE AckedEventsLoadUntilGlued
  <2> SUFFICES ASSUME ~LoadFails, pc # "truncated", ~rewriteCut PROVE AckedEventsLoad
    BY DEF AckedEventsLoadUntilGlued
  <2>1. ~Damaged /\ Log = lines
    BY DEF LoadFails, Damaged, Log
  <2>2. Healthy /\ TraceTypes
    BY <1>1, <2>1 DEF TraceInv
  <2>3. CASE tail \in {NoTail, Part, Glued}
    BY <2>1, <2>2, <2>3 DEF AckedEventsLoad, LoadEvents, Healthy
  <2>4. CASE tail \notin {NoTail, Part, Glued}
    <3>1. tail \in Events /\ LoadEvents = Append(lines, tail)
      BY <2>2, <2>4 DEF TraceTypes, LoadEvents
    <3>2. lines \in Seq(Events)
      BY <2>1, <2>2, HealthyLog
    <3>3. /\ DOMAIN LoadEvents = 1..(Len(lines) + 1)
          /\ \A i \in 1..Len(lines) : LoadEvents[i] = lines[i]
          /\ LoadEvents[Len(lines) + 1] = tail
      BY <3>1, <3>2, AppendProperties
    <3>4. Len(lines) \in Nat /\ DOMAIN lines = 1..Len(lines)
      BY <3>2
    <3>5. acked \subseteq Range(LoadEvents)
      <4>1. Range(lines) \subseteq Range(LoadEvents)
        BY <3>3, <3>4 DEF Range
      <4> QED
        BY <2>1, <2>2, <4>1 DEF Healthy
    <3>6. InOrder(LoadEvents)
      BY <2>1, <2>2, <3>1, <3>3, <3>4, HealthyLog DEF Healthy, InOrder
    <3> QED
      BY <3>5, <3>6 DEF AckedEventsLoad
  <2> QED
    BY <2>3, <2>4
<1> QED
  BY TraceInvariant, <1>1, PTL

\* The fields of the log and of its writer keep their types; in particular every line
\* is an event or one malformed line, whatever is cut.
THEOREM TraceTypesHold == Spec => []TraceTypes
BY TraceInvariant, PTL DEF TraceInv
===================================================================================
