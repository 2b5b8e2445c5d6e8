------------------------- MODULE CommandRunnerProofs -------------------------
(***************************************************************************)
(* What holds of a verifier command for any number of processes, any       *)
(* limit, pipe and buffer.  Three inductive invariants strengthen the      *)
(* properties: KillInv carries the state of the group from the kill to the *)
(* result, OutputInv counts the bytes of a stream between its writers, the *)
(* pipe and the worker, and LeaderKnown follows the leader.                *)
(***************************************************************************)
EXTENDS CommandRunner, TLAPS

\* The result is there exactly when run_command returned.
Returned == result # "none" <=> pc = "returned"

\* From the kill of the group on, who still runs has left it.
GroupDead ==
    (pc \in {"reap", "drain"} \/ result = "timeout") /\ reached = "group" =>
        \A p \in Procs : Running(p) => ~inGroup[p]

KillInv == TypeOK /\ Returned /\ GroupDead

\* What a worker took out of its pipe is what was written and is not in it.
Counted ==
    \A s \in Streams :
        /\ pipe[s] <= written[s]
        /\ kept[s] = Smaller(Limit, written[s] - pipe[s])
        /\ truncated[s] <=> written[s] - pipe[s] > Limit

\* A worker that saw the end of its stream saw all of it.
EndSeen ==
    \A s \in Streams : worker[s] = "eof" =>
        pipe[s] = 0 /\ \A p \in Procs : s \notin holds[p]

\* A process that does not run holds nothing.
EndedHoldNothing == \A p \in Procs : ~Running(p) => holds[p] = {}

\* Workers exist from the start of the command on; both are at the end of
\* their streams when the artifact is written.
Joined ==
    /\ pc \notin {"spawn", "returned"} => \A s \in Streams : worker[s] # "none"
    /\ pc = "artifact" \/ result = "ok" => \A s \in Streams : worker[s] = "eof"

OutputInv ==
    TypeOK /\ Returned /\ Counted /\ EndSeen /\ EndedHoldNothing /\ Joined
-----------------------------------------------------------------------------
\* The types hold at the start.
LEMMA TypeInit == Init => TypeOK
<1> SUFFICES ASSUME Init PROVE TypeOK
    OBVIOUS
<1>1. 0 \in Nat /\ 0 \in 0..Limit
    BY RunnerAssumption
<1>2. pipe \in [Streams -> Nat] /\ written \in [Streams -> Nat]
      /\ kept \in [Streams -> 0..Limit] /\ truncated \in [Streams -> BOOLEAN]
    BY <1>1 DEF Init
<1>3. QED
    BY <1>2 DEF Init, TypeOK, PCs

\* The types are kept by every step.
LEMMA TypeStep == TypeOK /\ [Next]_vars => TypeOK'
<1> SUFFICES ASSUME TypeOK, [Next]_vars PROVE TypeOK'
    OBVIOUS
<1> USE RunnerAssumption DEF TypeOK, PCs, Goto, Return, processes, outputs, runner
<1>1. CASE NotStarted
    BY <1>1 DEF NotStarted
<1>2. CASE Spawn
    BY <1>2 DEF Spawn
<1>3. CASE Poll
    BY <1>3 DEF Poll
<1>4. CASE Terminate
    BY <1>4 DEF Terminate, KillAll
<1>5. CASE Reap
    BY <1>5 DEF Reap
<1>6. CASE Drain
    BY <1>6 DEF Drain
<1>7. CASE Join
    BY <1>7 DEF Join
<1>8. CASE WriteArtifact
    BY <1>8 DEF WriteArtifact
<1>9. CASE Elapse
    BY <1>9 DEF Elapse
<1>10. CASE Program
  <2>1. ASSUME NEW p \in Procs, NEW s \in Streams, Write(p, s) PROVE TypeOK'
      BY <2>1 DEF Write
  <2>2. ASSUME NEW p \in Procs, NEW s \in Streams, Close(p, s) PROVE TypeOK'
      BY <2>2 DEF Close
  <2>3. ASSUME NEW p \in Procs, NEW q \in Procs, Fork(p, q) PROVE TypeOK'
      BY <2>3 DEF Fork
  <2>4. ASSUME NEW p \in Procs, LeaveGroup(p) PROVE TypeOK'
      BY <2>4 DEF LeaveGroup
  <2>5. ASSUME NEW p \in Procs, End(p) PROVE TypeOK'
      BY <2>5 DEF End
  <2>6. QED
      BY <1>10, <2>1, <2>2, <2>3, <2>4, <2>5 DEF Program
<1>11. ASSUME NEW s \in Streams, Read(s) PROVE TypeOK'
    BY <1>11 DEF Read, Chunk, Smaller
<1>12. ASSUME NEW s \in Streams, ReadEnd(s) PROVE TypeOK'
    BY <1>12 DEF ReadEnd
<1>13. ASSUME NEW s \in Streams, ReadFails(s) PROVE TypeOK'
    BY <1>13 DEF ReadFails
<1>14. CASE UNCHANGED vars
    BY <1>14 DEF vars
<1>15. QED
    BY <1>1, <1>2, <1>3, <1>4, <1>5, <1>6, <1>7, <1>8, <1>9, <1>10, <1>11,
       <1>12, <1>13, <1>14 DEF Next, Call

\* The runner keeps its types, for any processes and any sizes.
THEOREM RunnerTypeOK == Spec => []TypeOK
BY TypeInit, TypeStep, PTL DEF Spec
-----------------------------------------------------------------------------
\* A result is given once, when the call returns.
LEMMA ReturnedStep == Returned /\ [Next]_vars => Returned'
BY DEF Returned, Next, Call, NotStarted, Spawn, Poll, Terminate, Reap, Drain, Join,
       WriteArtifact, Elapse, Program, Write, Close, Fork, LeaveGroup, End, Read,
       ReadEnd, ReadFails, Goto, Return, processes, outputs, runner, vars

\* After the kill no step brings a process into the group.
LEMMA GroupStep == KillInv /\ [Next]_vars => GroupDead'
<1> SUFFICES ASSUME KillInv, [Next]_vars PROVE GroupDead'
    OBVIOUS
<1> USE DEF KillInv, TypeOK, Returned, GroupDead, Running, Goto, Return,
            processes, outputs, runner
<1>1. CASE NotStarted \/ Spawn \/ Poll \/ Elapse \/ WriteArtifact \/ Join
    BY <1>1 DEF NotStarted, Spawn, Poll, Elapse, WriteArtifact, Join
<1>2. CASE Terminate
    BY <1>2 DEF Terminate, KillAll
<1>3. CASE Reap \/ Drain
    BY <1>3 DEF Reap, Drain
<1>4. CASE Program
  <2>1. ASSUME NEW p \in Procs, NEW q \in Procs, Fork(p, q) PROVE GroupDead'
      BY <2>1 DEF Fork
  <2>2. ASSUME NEW p \in Procs, LeaveGroup(p) \/ End(p) PROVE GroupDead'
      BY <2>2 DEF LeaveGroup, End
  <2>3. ASSUME NEW p \in Procs, NEW s \in Streams, Write(p, s) \/ Close(p, s)
        PROVE GroupDead'
      BY <2>3 DEF Write, Close
  <2>4. QED
      BY <1>4, <2>1, <2>2, <2>3 DEF Program
<1>5. ASSUME NEW s \in Streams, Read(s) \/ ReadEnd(s) \/ ReadFails(s)
      PROVE GroupDead'
    BY <1>5 DEF Read, ReadEnd, ReadFails
<1>6. CASE UNCHANGED vars
    BY <1>6 DEF vars
<1>7. QED
    BY <1>1, <1>2, <1>3, <1>4, <1>5, <1>6 DEF Next, Call

\* What is known of the group holds of every behaviour.
LEMMA KilledInv == Spec => []KillInv
<1>1. Init => KillInv
    BY TypeInit DEF Init, KillInv, Returned, GroupDead
<1>2. KillInv /\ [Next]_vars => KillInv'
    BY TypeStep, ReturnedStep, GroupStep DEF KillInv
<1> QED
    BY <1>1, <1>2, PTL DEF Spec

\* When a command was reported as timed out and its group was killed, no
\* process of the group is left to work beside the next attempt.
THEOREM TimeoutLeavesNobodyHolds == Spec => []TimeoutLeavesNobody
<1>1. KillInv => TimeoutLeavesNobody
    BY DEF KillInv, GroupDead, TimeoutLeavesNobody
<1> QED
    BY <1>1, KilledInv, PTL
-----------------------------------------------------------------------------
\* Reading and writing keep the count of a stream.
LEMMA CountedStep == OutputInv /\ [Next]_vars => Counted'
<1> SUFFICES ASSUME OutputInv, [Next]_vars PROVE Counted'
    OBVIOUS
<1> USE RunnerAssumption DEF OutputInv, TypeOK, Counted, Smaller, processes, outputs,
        runner
<1>1. ASSUME NEW s \in Streams, Read(s) PROVE Counted'
  <2> DEFINE c == Chunk(s)
             room == Limit - kept[s]
  <2>1. c \in Nat /\ c <= pipe[s]
      BY DEF Chunk
  <2>2. /\ pipe'[s] = pipe[s] - c /\ written' = written
        /\ kept'[s] = kept[s] + Smaller(room, c)
        /\ truncated'[s] <=> truncated[s] \/ room < c
      BY <1>1 DEF Read
  <2>3. \A t \in Streams : t # s =>
            pipe'[t] = pipe[t] /\ kept'[t] = kept[t] /\ truncated'[t] = truncated[t]
      BY <1>1 DEF Read
  <2> HIDE DEF c
  <2>4. ASSUME NEW t \in Streams
        PROVE  /\ pipe'[t] <= written'[t]
               /\ kept'[t] = Smaller(Limit, written'[t] - pipe'[t])
               /\ truncated'[t] <=> written'[t] - pipe'[t] > Limit
    <3>1. CASE t = s
        BY <2>1, <2>2, <3>1
    <3>2. CASE t # s
        BY <2>2, <2>3, <3>2
    <3>3. QED
        BY <3>1, <3>2
  <2>5. QED
      BY <2>4
<1>2. ASSUME NEW p \in Procs, NEW s \in Streams, Write(p, s) PROVE Counted'
  <2>1. pipe'[s] = pipe[s] + 1 /\ written'[s] = written[s] + 1
      BY <1>2 DEF Write
  <2>2. \A t \in Streams : t # s => pipe'[t] = pipe[t] /\ written'[t] = written[t]
      BY <1>2 DEF Write
  <2>3. kept' = kept /\ truncated' = truncated
      BY <1>2 DEF Write
  <2>4. ASSUME NEW t \in Streams
        PROVE  pipe'[t] <= written'[t] /\ written'[t] - pipe'[t] = written[t] - pipe[t]
    <3>1. pipe[t] \in Nat /\ written[t] \in Nat /\ pipe[t] <= written[t]
        OBVIOUS
    <3>2. QED
        BY <2>1, <2>2, <3>1
  <2>5. QED
      BY <2>3, <2>4
<1>3. CASE Call
    BY <1>3 DEF Call, NotStarted, Spawn, Poll, Terminate, Reap, Drain, Join,
                WriteArtifact
<1>4. CASE Elapse
    BY <1>4 DEF Elapse
<1>5. ASSUME NEW s \in Streams, ReadEnd(s) \/ ReadFails(s) PROVE Counted'
    BY <1>5 DEF ReadEnd, ReadFails
<1>6. ASSUME NEW p \in Procs, NEW s \in Streams, Close(p, s) PROVE Counted'
    BY <1>6 DEF Close
<1>7. ASSUME NEW p \in Procs, NEW q \in Procs, Fork(p, q) \/ LeaveGroup(p) \/ End(p)
      PROVE Counted'
    BY <1>7 DEF Fork, LeaveGroup, End
<1>8. CASE UNCHANGED vars
    BY <1>8 DEF vars
<1>9. QED
    BY <1>1, <1>2, <1>3, <1>4, <1>5, <1>6, <1>7, <1>8 DEF Next, Program

\* A stream that ended has no writer, and gets none: a new process has what its
\* parent holds.
LEMMA EndStep == OutputInv /\ [Next]_vars => (EndSeen /\ EndedHoldNothing)'
<1> SUFFICES ASSUME OutputInv, [Next]_vars PROVE (EndSeen /\ EndedHoldNothing)'
    OBVIOUS
<1> USE RunnerAssumption DEF OutputInv, TypeOK, EndSeen, EndedHoldNothing, Running,
        processes, outputs, runner
<1>1. CASE Spawn
    BY <1>1 DEF Spawn
<1>2. CASE Terminate
    BY <1>2 DEF Terminate, KillAll
<1>3. CASE NotStarted \/ Poll \/ Reap \/ Drain \/ Join \/ WriteArtifact \/ Elapse
    BY <1>3 DEF NotStarted, Poll, Reap, Drain, Join, WriteArtifact, Elapse
<1>4. ASSUME NEW s \in Streams, Read(s) PROVE (EndSeen /\ EndedHoldNothing)'
    BY <1>4 DEF Read
<1>5. ASSUME NEW s \in Streams, ReadEnd(s) \/ ReadFails(s)
      PROVE (EndSeen /\ EndedHoldNothing)'
    BY <1>5 DEF ReadEnd, ReadFails
<1>6. ASSUME NEW p \in Procs, NEW s \in Streams, Write(p, s) \/ Close(p, s)
      PROVE (EndSeen /\ EndedHoldNothing)'
    BY <1>6 DEF Write, Close
<1>7. ASSUME NEW p \in Procs, NEW q \in Procs, Fork(p, q)
      PROVE (EndSeen /\ EndedHoldNothing)'
    BY <1>7 DEF Fork
<1>8. ASSUME NEW p \in Procs, LeaveGroup(p) \/ End(p)
      PROVE (EndSeen /\ EndedHoldNothing)'
    BY <1>8 DEF LeaveGroup, End
<1>9. CASE UNCHANGED vars
    BY <1>9 DEF vars
<1>10. QED
    BY <1>1, <1>2, <1>3, <1>4, <1>5, <1>6, <1>7, <1>8, <1>9 DEF Next, Call, Program

\* The call goes on to the artifact only when both workers saw the end.
LEMMA JoinedStep == OutputInv /\ [Next]_vars => Joined'
<1> SUFFICES ASSUME OutputInv, [Next]_vars PROVE Joined'
    OBVIOUS
<1> USE DEF OutputInv, TypeOK, Returned, Joined, Streams, Goto, Return, processes,
            outputs, runner
<1>1. CASE Call
    BY <1>1 DEF Call, NotStarted, Spawn, Poll, Terminate, Reap, Drain, Join,
                WriteArtifact
<1>2. CASE Elapse
    BY <1>2 DEF Elapse
<1>3. CASE Program
    BY <1>3 DEF Program, Write, Close, Fork, LeaveGroup, End
<1>4. ASSUME NEW s \in Streams, Read(s) \/ ReadEnd(s) \/ ReadFails(s) PROVE Joined'
    BY <1>4 DEF Read, ReadEnd, ReadFails
<1>5. CASE UNCHANGED vars
    BY <1>5 DEF vars
<1>6. QED
    BY <1>1, <1>2, <1>3, <1>4, <1>5 DEF Next

\* What is known of the outputs holds of every behaviour.
LEMMA CollectedInv == Spec => []OutputInv
<1>1. Init => OutputInv
  <2> SUFFICES ASSUME Init PROVE OutputInv
      OBVIOUS
  <2>1. \A s \in Streams : pipe[s] = 0 /\ written[s] = 0 /\ kept[s] = 0 /\ truncated[s] = FALSE
      BY DEF Init
  <2>2. Counted
    <3>1. ASSUME NEW s \in Streams
          PROVE  /\ pipe[s] <= written[s]
                 /\ kept[s] = (IF Limit < written[s] - pipe[s] THEN Limit ELSE written[s] - pipe[s])
                 /\ ~(written[s] - pipe[s] > Limit)
        BY <2>1, RunnerAssumption
    <3>2. QED
        BY <2>1, <3>1 DEF Counted, Smaller
  <2>3. EndSeen /\ EndedHoldNothing /\ Joined /\ Returned
      BY DEF Init, EndSeen, EndedHoldNothing, Joined, Returned
  <2>4. QED
      BY TypeInit, <2>2, <2>3 DEF OutputInv
<1>2. OutputInv /\ [Next]_vars => OutputInv'
    BY TypeStep, ReturnedStep, CountedStep, EndStep, JoinedStep DEF OutputInv
<1> QED
    BY <1>1, <1>2, PTL DEF Spec

\* The output of a command that ended is all that was written, up to the limit,
\* marked as truncated exactly when it was more.
THEOREM OutputIsCompleteHolds == Spec => []OutputIsComplete
<1>1. OutputInv => OutputIsComplete
    BY DEF OutputInv, TypeOK, Counted, EndSeen, Joined, OutputIsComplete
<1> QED
    BY <1>1, CollectedInv, PTL
-----------------------------------------------------------------------------
\* Nobody runs before the command is started. From then on the leader is in its
\* group, and it has ended when the outputs are waited for.
LeaderKnown ==
    /\ pc = "spawn" => \A p \in Procs : proc[p] = "none"
    /\ pc \notin {"spawn", "returned"} => proc[Leader] # "none" /\ inGroup[Leader]
    /\ pc \in {"join", "drain", "artifact"} => proc[Leader] = "ended"

\* A process is started by another one, so the leader is never started again, and
\* it does not leave the group it leads.
LEMMA LeaderStep == ASSUME TypeOK, LeaderKnown, [Next]_vars PROVE LeaderKnown'
<1> USE RunnerAssumption DEF TypeOK, LeaderKnown, Running, Goto, Return, processes,
        outputs, runner
<1>1. CASE NotStarted \/ Poll \/ Reap \/ Drain \/ Join \/ WriteArtifact \/ Elapse
    BY <1>1 DEF NotStarted, Poll, Reap, Drain, Join, WriteArtifact, Elapse
<1>2. CASE Spawn
    BY <1>2 DEF Spawn
<1>3. CASE Terminate
    BY <1>3 DEF Terminate, KillAll
<1>4. ASSUME NEW p \in Procs, NEW q \in Procs, Fork(p, q) PROVE LeaderKnown'
  <2>1. pc # "spawn" /\ pc' = pc
      BY <1>4 DEF Fork
  <2>2. CASE pc = "returned"
      BY <2>1, <2>2
  <2>3. CASE pc # "returned"
    <3>1. q # Leader
        BY <1>4, <2>1, <2>3 DEF Fork
    <3>2. proc'[Leader] = proc[Leader] /\ inGroup'[Leader] = inGroup[Leader]
        BY <1>4, <3>1 DEF Fork
    <3> QED
        BY <2>1, <3>2
  <2> QED
      BY <2>2, <2>3
<1>5. ASSUME NEW p \in Procs, LeaveGroup(p) \/ End(p) PROVE LeaderKnown'
    BY <1>5 DEF LeaveGroup, End
<1>6. ASSUME NEW p \in Procs, NEW s \in Streams, Write(p, s) \/ Close(p, s)
      PROVE  LeaderKnown'
    BY <1>6 DEF Write, Close
<1>7. ASSUME NEW s \in Streams, Read(s) \/ ReadEnd(s) \/ ReadFails(s) PROVE LeaderKnown'
    BY <1>7 DEF Read, ReadEnd, ReadFails
<1>8. CASE UNCHANGED vars
    BY <1>8 DEF vars
<1> QED
    BY <1>1, <1>2, <1>3, <1>4, <1>5, <1>6, <1>7, <1>8 DEF Next, Call, Program

\* tool.rs:639-661, :1024-1091, for any number of processes, any sizes and any
\* failing call: only a survivor keeps a command from its result.
THEOREM OnlySurvivorsBlockHolds == Spec => []OnlySurvivorsBlock
<1>1. Init => LeaderKnown
    BY DEF Init, LeaderKnown
<1>2. TypeOK /\ LeaderKnown /\ (Returned /\ GroupDead /\ EndedHoldNothing)
      => OnlySurvivorsBlock
  <2> SUFFICES ASSUME TypeOK, LeaderKnown, Returned, GroupDead, EndedHoldNothing,
                      result = "none", ~RunnerCanGo PROVE WaitsForSurvivor
      BY DEF OnlySurvivorsBlock
  <2>1. pc \notin {"returned", "spawn", "kill", "artifact"}
      BY DEF Returned, RunnerCanGo
  <2>2. pc # "poll"
    <3>1. pc = "poll" => proc[Leader] \in {"running", "ended"}
        BY <2>1, RunnerAssumption DEF TypeOK, LeaderKnown
    <3> QED
        BY <3>1 DEF RunnerCanGo, Running
  <2>3. CASE pc = "reap"
    <3>1. Running(Leader) /\ inGroup[Leader]
        BY <2>3, RunnerAssumption DEF TypeOK, LeaderKnown, RunnerCanGo, Running
    <3>2. reached # "group"
        BY <2>3, <3>1, RunnerAssumption DEF GroupDead
    <3> QED
        BY <2>3, <3>1, <3>2, RunnerAssumption DEF WaitsForSurvivor
  <2>4. CASE pc \in {"join", "drain"}
    <3>1. PICK s \in Streams : worker[s] = "reading"
        BY <2>4 DEF RunnerCanGo
    <3>2. PICK p \in Procs : s \in holds[p]
        BY <3>1 DEF RunnerCanGo
    <3>3. Running(p) /\ holds[p] # {}
        BY <3>2 DEF EndedHoldNothing
    <3>4. p # Leader
        BY <2>4, <3>3 DEF LeaderKnown, Running
    <3>5. pc = "drain" => ~inGroup[p] \/ reached # "group"
        BY <3>3 DEF GroupDead
    <3> QED
        BY <2>4, <3>3, <3>4, <3>5 DEF WaitsForSurvivor
  <2> QED
      BY <2>1, <2>2, <2>3, <2>4 DEF TypeOK, PCs
<1>3. Spec => []TypeOK
    BY RunnerTypeOK
<1>4. Spec => [](Returned /\ GroupDead /\ EndedHoldNothing)
    BY KilledInv, CollectedInv, PTL DEF KillInv, OutputInv
<1>5. Spec => []LeaderKnown
    BY <1>1, <1>3, LeaderStep, PTL DEF Spec
<1> QED
    BY <1>2, <1>3, <1>4, <1>5, PTL
=============================================================================
