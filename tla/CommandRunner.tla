----------------------------- MODULE CommandRunner -----------------------------
(***************************************************************************)
(* One verifier command (run_command in src/crates/adapters/src/tool.rs):  *)
(* the command is started in a process group of its own, one thread per    *)
(* output stream reads until the end of the stream, the calling thread     *)
(* polls for the exit, and after the timeout it kills the group.           *)
(*                                                                         *)
(* The program that runs is external: it and the processes it starts write *)
(* to the streams they hold, close them, start further processes, leave    *)
(* the group (setsid) and end, whenever they like and perhaps never.  A    *)
(* stream is counted in bytes; a pipe holds PipeSize of them.              *)
(***************************************************************************)
EXTENDS Naturals

CONSTANTS Procs,       \* the processes of the command
          Leader,      \* the process that is spawned
          Limit,       \* max_command_output_bytes
          PipeSize,    \* capacity of a pipe
          ReadSize,    \* size of a worker's buffer
          MaxWritten,  \* bound on the bytes written to a stream
          Reaches,     \* how far terminate_child may get: "group", "leader"
                       \* where kill fails, "nobody" where it cannot be run
          IoErrors     \* waiting, reading and the artifact may fail

ASSUME RunnerAssumption ==
    /\ Leader \in Procs
    /\ Limit \in Nat /\ MaxWritten \in Nat
    /\ PipeSize \in Nat \ {0} /\ ReadSize \in Nat \ {0}
    /\ Reaches \subseteq {"group", "leader", "nobody"} /\ IoErrors \in BOOLEAN

VARIABLES proc,       \* each process: "none", "running" or "ended"
          inGroup,    \* it is in the process group of the leader
          holds,      \* the streams it can write to
          pipe,       \* bytes in the pipe of a stream
          worker,     \* the thread that reads it
          kept,       \* bytes it has collected
          truncated,  \* CollectedOutput.truncated
          pc,         \* where run_command is
          elapsed,    \* the timeout has passed
          reached,    \* what terminate_child killed
          result,     \* what run_command returned
          written     \* history: bytes written to a stream

processes == <<proc, inGroup, holds>>
outputs == <<pipe, worker, kept, truncated, written>>
runner == <<pc, elapsed, reached, result>>
vars == <<processes, outputs, runner>>

Streams == {"stdout", "stderr"}
PCs == {"spawn", "poll", "kill", "reap", "drain", "join", "artifact", "returned"}

Running(p) == proc[p] = "running"
Smaller(a, b) == IF a < b THEN a ELSE b

Init ==
    /\ proc = [p \in Procs |-> "none"]
    /\ inGroup = [p \in Procs |-> FALSE]
    /\ holds = [p \in Procs |-> {}]
    /\ pipe = [s \in Streams |-> 0] /\ written = [s \in Streams |-> 0]
    /\ worker = [s \in Streams |-> "none"]
    /\ kept = [s \in Streams |-> 0] /\ truncated = [s \in Streams |-> FALSE]
    /\ pc = "spawn" /\ elapsed = FALSE /\ reached = "none" /\ result = "none"

Return(value) ==
    /\ pc' = "returned" /\ result' = value
    /\ UNCHANGED <<elapsed, reached>>

Goto(next) == pc' = next /\ UNCHANGED <<elapsed, reached, result>>

-----------------------------------------------------------------------------
\* The policy denies the command, or it cannot be started.
NotStarted ==
    /\ pc = "spawn"
    /\ \/ Return("denied")
       \/ IoErrors /\ Return("error")
    /\ UNCHANGED <<processes, outputs>>

\* Command::spawn with process_group(0) and two pipes, and the two workers.
Spawn ==
    /\ pc = "spawn" /\ Goto("poll")
    /\ proc' = [proc EXCEPT ![Leader] = "running"]
    /\ inGroup' = [inGroup EXCEPT ![Leader] = TRUE]
    /\ holds' = [holds EXCEPT ![Leader] = Streams]
    /\ worker' = [s \in Streams |-> "reading"]
    /\ UNCHANGED <<pipe, kept, truncated, written>>

Elapse ==
    /\ pc = "poll" /\ ~elapsed
    /\ elapsed' = TRUE
    /\ UNCHANGED <<processes, outputs, pc, reached, result>>

\* Mutant of Poll: the call waits for the exit, without a timeout.
PollWithoutTimeout ==
    /\ pc = "poll" /\ proc[Leader] = "ended" /\ Goto("join")
    /\ UNCHANGED <<processes, outputs>>

\* try_wait, which reports an exit before the clock is looked at.
Poll ==
    /\ pc = "poll"
    /\ \/ proc[Leader] = "ended" /\ Goto("join")
       \/ Running(Leader) /\ elapsed /\ Goto("kill")
       \/ IoErrors /\ Return("error")
    /\ UNCHANGED <<processes, outputs>>

\* The processes ps get SIGKILL, those of them that still run.
KillAll(ps) ==
    /\ proc' = [p \in Procs |-> IF p \in ps /\ Running(p) THEN "ended" ELSE proc[p]]
    /\ holds' = [p \in Procs |-> IF p \in ps THEN {} ELSE holds[p]]
    /\ UNCHANGED inGroup

\* Mutant of Terminate: child.kill() alone.
TerminateLeader ==
    /\ pc = "kill" /\ pc' = "reap"
    /\ KillAll({Leader})
    /\ reached' = "group"
    /\ UNCHANGED <<outputs, elapsed, result>>

\* terminate_child: `kill -KILL -group`; when it fails, child.kill(); when it
\* cannot be started, its error is ignored and nobody is killed.
Terminate ==
    /\ pc = "kill" /\ pc' = "reap"
    /\ reached' \in Reaches
    /\ KillAll(CASE reached' = "group"  -> {p \in Procs : inGroup[p]}
                 [] reached' = "leader" -> {Leader}
                 [] OTHER               -> {})
    /\ UNCHANGED <<outputs, elapsed, result>>

\* child.wait().
Reap ==
    /\ pc = "reap" /\ proc[Leader] = "ended" /\ Goto("drain")
    /\ UNCHANGED <<processes, outputs>>

\* Both workers are joined, their results are dropped.
Drain ==
    /\ pc = "drain"
    /\ \A s \in Streams : worker[s] # "reading"
    /\ Return("timeout")
    /\ UNCHANGED <<processes, outputs>>

\* After an exit: stdout is joined, then stderr, up to the first error.
Join ==
    /\ pc = "join"
    /\ worker["stdout"] # "reading"
    /\ IF worker["stdout"] = "failed" THEN Return("error")
       ELSE /\ worker["stderr"] # "reading"
            /\ IF worker["stderr"] = "failed" THEN Return("error") ELSE Goto("artifact")
    /\ UNCHANGED <<processes, outputs>>

\* write_command_artifact, and the result with the exit code.
WriteArtifact ==
    /\ pc = "artifact"
    /\ Return("ok") \/ (IoErrors /\ Return("error"))
    /\ UNCHANGED <<processes, outputs>>

-----------------------------------------------------------------------------
\* What one turn of a worker takes out of the pipe.
Chunk(s) == Smaller(pipe[s], ReadSize)

\* Mutant of Read: only a chunk that is dropped entirely counts as truncation.
ReadForgetsCut(s) ==
    /\ worker[s] = "reading" /\ pipe[s] > 0
    /\ LET room == Limit - kept[s]
       IN /\ kept' = [kept EXCEPT ![s] = @ + Smaller(room, Chunk(s))]
          /\ truncated' = [truncated EXCEPT ![s] = @ \/ room = 0]
    /\ pipe' = [pipe EXCEPT ![s] = @ - Chunk(s)]
    /\ UNCHANGED <<processes, runner, worker, written>>

\* The loop of spawn_output_worker reads on when the limit is reached.
Read(s) ==
    /\ worker[s] = "reading" /\ pipe[s] > 0
    /\ LET room == Limit - kept[s]
       IN /\ kept' = [kept EXCEPT ![s] = @ + Smaller(room, Chunk(s))]
          /\ truncated' = [truncated EXCEPT ![s] = @ \/ room < Chunk(s)]
    /\ pipe' = [pipe EXCEPT ![s] = @ - Chunk(s)]
    /\ UNCHANGED <<processes, runner, worker, written>>

\* read returns 0: the pipe is empty and no process can write to it any more.
ReadEnd(s) ==
    /\ worker[s] = "reading"
    /\ pipe[s] = 0
    /\ \A p \in Procs : s \notin holds[p]
    /\ worker' = [worker EXCEPT ![s] = "eof"]
    /\ UNCHANGED <<processes, runner, pipe, kept, truncated, written>>

ReadFails(s) ==
    /\ IoErrors
    /\ worker[s] = "reading"
    /\ worker' = [worker EXCEPT ![s] = "failed"]
    /\ UNCHANGED <<processes, runner, pipe, kept, truncated, written>>

-----------------------------------------------------------------------------
\* A write blocks while the pipe is full.
Write(p, s) ==
    /\ Running(p) /\ s \in holds[p]
    /\ worker[s] = "reading"
    /\ pipe[s] < PipeSize /\ written[s] < MaxWritten
    /\ pipe' = [pipe EXCEPT ![s] = @ + 1]
    /\ written' = [written EXCEPT ![s] = @ + 1]
    /\ UNCHANGED <<processes, runner, worker, kept, truncated>>

Close(p, s) ==
    /\ Running(p) /\ s \in holds[p]
    /\ holds' = [holds EXCEPT ![p] = @ \ {s}]
    /\ UNCHANGED <<proc, inGroup, outputs, runner>>

\* A new process inherits the group and the streams.
Fork(p, q) ==
    /\ Running(p) /\ proc[q] = "none"
    /\ proc' = [proc EXCEPT ![q] = "running"]
    /\ inGroup' = [inGroup EXCEPT ![q] = inGroup[p]]
    /\ holds' = [holds EXCEPT ![q] = holds[p]]
    /\ UNCHANGED <<outputs, runner>>

LeaveGroup(p) ==
    /\ Running(p) /\ p # Leader /\ inGroup[p]
    /\ inGroup' = [inGroup EXCEPT ![p] = FALSE]
    /\ UNCHANGED <<proc, holds, outputs, runner>>

End(p) ==
    /\ Running(p)
    /\ proc' = [proc EXCEPT ![p] = "ended"]
    /\ holds' = [holds EXCEPT ![p] = {}]
    /\ UNCHANGED <<inGroup, outputs, runner>>

-----------------------------------------------------------------------------
Call ==
    \/ NotStarted \/ Spawn \/ Poll \/ Terminate \/ Reap \/ Drain \/ Join
    \/ WriteArtifact

Program ==
    \E p \in Procs :
        \/ \E s \in Streams : Write(p, s) \/ Close(p, s)
        \/ \E q \in Procs : Fork(p, q)
        \/ LeaveGroup(p) \/ End(p)

Next ==
    \/ Call \/ Elapse \/ Program
    \/ \E s \in Streams : Read(s) \/ ReadEnd(s) \/ ReadFails(s)

Spec == Init /\ [][Next]_vars

\* The three threads run and time passes; the program may do nothing for ever.
FairSpec ==
    /\ Spec /\ WF_vars(Call) /\ WF_vars(Elapse)
    /\ \A s \in Streams : WF_vars(Read(s)) /\ WF_vars(ReadEnd(s))
-----------------------------------------------------------------------------
TypeOK ==
    /\ proc \in [Procs -> {"none", "running", "ended"}]
    /\ inGroup \in [Procs -> BOOLEAN] /\ holds \in [Procs -> SUBSET Streams]
    /\ pipe \in [Streams -> Nat] /\ written \in [Streams -> Nat]
    /\ worker \in [Streams -> {"none", "reading", "eof", "failed"}]
    /\ kept \in [Streams -> 0..Limit] /\ truncated \in [Streams -> BOOLEAN]
    /\ pc \in PCs /\ elapsed \in BOOLEAN
    /\ reached \in Reaches \cup {"none"}
    /\ result \in {"none", "denied", "error", "ok", "timeout"}

\* tool.rs:1062-1091: when a command was reported as timed out and its group was
\* killed, no process it started works on in the workspace beside the next
\* attempt, except one that left the group.
TimeoutLeavesNobody ==
    result = "timeout" /\ reached = "group" =>
        \A p \in Procs : Running(p) => ~inGroup[p]

\* docs/CAPABILITY_MATRIX.md:113: the output of a command that ended is all its
\* processes wrote, up to the limit; it is marked as truncated exactly when it
\* was more; and no process can add to it.
OutputIsComplete ==
    result = "ok" => \A s \in Streams :
        /\ kept[s] = Smaller(Limit, written[s])
        /\ truncated[s] = (written[s] > Limit)
        /\ \A p \in Procs : s \notin holds[p]

\* The call waits for a process the kill does not reach: the leader when the
\* kill failed, or another one that outlives the leader and holds a stream.
\* It is never the leader's group after a timeout, nor a full pipe.
WaitsForSurvivor ==
    \E p \in Procs : Running(p) /\
        \/ pc = "reap" /\ p = Leader /\ reached # "group"
        \/ pc \in {"join", "drain"} /\ holds[p] # {} /\ p # Leader
           /\ (pc = "drain" => ~inGroup[p] \/ reached # "group")

\* A thread of the runner can go on, or the timeout is still to pass.
RunnerCanGo ==
    \/ pc \in {"spawn", "kill", "artifact"}
    \/ pc = "poll" /\ (proc[Leader] = "ended" \/ Running(Leader))
    \/ pc = "reap" /\ proc[Leader] = "ended"
    \/ pc \in {"join", "drain"} /\ \A s \in Streams : worker[s] # "reading"
    \/ \E s \in Streams : worker[s] = "reading"
                          /\ (pipe[s] > 0 \/ \A p \in Procs : s \notin holds[p])

\* tool.rs:639-661, :1024-1091: the call, its two workers and the kill never wait
\* for each other: only a survivor keeps a command from its result.
OnlySurvivorsBlock == result # "none" \/ RunnerCanGo \/ WaitsForSurvivor

\* docs/CAPABILITY_MATRIX.md:113: run_command ends, whatever the program does,
\* unless from some moment on it waits for a survivor.
CommandEnds == <>(result # "none") \/ <>[]WaitsForSurvivor
=============================================================================
