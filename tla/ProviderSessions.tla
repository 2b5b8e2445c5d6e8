--------------------------- MODULE ProviderSessions ---------------------------
(***************************************************************************)
(* The codex provider (src/crates/adapters/src/provider_codex_runtime.rs)  *)
(* under the async host (src/crates/apps/src/async_runtime_host.rs).  A    *)
(* client is a codex child process with one session; the last one is kept  *)
(* for the next request with the same directory and model, the target.     *)
(*                                                                         *)
(* Requests pass one at a time (request_serialization); shutdown and the   *)
(* health probe do not.  active_session is locked only between awaits, so  *)
(* each such section is one step.  The host's timeout drops a call at an   *)
(* await, with all it has in its hands.  The codex crate is external: any  *)
(* of its calls may fail, a session may close by itself, and a client that *)
(* is dropped without shutdown is alive for all this code knows.           *)
(***************************************************************************)
EXTENDS Naturals, FiniteSets

CONSTANTS Callers, Targets,
          NoCaller, NoClient,
          PvHosts,  \* settings of the host: a timeout, and its permits
          MaxPvCalls, MaxPvFaults  \* bounds

ASSUME PvAssumption ==
    /\ NoCaller \notin Callers /\ Targets # {}
    /\ PvHosts \subseteq [timeout : BOOLEAN, permits : Nat \ {0}]
    /\ MaxPvCalls \in Nat /\ MaxPvFaults \in Nat
    /\ NoClient \notin 1..MaxPvCalls

\* A call connects at most one client.
Clients == 1..MaxPvCalls
\* What a probe finds: no codex, or none of a version it knows to work; or one.
Probes == {"unusable", "supported"}
Calls == [kind : {"complete"}, arg : Targets] \cup [kind : {"shutdown"}, arg : {"none"}]
           \cup [kind : {"health"}, arg : Probes]

VARIABLES pvHost,     \* the one of PvHosts this behaviour is about
          pvCached,   \* active_session
          pvAlive,    \* clients whose child runs
          pvSession,  \* of a client: "none", "open", "closed"
          pvTarget,   \* what its session was started for
          pvTurns,    \* <<client, caller>>: asked and not yet answered
          pvAt, pvCall,  \* where a caller is, and in which call
          pvMine,     \* the client a call has in its hands
          pvGuard,    \* who has request_serialization
          pvUsed,     \* calls, clients and faults so far
          pvLost      \* history: clients dropped without shutdown

pvClients == <<pvCached, pvAlive, pvSession, pvTarget, pvTurns>>
pvVars == <<pvHost, pvClients, pvAt, pvCall, pvMine, pvGuard, pvUsed, pvLost>>

PvInit ==
    /\ pvHost \in PvHosts
    /\ pvCached = NoClient /\ pvAlive = {} /\ pvTurns = {}
    /\ pvSession = [k \in Clients |-> "none"]
    /\ pvTarget = [k \in Clients |-> CHOOSE t \in Targets : TRUE]
    /\ pvAt = [c \in Callers |-> "idle"]
    /\ pvCall = [c \in Callers |-> [kind |-> "shutdown", arg |-> "none"]]
    /\ pvMine = [c \in Callers |-> NoClient]
    /\ pvGuard = NoCaller
    /\ pvUsed = [calls |-> 0, clients |-> 0, faults |-> 0]
    /\ pvLost = {}

PvGo(c, place) == pvAt' = [pvAt EXCEPT ![c] = place]
Take(c, k) == pvMine' = [pvMine EXCEPT ![c] = k]
InFlight == {c \in Callers : pvAt[c] \notin {"idle", "queue"}}
Requests == {c \in InFlight : pvCall[c].kind = "complete"}
PvFault == pvUsed.faults < MaxPvFaults /\ pvUsed' = [pvUsed EXCEPT !.faults = @ + 1]

\* Mutant of Return: the guard outlives its call.
ReturnWithGuard(c) ==
    /\ PvGo(c, "idle") /\ Take(c, NoClient)
    /\ UNCHANGED pvGuard

\* The call returns: guard and permit are free again, what was in its hands is
\* dropped.
Return(c) ==
    /\ PvGo(c, "idle") /\ Take(c, NoClient)
    /\ pvGuard' = IF pvGuard = c THEN NoCaller ELSE pvGuard

-----------------------------------------------------------------------------
\* block_on_async: the call waits for a permit.
PvBegin(c) ==
    /\ pvAt[c] = "idle" /\ PvGo(c, "queue")
    /\ pvUsed.calls < MaxPvCalls /\ pvUsed' = [pvUsed EXCEPT !.calls = @ + 1]
    /\ \E call \in Calls : pvCall' = [pvCall EXCEPT ![c] = call]
    /\ UNCHANGED <<pvHost, pvClients, pvMine, pvGuard, pvLost>>

\* A probe connects only to a codex of a supported version.
PvPermit(c) ==
    /\ pvAt[c] = "queue" /\ Cardinality(InFlight) < pvHost.permits
    /\ LET call == pvCall[c] IN
       PvGo(c, CASE call.kind = "complete" -> "guard"
                 [] call.kind = "shutdown" -> "drop"
                 [] call.kind = "health"   -> IF call.arg = "supported" THEN "connect" ELSE "idle")
    /\ UNCHANGED <<pvHost, pvClients, pvCall, pvMine, pvGuard, pvUsed, pvLost>>

\* Mutant of PvSerialize: request_serialization is not taken.
PvSerializeNothing(c) ==
    /\ pvAt[c] = "guard" /\ PvGo(c, "session")
    /\ UNCHANGED <<pvHost, pvClients, pvCall, pvMine, pvGuard, pvUsed, pvLost>>

\* complete waits for the requests before it.
PvSerialize(c) ==
    /\ pvAt[c] = "guard" /\ pvGuard = NoCaller
    /\ pvGuard' = c /\ PvGo(c, "session")
    /\ UNCHANGED <<pvHost, pvClients, pvCall, pvMine, pvUsed, pvLost>>

\* session_for_request: the cached session, if it is for this target and open;
\* otherwise it is taken out and closed first.
PvSession(c) ==
    /\ pvAt[c] = "session"
    /\ IF pvCached # NoClient /\ pvTarget[pvCached] = pvCall[c].arg /\ pvSession[pvCached] = "open"
         THEN PvGo(c, "ask") /\ Take(c, pvCached) /\ UNCHANGED pvCached
         ELSE /\ PvGo(c, IF pvCached = NoClient THEN "connect" ELSE "close")
              /\ Take(c, pvCached) /\ pvCached' = NoClient
    /\ UNCHANGED <<pvHost, pvAlive, pvSession, pvTarget, pvTurns, pvCall, pvGuard, pvUsed, pvLost>>

\* Mutant of PvDrop: it waits for the requests, its own included.
PvDropSerialized(c) ==
    /\ pvAt[c] = "drop" /\ pvGuard = NoCaller /\ pvCached' = NoClient
    /\ IF pvCached = NoClient THEN Return(c)
                              ELSE PvGo(c, "drop_close") /\ Take(c, pvCached) /\ UNCHANGED pvGuard
    /\ UNCHANGED <<pvHost, pvAlive, pvSession, pvTarget, pvTurns, pvCall, pvUsed, pvLost>>

\* drop_cached_session, of shutdown and of a request whose ask failed.
PvDrop(c) ==
    /\ pvAt[c] = "drop" /\ pvCached' = NoClient
    /\ IF pvCached = NoClient THEN Return(c)
                              ELSE PvGo(c, "drop_close") /\ Take(c, pvCached) /\ UNCHANGED pvGuard
    /\ UNCHANGED <<pvHost, pvAlive, pvSession, pvTarget, pvTurns, pvCall, pvUsed, pvLost>>

\* close_active_session: session.close ...
PvClose(c) ==
    /\ \/ pvAt[c] = "close" /\ PvGo(c, "stop")
       \/ pvAt[c] = "drop_close" /\ PvGo(c, "drop_stop")
    /\ pvSession' = [pvSession EXCEPT ![pvMine[c]] = "closed"]
    /\ UNCHANGED <<pvHost, pvCached, pvAlive, pvTarget, pvTurns, pvCall, pvMine, pvGuard, pvUsed, pvLost>>

\* ... and client.shutdown.  With a stale session out of the way a request goes
\* on to its own.
PvStop(c) ==
    /\ pvAlive' = pvAlive \ {pvMine[c]}
    /\ pvTurns' = {x \in pvTurns : x[1] # pvMine[c]}
    /\ \/ pvAt[c] = "stop" /\ PvGo(c, "connect") /\ Take(c, NoClient) /\ UNCHANGED pvGuard
       \/ pvAt[c] = "drop_stop" /\ Return(c)
    /\ UNCHANGED <<pvHost, pvCached, pvSession, pvTarget, pvCall, pvUsed, pvLost>>

\* Client::connect; a probe shuts its client down again.
PvConnect(c) ==
    /\ pvAt[c] = "connect"
    /\ PvGo(c, IF pvCall[c].kind = "health" THEN "drop_stop" ELSE "start")
    /\ LET k == pvUsed.clients + 1 IN
         /\ k \in Clients
         /\ pvUsed' = [pvUsed EXCEPT !.clients = k]
         /\ pvAlive' = pvAlive \cup {k} /\ Take(c, k)
    /\ UNCHANGED <<pvHost, pvCached, pvSession, pvTarget, pvTurns, pvCall, pvGuard, pvLost>>

PvStart(c) ==
    /\ pvAt[c] = "start" /\ PvGo(c, "cache")
    /\ pvSession' = [pvSession EXCEPT ![pvMine[c]] = "open"]
    /\ pvTarget' = [pvTarget EXCEPT ![pvMine[c]] = pvCall[c].arg]
    /\ UNCHANGED <<pvHost, pvCached, pvAlive, pvTurns, pvCall, pvMine, pvGuard, pvUsed, pvLost>>

\* Whatever is in active_session is overwritten.
PvCache(c) ==
    /\ pvAt[c] = "cache" /\ PvGo(c, "ask")
    /\ pvCached' = pvMine[c]
    /\ UNCHANGED <<pvHost, pvAlive, pvSession, pvTarget, pvTurns, pvCall, pvMine, pvGuard, pvUsed, pvLost>>

PvAsk(c) ==
    /\ pvAt[c] = "ask" /\ pvSession[pvMine[c]] = "open" /\ pvMine[c] \in pvAlive
    /\ PvGo(c, "answer")
    /\ pvTurns' = pvTurns \cup {<<pvMine[c], c>>}
    /\ UNCHANGED <<pvHost, pvCached, pvAlive, pvSession, pvTarget, pvCall, pvMine, pvGuard, pvUsed, pvLost>>

PvAnswer(c) ==
    /\ pvAt[c] = "answer" /\ <<pvMine[c], c>> \in pvTurns /\ Return(c)
    /\ pvTurns' = pvTurns \ {<<pvMine[c], c>>}
    /\ UNCHANGED <<pvHost, pvCached, pvAlive, pvSession, pvTarget, pvCall, pvUsed, pvLost>>

\* The session was closed or its client shut down meanwhile: ask is an error.
PvAskFails(c) ==
    /\ pvAt[c] \in {"ask", "answer"}
    /\ pvSession[pvMine[c]] = "closed" \/ pvMine[c] \notin pvAlive
    /\ PvGo(c, "drop") /\ Take(c, NoClient)
    /\ pvTurns' = pvTurns \ {<<pvMine[c], c>>}
    /\ UNCHANGED <<pvHost, pvCached, pvAlive, pvSession, pvTarget, pvCall, pvGuard, pvUsed, pvLost>>

-----------------------------------------------------------------------------
(* Faults.                                                                 *)

\* A call of the codex crate returns an error.  A client in its hands is
\* dropped: start_session, close and shutdown are left with "?".
PvError(c) ==
    /\ pvAt[c] \in {"connect", "start", "close", "stop", "drop_close", "drop_stop"}
    /\ PvFault /\ Return(c)
    /\ pvLost' = pvLost \cup ({pvMine[c]} \cap Clients)
    /\ UNCHANGED <<pvHost, pvClients, pvCall>>

\* An ask whose answer is an error.
PvAskError(c) ==
    /\ pvAt[c] = "answer" /\ PvFault
    /\ PvGo(c, "drop") /\ Take(c, NoClient)
    /\ pvTurns' = pvTurns \ {<<pvMine[c], c>>}
    /\ UNCHANGED <<pvHost, pvCached, pvAlive, pvSession, pvTarget, pvCall, pvGuard, pvLost>>

\* The host drops the call at an await.  A request that was waiting for its
\* answer leaves the session cached and the turn open.
PvTimeout(c) ==
    /\ pvHost.timeout /\ c \in InFlight /\ pvAt[c] # "session" /\ PvFault /\ Return(c)
    /\ pvLost' = IF pvAt[c] \in {"ask", "answer"} THEN pvLost ELSE pvLost \cup ({pvMine[c]} \cap Clients)
    /\ UNCHANGED <<pvHost, pvClients, pvCall>>

\* A session closes by itself, or codex ends the turn of a dropped request.
PvEnds ==
    /\ \/ /\ PvFault
          /\ \E k \in pvAlive : /\ pvSession[k] = "open"
                                /\ pvSession' = [pvSession EXCEPT ![k] = "closed"]
          /\ UNCHANGED pvTurns
       \/ /\ \E x \in pvTurns : (pvAt[x[2]] # "answer" \/ pvMine[x[2]] # x[1]) /\ pvTurns' = pvTurns \ {x}
          /\ UNCHANGED <<pvSession, pvUsed>>
    /\ UNCHANGED <<pvHost, pvCached, pvAlive, pvTarget, pvAt, pvCall, pvMine, pvGuard, pvLost>>

-----------------------------------------------------------------------------
PvStep(c) ==
    \/ PvPermit(c) \/ PvSerialize(c) \/ PvSession(c) \/ PvDrop(c) \/ PvClose(c) \/ PvStop(c)
    \/ PvConnect(c) \/ PvStart(c) \/ PvCache(c) \/ PvAsk(c) \/ PvAnswer(c) \/ PvAskFails(c)

PvNext ==
    \/ \E c \in Callers : PvStep(c) \/ PvBegin(c) \/ PvError(c) \/ PvAskError(c) \/ PvTimeout(c)
    \/ PvEnds

PvSpec == PvInit /\ [][PvNext]_pvVars

\* The threads of the host run what can run, and codex answers.
PvFairness == \A c \in Callers : WF_pvVars(PvStep(c))

-----------------------------------------------------------------------------
(* Properties.                                                             *)

PvPlaces == {"idle", "queue", "guard", "session", "connect", "start", "cache", "ask", "answer",
             "close", "stop", "drop", "drop_close", "drop_stop"}

PvTypeOK ==
    /\ pvHost \in PvHosts
    /\ pvCached \in Clients \cup {NoClient} /\ pvAlive \subseteq Clients
    /\ pvSession \in [Clients -> {"none", "open", "closed"}]
    /\ pvTarget \in [Clients -> Targets]
    /\ pvTurns \subseteq Clients \X Callers
    /\ pvAt \in [Callers -> PvPlaces] /\ pvCall \in [Callers -> Calls]
    /\ pvMine \in [Callers -> Clients \cup {NoClient}]
    /\ pvGuard \in Callers \cup {NoCaller}
    /\ pvUsed \in [calls : 0..MaxPvCalls, clients : 0..MaxPvCalls, faults : 0..MaxPvFaults]
    /\ pvLost \subseteq Clients

\* Every codex process is in the cache or in the hands of the one call that will
\* cache it or shut it down, whatever overlaps: it is never overwritten in the
\* cache nor taken out and forgotten.  Only failing codex calls and the host's
\* timeout lose one (provider_codex_runtime.rs:50-114, :177-193).
Owned(k) == {c \in Callers : pvMine[c] = k /\ pvAt[c] \notin {"ask", "answer"}}
NoCodexIsForgotten ==
    \A k \in pvAlive \ pvLost :
        \/ pvCached = k /\ Owned(k) = {}
        \/ pvCached # k /\ Cardinality(Owned(k)) = 1

\* A request asks a session of its own directory and model, on which no other
\* turn is open, unless the host's timeout left one there
\* (provider_codex_runtime.rs:149-151, async_runtime_host.rs:59-66).
AsksAloneInItsTarget ==
    \A c \in Callers : pvAt[c] = "answer" =>
        /\ pvTarget[pvMine[c]] = pvCall[c].arg
        /\ ~pvHost.timeout => \A x \in pvTurns : x[1] = pvMine[c] => x[2] = c

\* The step of a caller is not waiting for anything.
PvCanGo(c) ==
    \/ pvAt[c] = "queue" /\ Cardinality(InFlight) < pvHost.permits
    \/ pvAt[c] = "guard" /\ pvGuard = NoCaller
    \/ pvAt[c] = "connect" /\ pvUsed.clients < MaxPvCalls
    \/ pvAt[c] = "ask" /\ (pvMine[c] \in pvAlive => pvSession[pvMine[c]] # "none")
    \/ pvAt[c] = "answer" /\ (\/ <<pvMine[c], c>> \in pvTurns
                              \/ pvSession[pvMine[c]] = "closed" \/ pvMine[c] \notin pvAlive)
    \/ pvAt[c] \in {"session", "start", "cache", "close", "stop", "drop", "drop_close", "drop_stop"}

\* No call waits in a circle: who waits for the request before it waits for a call
\* that can go on, and so does one of those who have the permits another waits
\* for; a dropped request has left guard and permit, and an answer that cannot
\* come any more is an error (provider_codex_runtime.rs:127-175,
\* async_runtime_host.rs:51-73).
NoCallIsStuck ==
    \A c \in Callers :
        \/ pvAt[c] = "idle" \/ PvCanGo(c)
        \/ pvAt[c] = "guard" /\ pvGuard \in Callers /\ PvCanGo(pvGuard)
        \/ pvAt[c] = "queue" /\ \E d \in InFlight : PvCanGo(d)

\* Every call that began returns: nobody waits for ever for a permit or for the
\* request before it, whatever fails or times out.
CallsReturn == \A c \in Callers : pvAt[c] = "queue" ~> pvAt[c] = "idle"
=============================================================================
