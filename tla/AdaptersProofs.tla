----------------------------- MODULE AdaptersProofs -----------------------------
(***************************************************************************)
(* Theorems about the adapters: the codex provider under the async host,   *)
(* for every number of callers, calls and faults and every setting of the  *)
(* host; the SQLite and the Markdown memory, for every number of processes *)
(* and keys; and the undo of the tool's changes, for every set of paths.   *)
(***************************************************************************)
EXTENDS MCAdapters, FiniteSetTheorems, SequenceTheorems, TLAPS

\* A call has a client in its hands exactly where the code has one, and the
\* clients are the ones connected so far.
Hands ==
    /\ \A c \in Callers :
         /\ pvAt[c] \in {"idle", "queue", "guard", "session", "connect", "drop"}
               => pvMine[c] = NoClient
         /\ pvAt[c] \notin {"idle", "queue", "guard", "session", "connect", "drop"}
               => pvMine[c] \in 1..pvUsed.clients
    /\ pvCached # NoClient => pvCached \in 1..pvUsed.clients
    /\ \A k \in pvAlive : k <= pvUsed.clients

\* A request beyond the serialization has the guard, and between taking the
\* cached session out and putting its own there it finds the cache empty.
Serialized ==
    \A c \in Callers :
      /\ pvAt[c] \in {"guard", "session", "start", "cache", "ask", "answer", "close", "stop"}
            => pvCall[c].kind = "complete"
      /\ pvAt[c] = "connect" => pvCall[c].kind # "shutdown"
      /\ pvCall[c].kind = "complete" /\ pvAt[c] \notin {"idle", "queue", "guard"} => pvGuard = c
      /\ pvCall[c].kind = "complete" /\ pvAt[c] \in {"close", "stop", "connect", "start", "cache"}
            => pvCached = NoClient

\* The call c has its client for itself: it will cache it or shut it down.
Keeps(c) == pvMine[c] # NoClient /\ pvAt[c] \notin {"ask", "answer"}

\* No client is in two hands, nor in a hand and in the cache; and it is in one
\* of them as long as it is not lost.
Kept ==
    /\ \A c, d \in Callers : Keeps(c) /\ Keeps(d) /\ pvMine[c] = pvMine[d] => c = d
    /\ \A c \in Callers : Keeps(c) => pvCached # pvMine[c]
    /\ \A k \in pvAlive \ pvLost : pvCached = k \/ \E c \in Callers : Keeps(c) /\ pvMine[c] = k

\* Who asks does so in a session of its target, and a turn is open only while
\* its request waits for the answer, unless a timeout dropped the request.
Asking ==
    /\ \A c \in Callers : pvAt[c] \in {"cache", "ask", "answer"}
                            => pvTarget[pvMine[c]] = pvCall[c].arg
    /\ ~pvHost.timeout =>
          \A x \in pvTurns : pvAt[x[2]] = "answer" /\ pvMine[x[2]] = x[1]

-----------------------------------------------------------------------------
(* What a call asks for.                                                   *)
LEMMA CallTypes ==
    \A call \in Calls :
      /\ call.kind \in {"complete", "shutdown", "health"}
      /\ call.kind = "complete" => call.arg \in Targets
BY DEF Calls

(* Where a permit lets a call go.                                          *)
LEMMA PermitGoes ==
    ASSUME PvTypeOK, NEW c \in Callers, PvPermit(c)
    PROVE  \E place \in PvPlaces :
             /\ pvAt' = [pvAt EXCEPT ![c] = place] /\ pvAt[c] = "queue"
             /\ pvCall[c].kind = "complete" => place = "guard"
             /\ pvCall[c].kind = "shutdown" => place = "drop"
             /\ pvCall[c].kind = "health" => place \in {"connect", "idle"}
             /\ place \in {"guard", "drop", "connect", "idle"}
             /\ UNCHANGED <<pvHost, pvClients, pvCall, pvMine, pvGuard, pvUsed, pvLost>>
<1>1. pvCall[c].kind \in {"complete", "shutdown", "health"}
  BY CallTypes DEF PvTypeOK
<1>2. QED
  BY <1>1 DEF PvPermit, PvGo, PvPlaces

(* Every step keeps the types.                                             *)
LEMMA PvTypeStep == ASSUME PvTypeOK, Serialized, [PvNext]_pvVars PROVE PvTypeOK'
<1> USE PvAssumption DEF PvTypeOK
<1>1. ASSUME NEW c \in Callers, PvPermit(c) PROVE PvTypeOK'
  <2>1. PICK place \in PvPlaces :
             /\ pvAt' = [pvAt EXCEPT ![c] = place] /\ pvAt[c] = "queue"
             /\ pvCall[c].kind = "complete" => place = "guard"
             /\ pvCall[c].kind = "shutdown" => place = "drop"
             /\ pvCall[c].kind = "health" => place \in {"connect", "idle"}
             /\ place \in {"guard", "drop", "connect", "idle"}
             /\ UNCHANGED <<pvHost, pvClients, pvCall, pvMine, pvGuard, pvUsed, pvLost>>
    <3> HIDE DEF PvTypeOK
    <3> QED
      BY <1>1, PermitGoes
  <2>2. QED
    BY <2>1 DEF pvClients
<1>2. ASSUME NEW c \in Callers, PvSerialize(c) PROVE PvTypeOK'
  BY <1>2 DEF PvSerialize, PvGo, Take, Return, PvFault, pvClients, PvPlaces
<1>3. ASSUME NEW c \in Callers, PvSession(c) PROVE PvTypeOK'
  <2>1. pvAt' \in [Callers -> PvPlaces]
    BY <1>3 DEF PvSession, PvGo, PvPlaces
  <2>2. pvMine' \in [Callers -> Clients \cup {NoClient}]
        /\ pvCached' \in Clients \cup {NoClient}
    BY <1>3 DEF PvSession, Take
  <2>3. QED
    BY <1>3, <2>1, <2>2 DEF PvSession
<1>4. ASSUME NEW c \in Callers, PvDrop(c) PROVE PvTypeOK'
  <2>1. pvAt' \in [Callers -> PvPlaces]
    BY <1>4 DEF PvDrop, PvGo, Return, PvPlaces
  <2>2. pvMine' \in [Callers -> Clients \cup {NoClient}]
        /\ pvCached' \in Clients \cup {NoClient}
    BY <1>4 DEF PvDrop, Take, Return
  <2>3. pvGuard' \in Callers \cup {NoCaller}
    BY <1>4 DEF PvDrop, Return
  <2>4. QED
    BY <1>4, <2>1, <2>2, <2>3 DEF PvDrop
<1>5. ASSUME NEW c \in Callers, PvClose(c) PROVE PvTypeOK'
  BY <1>5 DEF PvClose, PvGo, Take, Return, PvFault, pvClients, PvPlaces
<1>6. ASSUME NEW c \in Callers, PvStop(c) PROVE PvTypeOK'
  BY <1>6 DEF PvStop, PvGo, Take, Return, PvFault, pvClients, PvPlaces
<1>7. ASSUME NEW c \in Callers, PvConnect(c) PROVE PvTypeOK'
  <2>1. pvAt' \in [Callers -> PvPlaces]
    BY <1>7 DEF PvConnect, PvGo, PvPlaces
  <2>2. pvUsed.clients + 1 \in Clients /\ pvUsed' = [pvUsed EXCEPT !.clients = pvUsed.clients + 1]
    BY <1>7 DEF PvConnect
  <2>3. pvMine' \in [Callers -> Clients \cup {NoClient}] /\ pvAlive' \subseteq Clients
    BY <1>7 DEF PvConnect, Take
  <2>4. pvUsed' \in [calls : 0..MaxPvCalls, clients : 0..MaxPvCalls, faults : 0..MaxPvFaults]
    <3>1. pvUsed.clients + 1 \in 0..MaxPvCalls
      BY <2>2 DEF Clients
    <3>2. QED
      BY <2>2, <3>1
  <2>5. UNCHANGED <<pvHost, pvCached, pvSession, pvTarget, pvTurns, pvCall, pvGuard, pvLost>>
    BY <1>7 DEF PvConnect
  <2>6. QED
    BY <2>1, <2>3, <2>4, <2>5
<1>8. ASSUME NEW c \in Callers, PvStart(c) PROVE PvTypeOK'
  <2>1. pvCall[c].arg \in Targets
    BY <1>8, CallTypes DEF PvStart, Serialized
  <2>2. pvTarget' \in [Clients -> Targets]
        /\ pvSession' \in [Clients -> {"none", "open", "closed"}]
    BY <1>8, <2>1 DEF PvStart
  <2>3. pvAt' \in [Callers -> PvPlaces]
    BY <1>8 DEF PvStart, PvGo, PvPlaces
  <2>4. QED
    BY <1>8, <2>2, <2>3 DEF PvStart
<1>9. ASSUME NEW c \in Callers, PvCache(c) PROVE PvTypeOK'
  BY <1>9 DEF PvCache, PvGo, Take, Return, PvFault, pvClients, PvPlaces
<1>10. ASSUME NEW c \in Callers, PvAsk(c) PROVE PvTypeOK'
  <2>1. pvAt' \in [Callers -> PvPlaces]
    BY <1>10 DEF PvAsk, PvGo, PvPlaces
  <2>2. pvTurns' \subseteq Clients \X Callers
    BY <1>10 DEF PvAsk
  <2>3. QED
    BY <1>10, <2>1, <2>2 DEF PvAsk
<1>11. ASSUME NEW c \in Callers, PvAnswer(c) PROVE PvTypeOK'
  BY <1>11 DEF PvAnswer, PvGo, Take, Return, PvFault, pvClients, PvPlaces
<1>12. ASSUME NEW c \in Callers, PvAskFails(c) PROVE PvTypeOK'
  BY <1>12 DEF PvAskFails, PvGo, Take, Return, PvFault, pvClients, PvPlaces
<1>13. ASSUME NEW c \in Callers, PvBegin(c) PROVE PvTypeOK'
  <2>1. pvAt' \in [Callers -> PvPlaces]
    BY <1>13 DEF PvBegin, PvGo, PvPlaces
  <2>2. pvCall' \in [Callers -> Calls]
    BY <1>13 DEF PvBegin
  <2>3. pvUsed' \in [calls : 0..MaxPvCalls, clients : 0..MaxPvCalls, faults : 0..MaxPvFaults]
    BY <1>13 DEF PvBegin
  <2>4. QED
    BY <1>13, <2>1, <2>2, <2>3 DEF PvBegin, pvClients
<1>14. ASSUME NEW c \in Callers, PvError(c) PROVE PvTypeOK'
  BY <1>14 DEF PvError, PvGo, Take, Return, PvFault, pvClients, PvPlaces
<1>15. ASSUME NEW c \in Callers, PvAskError(c) PROVE PvTypeOK'
  <2>1. pvAt' \in [Callers -> PvPlaces]
    BY <1>15 DEF PvAskError, PvGo, PvPlaces
  <2>2. pvMine' \in [Callers -> Clients \cup {NoClient}] /\ pvTurns' \subseteq Clients \X Callers
    BY <1>15 DEF PvAskError, Take
  <2>3. pvUsed' \in [calls : 0..MaxPvCalls, clients : 0..MaxPvCalls, faults : 0..MaxPvFaults]
    BY <1>15 DEF PvAskError, PvFault
  <2>4. QED
    BY <1>15, <2>1, <2>2, <2>3 DEF PvAskError
<1>16. ASSUME NEW c \in Callers, PvTimeout(c) PROVE PvTypeOK'
  BY <1>16 DEF PvTimeout, PvGo, Take, Return, PvFault, pvClients, PvPlaces
<1>17. CASE PvEnds
  BY <1>17 DEF PvEnds, PvFault, PvPlaces
<1>18. CASE UNCHANGED pvVars
  BY <1>18 DEF pvVars, pvClients, PvPlaces
<1>19. QED
  BY <1>1, <1>2, <1>3, <1>4, <1>5, <1>6, <1>7, <1>8, <1>9, <1>10, <1>11, <1>12, <1>13, <1>14, <1>15, <1>16, <1>17, <1>18 DEF PvNext, PvStep

(* Every step keeps the clients where the code has them.                   *)
LEMMA HandsStep == ASSUME PvTypeOK, Hands, [PvNext]_pvVars PROVE Hands'
<1> USE PvAssumption DEF PvTypeOK, Hands, Clients
<1>1. ASSUME NEW c \in Callers, PvPermit(c) PROVE Hands'
  <2>1. PICK place \in PvPlaces :
             /\ pvAt' = [pvAt EXCEPT ![c] = place] /\ pvAt[c] = "queue"
             /\ pvCall[c].kind = "complete" => place = "guard"
             /\ pvCall[c].kind = "shutdown" => place = "drop"
             /\ pvCall[c].kind = "health" => place \in {"connect", "idle"}
             /\ place \in {"guard", "drop", "connect", "idle"}
             /\ UNCHANGED <<pvHost, pvClients, pvCall, pvMine, pvGuard, pvUsed, pvLost>>
    <3> HIDE DEF PvTypeOK, Hands, Clients
    <3> QED
      BY <1>1, PermitGoes
  <2>2. QED
    BY <2>1 DEF pvClients
<1>2. ASSUME NEW c \in Callers, PvSerialize(c) PROVE Hands'
  BY <1>2 DEF PvSerialize, PvGo, Take, Return, PvFault, pvClients
<1>3. ASSUME NEW c \in Callers, PvSession(c) PROVE Hands'
  <2>1. CASE pvCached = NoClient
    BY <1>3, <2>1 DEF PvSession, PvGo, Take
  <2>2. CASE pvCached # NoClient /\ pvTarget[pvCached] = pvCall[c].arg /\ pvSession[pvCached] = "open"
    <3>1. /\ pvAt' = [pvAt EXCEPT ![c] = "ask"] /\ pvMine' = [pvMine EXCEPT ![c] = pvCached]
          /\ UNCHANGED <<pvCached, pvAlive, pvUsed>>
      BY <1>3, <2>2 DEF PvSession, PvGo, Take
    <3>2. QED
      BY <2>2, <3>1
  <2>3. CASE pvCached # NoClient /\ ~(pvTarget[pvCached] = pvCall[c].arg /\ pvSession[pvCached] = "open")
    <3>1. /\ pvAt' = [pvAt EXCEPT ![c] = "close"] /\ pvMine' = [pvMine EXCEPT ![c] = pvCached]
          /\ pvCached' = NoClient /\ UNCHANGED <<pvAlive, pvUsed>>
      BY <1>3, <2>3 DEF PvSession, PvGo, Take
    <3>2. QED
      BY <2>3, <3>1
  <2>4. QED
    BY <2>1, <2>2, <2>3
<1>4. ASSUME NEW c \in Callers, PvDrop(c) PROVE Hands'
  BY <1>4 DEF PvDrop, PvGo, Take, Return, PvFault, pvClients
<1>5. ASSUME NEW c \in Callers, PvClose(c) PROVE Hands'
  BY <1>5 DEF PvClose, PvGo, Take, Return, PvFault, pvClients
<1>6. ASSUME NEW c \in Callers, PvStop(c) PROVE Hands'
  BY <1>6 DEF PvStop, PvGo, Take, Return, PvFault, pvClients
<1>7. ASSUME NEW c \in Callers, PvConnect(c) PROVE Hands'
  BY <1>7 DEF PvConnect, PvGo, Take, Return, PvFault, pvClients
<1>8. ASSUME NEW c \in Callers, PvStart(c) PROVE Hands'
  BY <1>8 DEF PvStart, PvGo, Take, Return, PvFault, pvClients
<1>9. ASSUME NEW c \in Callers, PvCache(c) PROVE Hands'
  BY <1>9 DEF PvCache, PvGo, Take, Return, PvFault, pvClients
<1>10. ASSUME NEW c \in Callers, PvAsk(c) PROVE Hands'
  BY <1>10 DEF PvAsk, PvGo, Take, Return, PvFault, pvClients
<1>11. ASSUME NEW c \in Callers, PvAnswer(c) PROVE Hands'
  BY <1>11 DEF PvAnswer, PvGo, Take, Return, PvFault, pvClients
<1>12. ASSUME NEW c \in Callers, PvAskFails(c) PROVE Hands'
  BY <1>12 DEF PvAskFails, PvGo, Take, Return, PvFault, pvClients
<1>13. ASSUME NEW c \in Callers, PvBegin(c) PROVE Hands'
  BY <1>13 DEF PvBegin, PvGo, Take, Return, PvFault, pvClients
<1>14. ASSUME NEW c \in Callers, PvError(c) PROVE Hands'
  BY <1>14 DEF PvError, PvGo, Take, Return, PvFault, pvClients
<1>15. ASSUME NEW c \in Callers, PvAskError(c) PROVE Hands'
  BY <1>15 DEF PvAskError, PvGo, Take, Return, PvFault, pvClients
<1>16. ASSUME NEW c \in Callers, PvTimeout(c) PROVE Hands'
  BY <1>16 DEF PvTimeout, PvGo, Take, Return, PvFault, pvClients
<1>17. CASE PvEnds
  BY <1>17 DEF PvEnds, PvFault
<1>18. CASE UNCHANGED pvVars
  BY <1>18 DEF pvVars, pvClients
<1>19. QED
  BY <1>1, <1>2, <1>3, <1>4, <1>5, <1>6, <1>7, <1>8, <1>9, <1>10, <1>11, <1>12, <1>13, <1>14, <1>15, <1>16, <1>17, <1>18 DEF PvNext, PvStep

(* Every step keeps requests apart.                                        *)
LEMMA SerializedStep == ASSUME PvTypeOK, Serialized, [PvNext]_pvVars PROVE Serialized'
<1> USE PvAssumption DEF PvTypeOK, Serialized
<1>1. ASSUME NEW c \in Callers, PvPermit(c) PROVE Serialized'
  <2>1. PICK place \in PvPlaces :
             /\ pvAt' = [pvAt EXCEPT ![c] = place] /\ pvAt[c] = "queue"
             /\ pvCall[c].kind = "complete" => place = "guard"
             /\ pvCall[c].kind = "shutdown" => place = "drop"
             /\ pvCall[c].kind = "health" => place \in {"connect", "idle"}
             /\ place \in {"guard", "drop", "connect", "idle"}
             /\ UNCHANGED <<pvHost, pvClients, pvCall, pvMine, pvGuard, pvUsed, pvLost>>
    <3> HIDE DEF PvTypeOK, Serialized
    <3> QED
      BY <1>1, PermitGoes
  <2>2. pvCall[c].kind \in {"complete", "shutdown", "health"}
    BY CallTypes
  <2>3. QED
    BY <2>1, <2>2 DEF pvClients
<1>2. ASSUME NEW c \in Callers, PvSerialize(c) PROVE Serialized'
  BY <1>2, CallTypes DEF PvSerialize, PvGo, Take, Return, PvFault, pvClients
<1>3. ASSUME NEW c \in Callers, PvSession(c) PROVE Serialized'
  BY <1>3, CallTypes DEF PvSession, PvGo, Take, Return, PvFault, pvClients
<1>4. ASSUME NEW c \in Callers, PvDrop(c) PROVE Serialized'
  BY <1>4, CallTypes DEF PvDrop, PvGo, Take, Return, PvFault, pvClients
<1>5. ASSUME NEW c \in Callers, PvClose(c) PROVE Serialized'
  BY <1>5, CallTypes DEF PvClose, PvGo, Take, Return, PvFault, pvClients
<1>6. ASSUME NEW c \in Callers, PvStop(c) PROVE Serialized'
  BY <1>6, CallTypes DEF PvStop, PvGo, Take, Return, PvFault, pvClients
<1>7. ASSUME NEW c \in Callers, PvConnect(c) PROVE Serialized'
  BY <1>7, CallTypes DEF PvConnect, PvGo, Take, Return, PvFault, pvClients
<1>8. ASSUME NEW c \in Callers, PvStart(c) PROVE Serialized'
  BY <1>8, CallTypes DEF PvStart, PvGo, Take, Return, PvFault, pvClients
<1>9. ASSUME NEW c \in Callers, PvCache(c) PROVE Serialized'
  BY <1>9, CallTypes DEF PvCache, PvGo, Take, Return, PvFault, pvClients
<1>10. ASSUME NEW c \in Callers, PvAsk(c) PROVE Serialized'
  BY <1>10, CallTypes DEF PvAsk, PvGo, Take, Return, PvFault, pvClients
<1>11. ASSUME NEW c \in Callers, PvAnswer(c) PROVE Serialized'
  BY <1>11, CallTypes DEF PvAnswer, PvGo, Take, Return, PvFault, pvClients
<1>12. ASSUME NEW c \in Callers, PvAskFails(c) PROVE Serialized'
  BY <1>12, CallTypes DEF PvAskFails, PvGo, Take, Return, PvFault, pvClients
<1>13. ASSUME NEW c \in Callers, PvBegin(c) PROVE Serialized'
  BY <1>13, CallTypes DEF PvBegin, PvGo, Take, Return, PvFault, pvClients
<1>14. ASSUME NEW c \in Callers, PvError(c) PROVE Serialized'
  BY <1>14, CallTypes DEF PvError, PvGo, Take, Return, PvFault, pvClients
<1>15. ASSUME NEW c \in Callers, PvAskError(c) PROVE Serialized'
  BY <1>15, CallTypes DEF PvAskError, PvGo, Take, Return, PvFault, pvClients
<1>16. ASSUME NEW c \in Callers, PvTimeout(c) PROVE Serialized'
  BY <1>16, CallTypes DEF PvTimeout, PvGo, Take, Return, PvFault, pvClients
<1>17. CASE PvEnds
  BY <1>17, CallTypes DEF PvEnds, PvFault
<1>18. CASE UNCHANGED pvVars
  BY <1>18 DEF pvVars, pvClients
<1>19. QED
  BY <1>1, <1>2, <1>3, <1>4, <1>5, <1>6, <1>7, <1>8, <1>9, <1>10, <1>11, <1>12, <1>13, <1>14, <1>15, <1>16, <1>17, <1>18 DEF PvNext, PvStep

(* Every step leaves a client with one owner.                              *)
LEMMA KeptStep == ASSUME PvTypeOK, Hands, Serialized, Kept, [PvNext]_pvVars PROVE Kept'
<1> USE PvAssumption DEF PvTypeOK, Hands, Serialized, Kept, Clients
<1>1. ASSUME NEW c \in Callers, PvPermit(c) PROVE Kept'
  <2>1. PICK place \in PvPlaces :
             /\ pvAt' = [pvAt EXCEPT ![c] = place] /\ pvAt[c] = "queue"
             /\ pvCall[c].kind = "complete" => place = "guard"
             /\ pvCall[c].kind = "shutdown" => place = "drop"
             /\ pvCall[c].kind = "health" => place \in {"connect", "idle"}
             /\ place \in {"guard", "drop", "connect", "idle"}
             /\ UNCHANGED <<pvHost, pvClients, pvCall, pvMine, pvGuard, pvUsed, pvLost>>
    <3> HIDE DEF PvTypeOK, Hands, Serialized, Kept, Clients
    <3> QED
      BY <1>1, PermitGoes
  <2>2. QED
    BY <2>1 DEF pvClients, Keeps
<1>2. ASSUME NEW c \in Callers, PvSerialize(c) PROVE Kept'
  BY <1>2 DEF PvSerialize, PvGo, Take, Return, PvFault, pvClients, Keeps
<1>3. ASSUME NEW c \in Callers, PvSession(c) PROVE Kept'
  <2>1. /\ UNCHANGED <<pvAlive, pvLost>>
        /\ \A d \in Callers : d # c => pvAt'[d] = pvAt[d] /\ pvMine'[d] = pvMine[d]
    BY <1>3 DEF PvSession, PvGo, Take, Return
  <2>2. ~Keeps(c)
    BY <1>3 DEF PvSession, Keeps
  <2>3. \A d \in Callers : d # c => (Keeps(d)' <=> Keeps(d))
    BY <2>1 DEF Keeps
  <2>4. CASE pvCached' = pvCached /\ ~Keeps(c)'
    <3>1. /\ \A d, e \in Callers : Keeps(d)' /\ Keeps(e)' /\ pvMine'[d] = pvMine'[e] => d = e
          /\ \A d \in Callers : Keeps(d)' => pvCached' # pvMine'[d]
      BY <2>1, <2>3, <2>4
    <3>2. ASSUME NEW k \in (pvAlive \ pvLost)', pvCached' # k
          PROVE  \E d \in Callers : Keeps(d)' /\ pvMine'[d] = k
      <4>1. PICK d \in Callers : Keeps(d) /\ pvMine[d] = k
        BY <2>1, <2>4, <3>2
      <4>2. d # c
        BY <2>2, <4>1
      <4>3. QED
        BY <2>1, <2>3, <4>1, <4>2
    <3>3. QED
      BY <3>1, <3>2
  <2>5. CASE /\ pvCached # NoClient /\ pvCached' = NoClient /\ pvMine'[c] = pvCached
             /\ Keeps(c)'
    <3>1. /\ \A d \in Callers : Keeps(d)' => pvMine'[d] # NoClient
          /\ \A d \in Callers : d # c /\ Keeps(d)' => pvMine'[d] # pvMine'[c]
      BY <2>1, <2>3, <2>5 DEF Keeps
    <3>2. ASSUME NEW k \in (pvAlive \ pvLost)'
          PROVE  \E d \in Callers : Keeps(d)' /\ pvMine'[d] = k
      <4>1. CASE k = pvCached
        BY <2>5, <4>1
      <4>2. CASE k # pvCached
        <5>1. PICK d \in Callers : Keeps(d) /\ pvMine[d] = k
          BY <2>1, <3>2, <4>2
        <5>2. d # c
          BY <2>2, <5>1
        <5>3. QED
          BY <2>1, <2>3, <5>1, <5>2
      <4>3. QED
        BY <4>1, <4>2
    <3>3. \A d, e \in Callers : Keeps(d)' /\ Keeps(e)' /\ pvMine'[d] = pvMine'[e] => d = e
      BY <2>1, <2>3, <3>1
    <3>4. QED
      BY <2>5, <3>1, <3>2, <3>3
  <2>6. \/ pvCached' = pvCached /\ ~Keeps(c)'
        \/ /\ pvCached # NoClient /\ pvCached' = NoClient /\ pvMine'[c] = pvCached
           /\ Keeps(c)'
    BY <1>3 DEF PvSession, PvGo, Take, Return, Keeps
  <2>7. QED
    BY <2>4, <2>5, <2>6
<1>4. ASSUME NEW c \in Callers, PvDrop(c) PROVE Kept'
  <2>1. /\ UNCHANGED <<pvAlive, pvLost>>
        /\ \A d \in Callers : d # c => pvAt'[d] = pvAt[d] /\ pvMine'[d] = pvMine[d]
    BY <1>4 DEF PvDrop, PvGo, Take, Return
  <2>2. ~Keeps(c)
    BY <1>4 DEF PvDrop, Keeps
  <2>3. \A d \in Callers : d # c => (Keeps(d)' <=> Keeps(d))
    BY <2>1 DEF Keeps
  <2>4. CASE pvCached' = pvCached /\ ~Keeps(c)'
    <3>1. /\ \A d, e \in Callers : Keeps(d)' /\ Keeps(e)' /\ pvMine'[d] = pvMine'[e] => d = e
          /\ \A d \in Callers : Keeps(d)' => pvCached' # pvMine'[d]
      BY <2>1, <2>3, <2>4
    <3>2. ASSUME NEW k \in (pvAlive \ pvLost)', pvCached' # k
          PROVE  \E d \in Callers : Keeps(d)' /\ pvMine'[d] = k
      <4>1. PICK d \in Callers : Keeps(d) /\ pvMine[d] = k
        BY <2>1, <2>4, <3>2
      <4>2. d # c
        BY <2>2, <4>1
      <4>3. QED
        BY <2>1, <2>3, <4>1, <4>2
    <3>3. QED
      BY <3>1, <3>2
  <2>5. CASE /\ pvCached # NoClient /\ pvCached' = NoClient /\ pvMine'[c] = pvCached
             /\ Keeps(c)'
    <3>1. /\ \A d \in Callers : Keeps(d)' => pvMine'[d] # NoClient
          /\ \A d \in Callers : d # c /\ Keeps(d)' => pvMine'[d] # pvMine'[c]
      BY <2>1, <2>3, <2>5 DEF Keeps
    <3>2. ASSUME NEW k \in (pvAlive \ pvLost)'
          PROVE  \E d \in Callers : Keeps(d)' /\ pvMine'[d] = k
      <4>1. CASE k = pvCached
        BY <2>5, <4>1
      <4>2. CASE k # pvCached
        <5>1. PICK d \in Callers : Keeps(d) /\ pvMine[d] = k
          BY <2>1, <3>2, <4>2
        <5>2. d # c
          BY <2>2, <5>1
        <5>3. QED
          BY <2>1, <2>3, <5>1, <5>2
      <4>3. QED
        BY <4>1, <4>2
    <3>3. \A d, e \in Callers : Keeps(d)' /\ Keeps(e)' /\ pvMine'[d] = pvMine'[e] => d = e
      BY <2>1, <2>3, <3>1
    <3>4. QED
      BY <2>5, <3>1, <3>2, <3>3
  <2>6. \/ pvCached' = pvCached /\ ~Keeps(c)'
        \/ /\ pvCached # NoClient /\ pvCached' = NoClient /\ pvMine'[c] = pvCached
           /\ Keeps(c)'
    BY <1>4 DEF PvDrop, PvGo, Take, Return, Keeps
  <2>7. QED
    BY <2>4, <2>5, <2>6
<1>5. ASSUME NEW c \in Callers, PvClose(c) PROVE Kept'
  <2>1. UNCHANGED <<pvAlive, pvLost, pvMine, pvCached>>
    BY <1>5 DEF PvClose
  <2>2. \A d \in Callers : Keeps(d)' <=> Keeps(d)
    BY <1>5 DEF PvClose, PvGo, Keeps
  <2>3. QED
    BY <2>1, <2>2
<1>6. ASSUME NEW c \in Callers, PvStop(c) PROVE Kept'
  <2>1. /\ UNCHANGED <<pvLost, pvCached>> /\ pvAlive' = pvAlive \ {pvMine[c]}
        /\ pvMine' = [pvMine EXCEPT ![c] = NoClient]
        /\ \A d \in Callers : d # c => pvAt'[d] = pvAt[d]
    BY <1>6 DEF PvStop, PvGo, Take, Return
  <2>2. ~Keeps(c)' /\ \A d \in Callers : d # c => (Keeps(d)' <=> Keeps(d)) /\ pvMine'[d] = pvMine[d]
    BY <2>1 DEF Keeps
  <2>3. QED
    BY <2>1, <2>2
<1>7. ASSUME NEW c \in Callers, PvConnect(c) PROVE Kept'
  BY <1>7 DEF PvConnect, PvGo, Take, Return, PvFault, pvClients, Keeps
<1>8. ASSUME NEW c \in Callers, PvStart(c) PROVE Kept'
  BY <1>8 DEF PvStart, PvGo, Take, Return, PvFault, pvClients, Keeps
<1>9. ASSUME NEW c \in Callers, PvCache(c) PROVE Kept'
  BY <1>9 DEF PvCache, PvGo, Take, Return, PvFault, pvClients, Keeps
<1>10. ASSUME NEW c \in Callers, PvAsk(c) PROVE Kept'
  BY <1>10 DEF PvAsk, PvGo, Take, Return, PvFault, pvClients, Keeps
<1>11. ASSUME NEW c \in Callers, PvAnswer(c) PROVE Kept'
  BY <1>11 DEF PvAnswer, PvGo, Take, Return, PvFault, pvClients, Keeps
<1>12. ASSUME NEW c \in Callers, PvAskFails(c) PROVE Kept'
  BY <1>12 DEF PvAskFails, PvGo, Take, Return, PvFault, pvClients, Keeps
<1>13. ASSUME NEW c \in Callers, PvBegin(c) PROVE Kept'
  BY <1>13 DEF PvBegin, PvGo, Take, Return, PvFault, pvClients, Keeps
<1>14. ASSUME NEW c \in Callers, PvError(c) PROVE Kept'
  BY <1>14 DEF PvError, PvGo, Take, Return, PvFault, pvClients, Keeps
<1>15. ASSUME NEW c \in Callers, PvAskError(c) PROVE Kept'
  BY <1>15 DEF PvAskError, PvGo, Take, Return, PvFault, pvClients, Keeps
<1>16. ASSUME NEW c \in Callers, PvTimeout(c) PROVE Kept'
  BY <1>16 DEF PvTimeout, PvGo, Take, Return, PvFault, pvClients, Keeps
<1>17. CASE PvEnds
  BY <1>17 DEF PvEnds, PvFault, Keeps
<1>18. CASE UNCHANGED pvVars
  BY <1>18 DEF pvVars, pvClients, Keeps
<1>19. QED
  BY <1>1, <1>2, <1>3, <1>4, <1>5, <1>6, <1>7, <1>8, <1>9, <1>10, <1>11, <1>12, <1>13, <1>14, <1>15, <1>16, <1>17, <1>18 DEF PvNext, PvStep

(* Every step keeps what is known of those who ask.                        *)
LEMMA AskingStep == ASSUME PvTypeOK, Hands, Serialized, Asking, [PvNext]_pvVars PROVE Asking'
<1> USE PvAssumption DEF PvTypeOK, Hands, Serialized, Asking, Clients
<1>1. ASSUME NEW c \in Callers, PvPermit(c) PROVE Asking'
  <2>1. PICK place \in PvPlaces :
             /\ pvAt' = [pvAt EXCEPT ![c] = place] /\ pvAt[c] = "queue"
             /\ pvCall[c].kind = "complete" => place = "guard"
             /\ pvCall[c].kind = "shutdown" => place = "drop"
             /\ pvCall[c].kind = "health" => place \in {"connect", "idle"}
             /\ place \in {"guard", "drop", "connect", "idle"}
             /\ UNCHANGED <<pvHost, pvClients, pvCall, pvMine, pvGuard, pvUsed, pvLost>>
    <3> HIDE DEF PvTypeOK, Hands, Serialized, Asking, Clients
    <3> QED
      BY <1>1, PermitGoes
  <2>2. QED
    BY <2>1 DEF pvClients
<1>2. ASSUME NEW c \in Callers, PvSerialize(c) PROVE Asking'
  BY <1>2 DEF PvSerialize, PvGo, Take, Return, PvFault, pvClients
<1>3. ASSUME NEW c \in Callers, PvSession(c) PROVE Asking'
  <2>1. /\ UNCHANGED <<pvHost, pvTarget, pvTurns, pvCall>> /\ pvAt[c] = "session"
        /\ \A d \in Callers : d # c => pvAt'[d] = pvAt[d] /\ pvMine'[d] = pvMine[d]
    BY <1>3 DEF PvSession, PvGo, Take
  <2>2. \/ pvAt'[c] = "ask" /\ pvTarget[pvMine'[c]] = pvCall[c].arg
        \/ pvAt'[c] \in {"connect", "close"}
    BY <1>3 DEF PvSession, PvGo, Take
  <2>3. \A x \in pvTurns : x[2] \in Callers
    BY DEF PvTypeOK
  <2>4. QED
    BY <2>1, <2>2, <2>3
<1>4. ASSUME NEW c \in Callers, PvDrop(c) PROVE Asking'
  <2>1. /\ UNCHANGED <<pvHost, pvTarget, pvCall>>
        /\ \A x \in pvTurns' : x \in pvTurns
        /\ pvAt[c] \notin {"cache", "ask", "answer"}
        /\ pvAt'[c] \notin {"cache", "ask", "answer"}
        /\ \A d \in Callers : d # c => pvAt'[d] = pvAt[d] /\ pvMine'[d] = pvMine[d]
    BY <1>4 DEF PvDrop, PvGo, Take, Return
  <2>2. \A x \in pvTurns : x[2] \in Callers
    BY DEF PvTypeOK
  <2>3. ASSUME NEW d \in Callers, pvAt'[d] \in {"cache", "ask", "answer"}
        PROVE  pvTarget'[pvMine'[d]] = pvCall'[d].arg
    <3>1. d # c /\ pvAt'[d] = pvAt[d] /\ pvMine'[d] = pvMine[d]
      BY <2>1, <2>3
    <3>2. pvTarget[pvMine[d]] = pvCall[d].arg
      BY <2>3, <3>1
    <3>3. QED
      BY <2>1, <3>1, <3>2
  <2>4. ASSUME ~pvHost'.timeout, NEW x \in pvTurns'
        PROVE  pvAt'[x[2]] = "answer" /\ pvMine'[x[2]] = x[1]
    <3>1. x \in pvTurns /\ x[2] \in Callers /\ ~pvHost.timeout
      BY <2>1, <2>2, <2>4
    <3>2. pvAt[x[2]] = "answer" /\ pvMine[x[2]] = x[1] /\ x[2] # c
      BY <2>1, <3>1
    <3>3. QED
      BY <2>1, <3>1, <3>2
  <2>5. QED
    BY <2>3, <2>4
<1>5. ASSUME NEW c \in Callers, PvClose(c) PROVE Asking'
  BY <1>5 DEF PvClose, PvGo, Take, Return, PvFault, pvClients
<1>6. ASSUME NEW c \in Callers, PvStop(c) PROVE Asking'
  <2>1. /\ UNCHANGED <<pvHost, pvTarget, pvCall>>
        /\ \A x \in pvTurns' : x \in pvTurns
        /\ pvAt[c] \notin {"cache", "ask", "answer"}
        /\ pvAt'[c] \notin {"cache", "ask", "answer"}
        /\ \A d \in Callers : d # c => pvAt'[d] = pvAt[d] /\ pvMine'[d] = pvMine[d]
    BY <1>6 DEF PvStop, PvGo, Take, Return
  <2>2. \A x \in pvTurns : x[2] \in Callers
    BY DEF PvTypeOK
  <2>3. ASSUME NEW d \in Callers, pvAt'[d] \in {"cache", "ask", "answer"}
        PROVE  pvTarget'[pvMine'[d]] = pvCall'[d].arg
    <3>1. d # c /\ pvAt'[d] = pvAt[d] /\ pvMine'[d] = pvMine[d]
      BY <2>1, <2>3
    <3>2. pvTarget[pvMine[d]] = pvCall[d].arg
      BY <2>3, <3>1
    <3>3. QED
      BY <2>1, <3>1, <3>2
  <2>4. ASSUME ~pvHost'.timeout, NEW x \in pvTurns'
        PROVE  pvAt'[x[2]] = "answer" /\ pvMine'[x[2]] = x[1]
    <3>1. x \in pvTurns /\ x[2] \in Callers /\ ~pvHost.timeout
      BY <2>1, <2>2, <2>4
    <3>2. pvAt[x[2]] = "answer" /\ pvMine[x[2]] = x[1] /\ x[2] # c
      BY <2>1, <3>1
    <3>3. QED
      BY <2>1, <3>1, <3>2
  <2>5. QED
    BY <2>3, <2>4
<1>7. ASSUME NEW c \in Callers, PvConnect(c) PROVE Asking'
  BY <1>7 DEF PvConnect, PvGo, Take, Return, PvFault, pvClients
<1>8. ASSUME NEW c \in Callers, PvStart(c) PROVE Asking'
  BY <1>8 DEF PvStart, PvGo, Take, Return, PvFault, pvClients
<1>9. ASSUME NEW c \in Callers, PvCache(c) PROVE Asking'
  BY <1>9 DEF PvCache, PvGo, Take, Return, PvFault, pvClients
<1>10. ASSUME NEW c \in Callers, PvAsk(c) PROVE Asking'
  BY <1>10 DEF PvAsk, PvGo, Take, Return, PvFault, pvClients
<1>11. ASSUME NEW c \in Callers, PvAnswer(c) PROVE Asking'
  BY <1>11 DEF PvAnswer, PvGo, Take, Return, PvFault, pvClients
<1>12. ASSUME NEW c \in Callers, PvAskFails(c) PROVE Asking'
  BY <1>12 DEF PvAskFails, PvGo, Take, Return, PvFault, pvClients
<1>13. ASSUME NEW c \in Callers, PvBegin(c) PROVE Asking'
  BY <1>13 DEF PvBegin, PvGo, Take, Return, PvFault, pvClients
<1>14. ASSUME NEW c \in Callers, PvError(c) PROVE Asking'
  BY <1>14 DEF PvError, PvGo, Take, Return, PvFault, pvClients
<1>15. ASSUME NEW c \in Callers, PvAskError(c) PROVE Asking'
  BY <1>15 DEF PvAskError, PvGo, Take, Return, PvFault, pvClients
<1>16. ASSUME NEW c \in Callers, PvTimeout(c) PROVE Asking'
  BY <1>16 DEF PvTimeout, PvGo, Take, Return, PvFault, pvClients
<1>17. CASE PvEnds
  BY <1>17 DEF PvEnds, PvFault
<1>18. CASE UNCHANGED pvVars
  BY <1>18 DEF pvVars, pvClients
<1>19. QED
  BY <1>1, <1>2, <1>3, <1>4, <1>5, <1>6, <1>7, <1>8, <1>9, <1>10, <1>11, <1>12, <1>13, <1>14, <1>15, <1>16, <1>17, <1>18 DEF PvNext, PvStep

PvInv == PvTypeOK /\ Hands /\ Serialized /\ Kept /\ Asking

(* The invariant holds in every reachable state.                           *)
LEMMA PvInitHolds == PvInit => PvInv
BY PvAssumption
DEF PvInit, PvInv, PvTypeOK, Hands, Serialized, Kept, Keeps, Asking, PvPlaces, Clients, Calls

LEMMA PvInvStep == PvInv /\ [PvNext]_pvVars => PvInv'
BY PvTypeStep, HandsStep, SerializedStep, KeptStep, AskingStep DEF PvInv

LEMMA PvInvariant == PvSpec => []PvInv
BY PvInitHolds, PvInvStep, PTL DEF PvSpec

(* provider_codex_runtime.rs:50-114 and :177-193, whatever requests,       *)
(* shutdowns, probes and timeouts overlap: a codex process is in the cache *)
(* or in the hands of one call, unless a failing call or a timeout lost it.*)
THEOREM NoCodexIsForgottenHolds == PvSpec => []NoCodexIsForgotten
<1>1. PvInv => NoCodexIsForgotten
  <2> SUFFICES ASSUME PvInv, NEW k \in pvAlive \ pvLost
               PROVE  \/ pvCached = k /\ Owned(k) = {}
                      \/ pvCached # k /\ Cardinality(Owned(k)) = 1
    BY DEF NoCodexIsForgotten
  <2>1. k # NoClient
    BY PvAssumption DEF PvInv, PvTypeOK, Clients
  <2>2. Owned(k) = {c \in Callers : Keeps(c) /\ pvMine[c] = k}
    BY <2>1 DEF Owned, Keeps
  <2>3. CASE pvCached = k
    BY <2>2, <2>3 DEF PvInv, Kept
  <2>4. CASE pvCached # k
    <3>1. PICK c \in Callers : Keeps(c) /\ pvMine[c] = k
      BY <2>4 DEF PvInv, Kept
    <3>2. Owned(k) = {c}
      BY <2>2, <3>1 DEF PvInv, Kept
    <3>3. QED
      BY <2>4, <3>2, FS_Singleton
  <2>5. QED
    BY <2>3, <2>4
<1>2. QED
  BY <1>1, PvInvariant, PTL

(* provider_codex_runtime.rs:149-151, async_runtime_host.rs:59-66: a       *)
(* request asks a session of its own directory and model, and without the  *)
(* host's timeout no other turn is open on it.                             *)
THEOREM AsksAloneInItsTargetHolds == PvSpec => []AsksAloneInItsTarget
<1>1. PvInv => AsksAloneInItsTarget
  BY DEF PvInv, PvTypeOK, Serialized, Asking, AsksAloneInItsTarget
<1>2. QED
  BY <1>1, PvInvariant, PTL

-----------------------------------------------------------------------------
\* A request that has the guard is beyond it, and will give it back.
GuardIsHeld ==
    pvGuard # NoCaller =>
        /\ pvGuard \in Callers /\ pvCall[pvGuard].kind = "complete"
        /\ pvAt[pvGuard] \notin {"idle", "queue", "guard"}

\* A session is started by the call that connected its client, and asked only
\* when it was started.
StartedOnce ==
    /\ \A k \in Clients : k > pvUsed.clients => pvSession[k] = "none"
    /\ \A c \in Callers :
         /\ pvAt[c] = "start" => pvSession[pvMine[c]] = "none"
         /\ pvAt[c] \in {"cache", "ask", "answer"} => pvSession[pvMine[c]] # "none"

\* Who waits for an answer has an open turn, or its session or client is gone.
Answerable ==
    \A c \in Callers : pvAt[c] = "answer" =>
        \/ <<pvMine[c], c>> \in pvTurns
        \/ pvSession[pvMine[c]] = "closed"
        \/ pvMine[c] \notin pvAlive

\* Callers in a call, and those whose call may yet connect a client: there is one
\* for each of them.
Busy == {c \in Callers : pvAt[c] # "idle"}
Connecting ==
    {c \in Callers : pvAt[c] \in {"queue", "guard", "session", "close", "stop", "connect"}}
Counted == IsFiniteSet(Busy) /\ pvUsed.clients + Cardinality(Connecting) <= pvUsed.calls

\* Every step leaves the guard with a request that is beyond it.
LEMMA GuardIsHeldStep == ASSUME PvTypeOK, Serialized, GuardIsHeld, [PvNext]_pvVars PROVE GuardIsHeld'
<1> USE PvAssumption DEF PvTypeOK, Serialized, GuardIsHeld
<1>1. ASSUME NEW c \in Callers, PvPermit(c) PROVE GuardIsHeld'
  <2>1. PICK place \in PvPlaces :
             /\ pvAt' = [pvAt EXCEPT ![c] = place] /\ pvAt[c] = "queue"
             /\ place \in {"guard", "drop", "connect", "idle"}
             /\ UNCHANGED <<pvHost, pvClients, pvCall, pvMine, pvGuard, pvUsed, pvLost>>
    <3> HIDE DEF PvTypeOK, Serialized, GuardIsHeld
    <3> QED
      BY <1>1, PermitGoes
  <2>2. QED
    BY <2>1 DEF pvClients
<1>2. ASSUME NEW c \in Callers, PvSerialize(c) PROVE GuardIsHeld'
  BY <1>2 DEF PvSerialize, PvGo, Take, Return, PvFault, pvClients
<1>3. ASSUME NEW c \in Callers, PvSession(c) PROVE GuardIsHeld'
  BY <1>3 DEF PvSession, PvGo, Take, Return, PvFault, pvClients
<1>4. ASSUME NEW c \in Callers, PvDrop(c) PROVE GuardIsHeld'
  BY <1>4 DEF PvDrop, PvGo, Take, Return, PvFault, pvClients
<1>5. ASSUME NEW c \in Callers, PvClose(c) PROVE GuardIsHeld'
  BY <1>5 DEF PvClose, PvGo, Take, Return, PvFault, pvClients
<1>6. ASSUME NEW c \in Callers, PvStop(c) PROVE GuardIsHeld'
  BY <1>6 DEF PvStop, PvGo, Take, Return, PvFault, pvClients
<1>7. ASSUME NEW c \in Callers, PvConnect(c) PROVE GuardIsHeld'
  BY <1>7 DEF PvConnect, PvGo, Take, Return, PvFault, pvClients
<1>8. ASSUME NEW c \in Callers, PvStart(c) PROVE GuardIsHeld'
  BY <1>8 DEF PvStart, PvGo, Take, Return, PvFault, pvClients
<1>9. ASSUME NEW c \in Callers, PvCache(c) PROVE GuardIsHeld'
  BY <1>9 DEF PvCache, PvGo, Take, Return, PvFault, pvClients
<1>10. ASSUME NEW c \in Callers, PvAsk(c) PROVE GuardIsHeld'
  BY <1>10 DEF PvAsk, PvGo, Take, Return, PvFault, pvClients
<1>11. ASSUME NEW c \in Callers, PvAnswer(c) PROVE GuardIsHeld'
  BY <1>11 DEF PvAnswer, PvGo, Take, Return, PvFault, pvClients
<1>12. ASSUME NEW c \in Callers, PvAskFails(c) PROVE GuardIsHeld'
  BY <1>12 DEF PvAskFails, PvGo, Take, Return, PvFault, pvClients
<1>13. ASSUME NEW c \in Callers, PvBegin(c) PROVE GuardIsHeld'
  BY <1>13 DEF PvBegin, PvGo, Take, Return, PvFault, pvClients
<1>14. ASSUME NEW c \in Callers, PvError(c) PROVE GuardIsHeld'
  BY <1>14 DEF PvError, PvGo, Take, Return, PvFault, pvClients
<1>15. ASSUME NEW c \in Callers, PvAskError(c) PROVE GuardIsHeld'
  BY <1>15 DEF PvAskError, PvGo, Take, Return, PvFault, pvClients
<1>16. ASSUME NEW c \in Callers, PvTimeout(c) PROVE GuardIsHeld'
  BY <1>16 DEF PvTimeout, PvGo, Take, Return, PvFault, pvClients
<1>17. CASE PvEnds
  BY <1>17 DEF PvEnds, PvFault
<1>18. CASE UNCHANGED pvVars
  BY <1>18 DEF pvVars, pvClients
<1>19. QED
  BY <1>1, <1>2, <1>3, <1>4, <1>5, <1>6, <1>7, <1>8, <1>9, <1>10, <1>11, <1>12, <1>13, <1>14, <1>15, <1>16, <1>17, <1>18
  DEF PvNext, PvStep

\* Every step starts a session at most once.
LEMMA StartedOnceStep == ASSUME PvTypeOK, Hands, Kept, StartedOnce, [PvNext]_pvVars PROVE StartedOnce'
<1> USE PvAssumption DEF PvTypeOK, Hands, Kept, Keeps, StartedOnce, Clients
<1>1. ASSUME NEW c \in Callers, PvPermit(c) PROVE StartedOnce'
  <2>1. PICK place \in PvPlaces :
             /\ pvAt' = [pvAt EXCEPT ![c] = place] /\ pvAt[c] = "queue"
             /\ place \in {"guard", "drop", "connect", "idle"}
             /\ UNCHANGED <<pvHost, pvClients, pvCall, pvMine, pvGuard, pvUsed, pvLost>>
    <3> HIDE DEF PvTypeOK, Hands, Kept, Keeps, StartedOnce, Clients
    <3> QED
      BY <1>1, PermitGoes
  <2>2. QED
    BY <2>1 DEF pvClients
<1>2. ASSUME NEW c \in Callers, PvSerialize(c) PROVE StartedOnce'
  BY <1>2 DEF PvSerialize, PvGo, Take, Return, PvFault, pvClients
<1>3. ASSUME NEW c \in Callers, PvSession(c) PROVE StartedOnce'
  BY <1>3 DEF PvSession, PvGo, Take
<1>4. ASSUME NEW c \in Callers, PvDrop(c) PROVE StartedOnce'
  BY <1>4 DEF PvDrop, PvGo, Take, Return, PvFault, pvClients
<1>5. ASSUME NEW c \in Callers, PvClose(c) PROVE StartedOnce'
  BY <1>5 DEF PvClose, PvGo, Take, Return, PvFault, pvClients
<1>6. ASSUME NEW c \in Callers, PvStop(c) PROVE StartedOnce'
  <2>1. /\ UNCHANGED <<pvSession, pvUsed>> /\ pvAt'[c] \in {"connect", "idle"}
        /\ \A d \in Callers : d # c => pvAt'[d] = pvAt[d] /\ pvMine'[d] = pvMine[d]
    BY <1>6 DEF PvStop, PvGo, Take, Return
  <2>2. QED
    BY <2>1
<1>7. ASSUME NEW c \in Callers, PvConnect(c) PROVE StartedOnce'
  BY <1>7 DEF PvConnect, PvGo, Take, Return, PvFault, pvClients
<1>8. ASSUME NEW c \in Callers, PvStart(c) PROVE StartedOnce'
  BY <1>8 DEF PvStart, PvGo, Take, Return, PvFault, pvClients
<1>9. ASSUME NEW c \in Callers, PvCache(c) PROVE StartedOnce'
  BY <1>9 DEF PvCache, PvGo, Take, Return, PvFault, pvClients
<1>10. ASSUME NEW c \in Callers, PvAsk(c) PROVE StartedOnce'
  BY <1>10 DEF PvAsk, PvGo, Take, Return, PvFault, pvClients
<1>11. ASSUME NEW c \in Callers, PvAnswer(c) PROVE StartedOnce'
  BY <1>11 DEF PvAnswer, PvGo, Take, Return, PvFault, pvClients
<1>12. ASSUME NEW c \in Callers, PvAskFails(c) PROVE StartedOnce'
  BY <1>12 DEF PvAskFails, PvGo, Take, Return, PvFault, pvClients
<1>13. ASSUME NEW c \in Callers, PvBegin(c) PROVE StartedOnce'
  BY <1>13 DEF PvBegin, PvGo, Take, Return, PvFault, pvClients
<1>14. ASSUME NEW c \in Callers, PvError(c) PROVE StartedOnce'
  BY <1>14 DEF PvError, PvGo, Take, Return, PvFault, pvClients
<1>15. ASSUME NEW c \in Callers, PvAskError(c) PROVE StartedOnce'
  BY <1>15 DEF PvAskError, PvGo, Take, Return, PvFault, pvClients
<1>16. ASSUME NEW c \in Callers, PvTimeout(c) PROVE StartedOnce'
  BY <1>16 DEF PvTimeout, PvGo, Take, Return, PvFault, pvClients
<1>17. CASE PvEnds
  <2>1. /\ UNCHANGED <<pvAt, pvMine>> /\ pvUsed'.clients = pvUsed.clients
        /\ \A k \in Clients : pvSession'[k] = pvSession[k] \/ (pvSession[k] = "open" /\ pvSession'[k] = "closed")
    BY <1>17 DEF PvEnds, PvFault
  <2>2. \A c \in Callers : pvAt[c] \in {"start", "cache", "ask", "answer"} => pvMine[c] \in Clients
    <3>1. pvUsed.clients \in 0..MaxPvCalls /\ MaxPvCalls \in Nat
      OBVIOUS
    <3>2. 1..pvUsed.clients \subseteq Clients
      BY <3>1
    <3> QED
      BY <3>2
  <2> QED
    BY <2>1, <2>2
<1>18. CASE UNCHANGED pvVars
  BY <1>18 DEF pvVars, pvClients
<1>19. QED
  BY <1>1, <1>2, <1>3, <1>4, <1>5, <1>6, <1>7, <1>8, <1>9, <1>10, <1>11, <1>12, <1>13, <1>14, <1>15, <1>16, <1>17, <1>18
  DEF PvNext, PvStep

\* Every step leaves an answer possible or makes it an error.
LEMMA AnswerableStep == ASSUME PvTypeOK, Hands, StartedOnce, Answerable, [PvNext]_pvVars PROVE Answerable'
<1> USE PvAssumption DEF PvTypeOK, Hands, StartedOnce, Answerable, Clients
<1>1. ASSUME NEW c \in Callers, PvPermit(c) PROVE Answerable'
  <2>1. PICK place \in PvPlaces :
             /\ pvAt' = [pvAt EXCEPT ![c] = place] /\ pvAt[c] = "queue"
             /\ place \in {"guard", "drop", "connect", "idle"}
             /\ UNCHANGED <<pvHost, pvClients, pvCall, pvMine, pvGuard, pvUsed, pvLost>>
    <3> HIDE DEF PvTypeOK, Hands, StartedOnce, Answerable, Clients
    <3> QED
      BY <1>1, PermitGoes
  <2>2. QED
    BY <2>1 DEF pvClients
<1>2. ASSUME NEW c \in Callers, PvSerialize(c) PROVE Answerable'
  BY <1>2 DEF PvSerialize, PvGo, Take, Return, PvFault, pvClients
<1>3. ASSUME NEW c \in Callers, PvSession(c) PROVE Answerable'
  BY <1>3 DEF PvSession, PvGo, Take, Return, PvFault, pvClients
<1>4. ASSUME NEW c \in Callers, PvDrop(c) PROVE Answerable'
  BY <1>4 DEF PvDrop, PvGo, Take, Return, PvFault, pvClients
<1>5. ASSUME NEW c \in Callers, PvClose(c) PROVE Answerable'
  BY <1>5 DEF PvClose, PvGo, Take, Return, PvFault, pvClients
<1>6. ASSUME NEW c \in Callers, PvStop(c) PROVE Answerable'
  <2>1. /\ pvAt'[c] \in {"connect", "idle"} /\ pvSession' = pvSession
        /\ pvAlive' = pvAlive \ {pvMine[c]} /\ pvTurns' = {x \in pvTurns : x[1] # pvMine[c]}
        /\ \A d \in Callers : d # c => pvAt'[d] = pvAt[d] /\ pvMine'[d] = pvMine[d]
    BY <1>6 DEF PvStop, PvGo, Take, Return
  <2>2. ASSUME NEW d \in Callers, pvAt'[d] = "answer"
        PROVE  \/ <<pvMine'[d], d>> \in pvTurns'
               \/ pvSession'[pvMine'[d]] = "closed" \/ pvMine'[d] \notin pvAlive'
    <3>1. pvAt[d] = "answer" /\ pvMine'[d] = pvMine[d]
      BY <2>1, <2>2
    <3>2. CASE pvMine[d] = pvMine[c]
      BY <2>1, <3>1, <3>2
    <3>3. CASE pvMine[d] # pvMine[c]
      <4>1. <<pvMine[d], d>> \in pvTurns => <<pvMine[d], d>> \in pvTurns'
        BY <2>1, <3>3, Zenon
      <4>2. QED
        BY <2>1, <3>1, <4>1
    <3>4. QED
      BY <3>2, <3>3
  <2>3. QED
    BY <2>2
<1>7. ASSUME NEW c \in Callers, PvConnect(c) PROVE Answerable'
  BY <1>7 DEF PvConnect, PvGo, Take, Return, PvFault, pvClients
<1>8. ASSUME NEW c \in Callers, PvStart(c) PROVE Answerable'
  BY <1>8 DEF PvStart, PvGo, Take, Return, PvFault, pvClients
<1>9. ASSUME NEW c \in Callers, PvCache(c) PROVE Answerable'
  BY <1>9 DEF PvCache, PvGo, Take, Return, PvFault, pvClients
<1>10. ASSUME NEW c \in Callers, PvAsk(c) PROVE Answerable'
  BY <1>10 DEF PvAsk, PvGo, Take, Return, PvFault, pvClients
<1>11. ASSUME NEW c \in Callers, PvAnswer(c) PROVE Answerable'
  BY <1>11 DEF PvAnswer, PvGo, Take, Return, PvFault, pvClients
<1>12. ASSUME NEW c \in Callers, PvAskFails(c) PROVE Answerable'
  BY <1>12 DEF PvAskFails, PvGo, Take, Return, PvFault, pvClients
<1>13. ASSUME NEW c \in Callers, PvBegin(c) PROVE Answerable'
  BY <1>13 DEF PvBegin, PvGo, Take, Return, PvFault, pvClients
<1>14. ASSUME NEW c \in Callers, PvError(c) PROVE Answerable'
  BY <1>14 DEF PvError, PvGo, Take, Return, PvFault, pvClients
<1>15. ASSUME NEW c \in Callers, PvAskError(c) PROVE Answerable'
  BY <1>15 DEF PvAskError, PvGo, Take, Return, PvFault, pvClients
<1>16. ASSUME NEW c \in Callers, PvTimeout(c) PROVE Answerable'
  BY <1>16 DEF PvTimeout, PvGo, Take, Return, PvFault, pvClients
<1>17. CASE PvEnds
  BY <1>17 DEF PvEnds, PvFault
<1>18. CASE UNCHANGED pvVars
  BY <1>18 DEF pvVars, pvClients
<1>19. QED
  BY <1>1, <1>2, <1>3, <1>4, <1>5, <1>6, <1>7, <1>8, <1>9, <1>10, <1>11, <1>12, <1>13, <1>14, <1>15, <1>16, <1>17, <1>18
  DEF PvNext, PvStep

LEMMA CountsAreNumbers ==
  ASSUME PvTypeOK, Counted
  PROVE  /\ pvUsed.clients \in Nat /\ pvUsed.calls \in Nat
         /\ IsFiniteSet(Connecting) /\ Cardinality(Connecting) \in Nat
<1>1. Connecting \in SUBSET Busy
  BY DEF Connecting, Busy
<1> QED
  BY <1>1, FS_Subset, FS_CardinalityType DEF PvTypeOK, Counted

\* Where no call begins or connects, the counts can only go down.
LEMMA CountsGoDown ==
  ASSUME PvTypeOK, Counted, Busy' \subseteq Busy, Connecting' \subseteq Connecting,
         pvUsed'.clients = pvUsed.clients, pvUsed'.calls = pvUsed.calls
  PROVE  Counted'
<1>1. IsFiniteSet(Busy')
  BY FS_Subset DEF Counted
<1>2. Cardinality(Connecting') <= Cardinality(Connecting) /\ Cardinality(Connecting') \in Nat
  BY CountsAreNumbers, FS_Subset, FS_CardinalityType
<1> QED
  BY <1>1, <1>2, CountsAreNumbers DEF Counted

LEMMA CountedStep == ASSUME PvTypeOK, Hands, Serialized, Counted, [PvNext]_pvVars PROVE Counted'
<1> USE DEF PvTypeOK
<1>1. ASSUME NEW c \in Callers, PvBegin(c) PROVE Counted'
  <2>1. /\ pvAt[c] = "idle" /\ pvAt' = [pvAt EXCEPT ![c] = "queue"]
        /\ pvUsed'.clients = pvUsed.clients /\ pvUsed'.calls = pvUsed.calls + 1
    BY <1>1 DEF PvBegin, PvGo
  <2>2. /\ Busy' = Busy \cup {c} /\ Connecting' = Connecting \cup {c} /\ c \notin Connecting
    BY <2>1 DEF Busy, Connecting
  <2>3. Cardinality(Connecting') = Cardinality(Connecting) + 1
    BY <2>2, CountsAreNumbers, FS_AddElement
  <2>4. IsFiniteSet(Busy')
    BY <2>2, FS_AddElement DEF Counted
  <2> QED
    BY <2>1, <2>3, <2>4, CountsAreNumbers DEF Counted
<1>2. ASSUME NEW c \in Callers, PvConnect(c) PROVE Counted'
  <2>1. /\ pvAt[c] = "connect" /\ \E place \in {"drop_stop", "start"} : pvAt' = [pvAt EXCEPT ![c] = place]
        /\ pvUsed'.clients = pvUsed.clients + 1 /\ pvUsed'.calls = pvUsed.calls
    BY <1>2 DEF PvConnect, PvGo
  <2>2. /\ Busy' = Busy /\ Connecting' = Connecting \ {c} /\ c \in Connecting
    BY <2>1 DEF Busy, Connecting
  <2>3. Cardinality(Connecting') = Cardinality(Connecting) - 1
    BY <2>2, CountsAreNumbers, FS_RemoveElement
  <2> QED
    BY <2>1, <2>2, <2>3, CountsAreNumbers DEF Counted
<1>3. ASSUME NEW c \in Callers, PvPermit(c) PROVE Counted'
  <2>1. /\ \E place \in {"guard", "drop", "connect", "idle"} : pvAt' = [pvAt EXCEPT ![c] = place]
        /\ pvAt[c] = "queue" /\ pvUsed' = pvUsed
    BY <1>3, PermitGoes
  <2>2. Busy' \subseteq Busy /\ Connecting' \subseteq Connecting
    BY <2>1 DEF Busy, Connecting
  <2> QED
    BY <2>1, <2>2, CountsGoDown
<1>4. ASSUME NEW c \in Callers, PvSerialize(c) PROVE Counted'
  <2>1. Busy' \subseteq Busy /\ Connecting' \subseteq Connecting
    BY <1>4 DEF PvSerialize, PvGo, Return, pvClients, Busy, Connecting
  <2>2. pvUsed'.clients = pvUsed.clients /\ pvUsed'.calls = pvUsed.calls
    BY <1>4 DEF PvSerialize, PvFault
  <2> QED
    BY <2>1, <2>2, CountsGoDown
<1>5. ASSUME NEW c \in Callers, PvSession(c) PROVE Counted'
  <2>1. Busy' \subseteq Busy /\ Connecting' \subseteq Connecting
    BY <1>5 DEF PvSession, PvGo, Return, pvClients, Busy, Connecting
  <2>2. pvUsed'.clients = pvUsed.clients /\ pvUsed'.calls = pvUsed.calls
    BY <1>5 DEF PvSession, PvFault
  <2> QED
    BY <2>1, <2>2, CountsGoDown
<1>6. ASSUME NEW c \in Callers, PvDrop(c) PROVE Counted'
  <2>1. Busy' \subseteq Busy /\ Connecting' \subseteq Connecting
    BY <1>6 DEF PvDrop, PvGo, Return, pvClients, Busy, Connecting
  <2>2. pvUsed'.clients = pvUsed.clients /\ pvUsed'.calls = pvUsed.calls
    BY <1>6 DEF PvDrop, PvFault
  <2> QED
    BY <2>1, <2>2, CountsGoDown
<1>7. ASSUME NEW c \in Callers, PvClose(c) PROVE Counted'
  <2>1. Busy' \subseteq Busy /\ Connecting' \subseteq Connecting
    BY <1>7 DEF PvClose, PvGo, Return, pvClients, Busy, Connecting
  <2>2. pvUsed'.clients = pvUsed.clients /\ pvUsed'.calls = pvUsed.calls
    BY <1>7 DEF PvClose, PvFault
  <2> QED
    BY <2>1, <2>2, CountsGoDown
<1>8. ASSUME NEW c \in Callers, PvStop(c) PROVE Counted'
  <2>1. Busy' \subseteq Busy /\ Connecting' \subseteq Connecting
    BY <1>8 DEF PvStop, PvGo, Return, pvClients, Busy, Connecting
  <2>2. pvUsed'.clients = pvUsed.clients /\ pvUsed'.calls = pvUsed.calls
    BY <1>8 DEF PvStop, PvFault
  <2> QED
    BY <2>1, <2>2, CountsGoDown
<1>9. ASSUME NEW c \in Callers, PvStart(c) PROVE Counted'
  <2>1. Busy' \subseteq Busy /\ Connecting' \subseteq Connecting
    BY <1>9 DEF PvStart, PvGo, Return, pvClients, Busy, Connecting
  <2>2. pvUsed'.clients = pvUsed.clients /\ pvUsed'.calls = pvUsed.calls
    BY <1>9 DEF PvStart, PvFault
  <2> QED
    BY <2>1, <2>2, CountsGoDown
<1>10. ASSUME NEW c \in Callers, PvCache(c) PROVE Counted'
  <2>1. Busy' \subseteq Busy /\ Connecting' \subseteq Connecting
    BY <1>10 DEF PvCache, PvGo, Return, pvClients, Busy, Connecting
  <2>2. pvUsed'.clients = pvUsed.clients /\ pvUsed'.calls = pvUsed.calls
    BY <1>10 DEF PvCache, PvFault
  <2> QED
    BY <2>1, <2>2, CountsGoDown
<1>11. ASSUME NEW c \in Callers, PvAsk(c) PROVE Counted'
  <2>1. Busy' \subseteq Busy /\ Connecting' \subseteq Connecting
    BY <1>11 DEF PvAsk, PvGo, Return, pvClients, Busy, Connecting
  <2>2. pvUsed'.clients = pvUsed.clients /\ pvUsed'.calls = pvUsed.calls
    BY <1>11 DEF PvAsk, PvFault
  <2> QED
    BY <2>1, <2>2, CountsGoDown
<1>12. ASSUME NEW c \in Callers, PvAnswer(c) PROVE Counted'
  <2>1. Busy' \subseteq Busy /\ Connecting' \subseteq Connecting
    BY <1>12 DEF PvAnswer, PvGo, Return, pvClients, Busy, Connecting
  <2>2. pvUsed'.clients = pvUsed.clients /\ pvUsed'.calls = pvUsed.calls
    BY <1>12 DEF PvAnswer, PvFault
  <2> QED
    BY <2>1, <2>2, CountsGoDown
<1>13. ASSUME NEW c \in Callers, PvAskFails(c) PROVE Counted'
  <2>1. Busy' \subseteq Busy /\ Connecting' \subseteq Connecting
    BY <1>13 DEF PvAskFails, PvGo, Return, pvClients, Busy, Connecting
  <2>2. pvUsed'.clients = pvUsed.clients /\ pvUsed'.calls = pvUsed.calls
    BY <1>13 DEF PvAskFails, PvFault
  <2> QED
    BY <2>1, <2>2, CountsGoDown
<1>14. ASSUME NEW c \in Callers, PvError(c) PROVE Counted'
  <2>1. Busy' \subseteq Busy /\ Connecting' \subseteq Connecting
    BY <1>14 DEF PvError, PvGo, Return, pvClients, Busy, Connecting
  <2>2. pvUsed'.clients = pvUsed.clients /\ pvUsed'.calls = pvUsed.calls
    BY <1>14 DEF PvError, PvFault
  <2> QED
    BY <2>1, <2>2, CountsGoDown
<1>15. ASSUME NEW c \in Callers, PvAskError(c) PROVE Counted'
  <2>1. Busy' \subseteq Busy /\ Connecting' \subseteq Connecting
    BY <1>15 DEF PvAskError, PvGo, Return, pvClients, Busy, Connecting
  <2>2. pvUsed'.clients = pvUsed.clients /\ pvUsed'.calls = pvUsed.calls
    BY <1>15 DEF PvAskError, PvFault
  <2> QED
    BY <2>1, <2>2, CountsGoDown
<1>16. ASSUME NEW c \in Callers, PvTimeout(c) PROVE Counted'
  <2>1. Busy' \subseteq Busy /\ Connecting' \subseteq Connecting
    BY <1>16 DEF PvTimeout, PvGo, Return, pvClients, Busy, Connecting
  <2>2. pvUsed'.clients = pvUsed.clients /\ pvUsed'.calls = pvUsed.calls
    BY <1>16 DEF PvTimeout, PvFault
  <2> QED
    BY <2>1, <2>2, CountsGoDown
<1>17. CASE PvEnds
  <2>1. Busy' = Busy /\ Connecting' = Connecting
    BY <1>17 DEF PvEnds, Busy, Connecting
  <2>2. pvUsed'.clients = pvUsed.clients /\ pvUsed'.calls = pvUsed.calls
    BY <1>17 DEF PvEnds, PvFault
  <2> QED
    BY <2>1, <2>2, CountsGoDown
<1>18. CASE UNCHANGED pvVars
  BY <1>18 DEF pvVars, Counted, Busy, Connecting
<1>19. QED
  BY <1>1, <1>2, <1>3, <1>4, <1>5, <1>6, <1>7, <1>8, <1>9, <1>10, <1>11, <1>12, <1>13, <1>14, <1>15, <1>16, <1>17, <1>18
  DEF PvNext, PvStep

Unblocked == GuardIsHeld /\ StartedOnce /\ Answerable /\ Counted

LEMMA UnblockedInvariant == PvSpec => [](PvInv /\ Unblocked)
<1>1. PvInit => Unblocked
  <2> SUFFICES ASSUME PvInit PROVE Unblocked
    OBVIOUS
  <2>1. GuardIsHeld /\ StartedOnce /\ Answerable
    BY PvAssumption DEF PvInit, GuardIsHeld, StartedOnce, Answerable, Clients
  <2>2. Busy = {} /\ Connecting = {}
    BY DEF PvInit, Busy, Connecting
  <2> QED
    BY <2>1, <2>2, FS_EmptySet DEF PvInit, Unblocked, Counted
<1>2. PvInv /\ Unblocked /\ [PvNext]_pvVars => Unblocked'
  BY GuardIsHeldStep, StartedOnceStep, AnswerableStep, CountedStep DEF PvInv, Unblocked
<1> QED
  BY <1>1, <1>2, PvInvariant, PTL DEF PvSpec

\* provider_codex_runtime.rs:127-175 and async_runtime_host.rs:51-73, for any
\* number of callers, permits, calls and faults: no call waits in a circle.
THEOREM NoCallIsStuckHolds == PvSpec => []NoCallIsStuck
<1>1. PvInv /\ Unblocked => NoCallIsStuck
  <2> SUFFICES ASSUME PvInv, Unblocked, NEW c \in Callers
               PROVE  \/ pvAt[c] = "idle" \/ PvCanGo(c)
                      \/ pvAt[c] = "guard" /\ pvGuard \in Callers /\ PvCanGo(pvGuard)
                      \/ pvAt[c] = "queue" /\ \E d \in InFlight : PvCanGo(d)
    BY DEF NoCallIsStuck
  <2> DEFINE Goes(d) == \/ PvCanGo(d)
                        \/ pvAt[d] = "guard" /\ pvGuard \in Callers \ {d} /\ pvGuard \in InFlight /\ PvCanGo(pvGuard)
  <2>1. ASSUME NEW d \in Callers, pvAt[d] = "connect"
        PROVE  PvCanGo(d)
    <3>1. d \in Connecting
      BY <2>1 DEF Connecting
    <3>2. Cardinality(Connecting) # 0
      BY <3>1, CountsAreNumbers, FS_EmptySet DEF PvInv, Unblocked
    <3>3. pvUsed.clients < pvUsed.calls /\ pvUsed.calls <= MaxPvCalls
      BY <3>2, CountsAreNumbers DEF PvInv, PvTypeOK, Unblocked, Counted
    <3> QED
      BY <2>1, <3>3, PvAssumption, CountsAreNumbers DEF PvCanGo, PvInv, Unblocked
  <2>2. ASSUME NEW d \in Callers, pvAt[d] \notin {"idle", "queue", "guard"}
        PROVE  PvCanGo(d)
    <3>1. CASE pvAt[d] = "ask"
      BY <3>1 DEF PvCanGo, Unblocked, StartedOnce
    <3>2. CASE pvAt[d] = "answer"
      BY <3>2 DEF PvCanGo, Unblocked, Answerable
    <3> QED
      BY <2>1, <2>2, <3>1, <3>2 DEF PvCanGo, PvInv, PvTypeOK, PvPlaces
  <2>3. ASSUME NEW d \in Callers, pvAt[d] = "guard"
        PROVE  Goes(d)
    <3>1. CASE pvGuard = NoCaller
      BY <2>3, <3>1 DEF PvCanGo
    <3>2. CASE pvGuard # NoCaller
      BY <2>2, <2>3, <3>2 DEF Unblocked, GuardIsHeld, InFlight
    <3> QED
      BY <3>1, <3>2
  <2>4. CASE pvAt[c] = "queue"
    <3>1. CASE Cardinality(InFlight) < pvHost.permits
      BY <2>4, <3>1 DEF PvCanGo
    <3>2. CASE ~(Cardinality(InFlight) < pvHost.permits)
      <4>1. InFlight # {}
        <5>1. pvHost.permits \in Nat \ {0}
          BY PvAssumption DEF PvInv, PvTypeOK
        <5>2. Cardinality({}) = 0
          BY FS_EmptySet
        <5> HIDE DEF InFlight
        <5> QED
          BY <3>2, <5>1, <5>2
      <4>2. PICK d \in Callers : d \in InFlight /\ pvAt[d] \notin {"idle", "queue"}
        BY <4>1 DEF InFlight
      <4>3. CASE pvAt[d] = "guard"
        <5>1. \E e \in InFlight : PvCanGo(e)
          <6>1. Goes(d)
            BY <2>3, <4>2, <4>3
          <6>2. CASE PvCanGo(d)
            BY <4>2, <6>2
          <6>3. CASE pvGuard \in InFlight /\ PvCanGo(pvGuard)
            BY <6>3
          <6> QED
            BY <6>1, <6>2, <6>3
        <5> QED
          BY <2>4, <5>1
      <4>4. CASE pvAt[d] # "guard"
        BY <2>2, <2>4, <4>2, <4>4
      <4> QED
        BY <4>3, <4>4
    <3> QED
      BY <3>1, <3>2
  <2> QED
    BY <2>2, <2>3, <2>4
<1> QED
  BY <1>1, UnblockedInvariant, PTL

-----------------------------------------------------------------------------
\* The tables other processes see agree with each other.
Agree ==
    \A k \in Keys, t \in Terms :
        <<t, k>> \in sqPostings <=> sqRows[k] # NoValue /\ t \in TermsOf[<<k, sqRows[k]>>]

\* One transaction at a time, and what it has still to insert.
Alone ==
    /\ \A a, b \in SqAdapters : sqAt[a] # "idle" /\ sqAt[b] # "idle" => a = b
    /\ \A a \in SqAdapters :
         /\ sqAt[a] # "idle" => sqDoing[a].kind \in {"store", "delete"}
         /\ sqAt[a] = "insert" => sqDoing[a].kind = "store"
         /\ sqDoing[a].kind = "store" => sqDoing[a].value \in Values
         /\ sqDoing[a].kind # "store" => sqDoing[a].value = NoValue
         /\ \A k \in sqDoing[a].keys :
              /\ sqDoing[a].kind = "store" /\ sqAt[a] \in {"row", "terms"}
                    => sqLeft[a] = TermsOf[<<k, sqDoing[a].value>>]
              /\ sqAt[a] = "insert" => sqLeft[a] \subseteq TermsOf[<<k, sqDoing[a].value>>]

\* Outside of its keys a transaction sees the committed tables; on its keys,
\* what its statements so far have made.
Viewed ==
    \A a \in SqAdapters, k \in Keys : sqAt[a] # "idle" =>
      /\ k \notin sqDoing[a].keys =>
           /\ sqView[a].rows[k] = sqRows[k]
           /\ \A t \in Terms : <<t, k>> \in sqView[a].postings <=> <<t, k>> \in sqPostings
      /\ k \in sqDoing[a].keys =>
           /\ sqAt[a] \in {"insert", "commit"} \/ (sqAt[a] = "terms" /\ sqDoing[a].kind = "store")
                 => sqView[a].rows[k] = sqDoing[a].value
           /\ sqAt[a] = "row" /\ sqDoing[a].kind = "delete" =>
                 \A t \in Terms : <<t, k>> \notin sqView[a].postings
           /\ sqAt[a] = "insert" =>
                 \A t \in Terms : <<t, k>> \in sqView[a].postings
                                    <=> t \in TermsOf[<<k, sqDoing[a].value>>] \ sqLeft[a]
           /\ sqAt[a] = "commit" =>
                 \A t \in Terms : <<t, k>> \in sqView[a].postings
                                    <=> /\ sqDoing[a].kind = "store"
                                        /\ t \in TermsOf[<<k, sqDoing[a].value>>]

(* Every step keeps the types.                                             *)
LEMMA SqTypeStep == ASSUME SqTypeOK, [SqNext]_sqVars PROVE SqTypeOK'
<1> USE SqAssumption, MemoryAssumption DEF SqTypeOK
<1>1. ASSUME NEW a \in SqAdapters, SqStore(a) PROVE SqTypeOK'
  <2>1. PICK k \in Keys, v \in Values :
          /\ SqBegin(a, SqOp("store", {k}, v), "row")
          /\ sqLeft' = [sqLeft EXCEPT ![a] = TermsOf[<<k, v>>]]
    BY <1>1 DEF SqStore
  <2>2. SqOp("store", {k}, v) \in [kind : {"none", "store", "delete"}, keys : SUBSET Keys,
                          value : Values \cup {NoValue}]
    BY <2>1 DEF SqOp
  <2>3. Tables(sqRows, sqPostings) \in SqTables
    BY DEF Tables, SqTables
  <2>4. sqUsed' \in [ops : 0..MaxSqOps, faults : 0..MaxSqFaults]
    BY <2>1 DEF SqBegin, SqStart
  <2>5. TermsOf[<<k, v>>] \in SUBSET Terms
    BY MemoryAssumption DEF Stored
  <2>6. QED
    BY <2>1, <2>2, <2>3, <2>4, <2>5 DEF SqBegin, SqGo
<1>2. ASSUME NEW a \in SqAdapters, SqDelete(a) PROVE SqTypeOK'
  <2>1. PICK keys \in SUBSET Keys :
          SqBegin(a, SqOp("delete", keys, NoValue), "terms") /\ UNCHANGED sqLeft
    BY <1>2 DEF SqDelete
  <2>2. SqOp("delete", keys, NoValue) \in [kind : {"none", "store", "delete"}, keys : SUBSET Keys,
                          value : Values \cup {NoValue}]
    BY <2>1 DEF SqOp
  <2>3. Tables(sqRows, sqPostings) \in SqTables
    BY DEF Tables, SqTables
  <2>4. sqUsed' \in [ops : 0..MaxSqOps, faults : 0..MaxSqFaults]
    BY <2>1 DEF SqBegin, SqStart
  <2>5. QED
    BY <2>1, <2>2, <2>3, <2>4 DEF SqBegin, SqGo
<1>3. ASSUME NEW a \in SqAdapters, SqBusy(a) PROVE SqTypeOK'
  BY <1>3 DEF SqBusy, SqGo, SqEnd, SqStart, SqBegin, SqOp, SqNoOp, Tables, NoTables, SqTables, Maps, Stored, EmptyMap
<1>4. ASSUME NEW a \in SqAdapters, SqRow(a) PROVE SqTypeOK'
  <2> DEFINE rows == [k \in Keys |-> IF k \in sqDoing[a].keys THEN sqDoing[a].value
                                    ELSE sqView[a].rows[k]]
  <2>1. rows \in Maps
    BY DEF SqTables, Maps, Stored
  <2>2. [sqView[a] EXCEPT !.rows = rows] \in SqTables
    <3>1. sqView[a] \in SqTables
      OBVIOUS
    <3> HIDE DEF rows, SqTypeOK
    <3> QED
      BY <2>1, <3>1 DEF SqTables
  <2>3. sqView' = [sqView EXCEPT ![a] = [sqView[a] EXCEPT !.rows = rows]]
    BY <1>4 DEF SqRow
  <2>4. sqView' \in [SqAdapters -> SqTables]
    BY <2>2, <2>3
  <2>5. sqAt' \in [SqAdapters -> {"idle", "row", "terms", "insert", "commit"}]
    BY <1>4 DEF SqRow, SqGo
  <2>6. QED
    BY <1>4, <2>4, <2>5 DEF SqRow
<1>5. ASSUME NEW a \in SqAdapters, SqDeleteTerms(a) PROVE SqTypeOK'
  <2> DEFINE left == {p \in sqView[a].postings : p[2] \notin sqDoing[a].keys}
  <2>1. [sqView[a] EXCEPT !.postings = left] \in SqTables
    BY DEF SqTables
  <2>2. sqView' = [sqView EXCEPT ![a] = [sqView[a] EXCEPT !.postings = left]]
    BY <1>5 DEF SqDeleteTerms
  <2>3. sqView' \in [SqAdapters -> SqTables]
    BY <2>1, <2>2
  <2>4. sqAt' \in [SqAdapters -> {"idle", "row", "terms", "insert", "commit"}]
    BY <1>5 DEF SqDeleteTerms, SqGo
  <2>5. QED
    BY <1>5, <2>3, <2>4 DEF SqDeleteTerms
<1>6. ASSUME NEW a \in SqAdapters, SqInsertTerm(a) PROVE SqTypeOK'
  <2> DEFINE Inserted(t) ==
        /\ sqView' = [sqView EXCEPT ![a] =
                         [sqView[a] EXCEPT !.postings =
                             sqView[a].postings \cup ({t} \X sqDoing[a].keys)]]
        /\ sqLeft' = [sqLeft EXCEPT ![a] = sqLeft[a] \ {t}] /\ UNCHANGED sqAt
  <2>1. CASE SqGo(a, "commit") /\ UNCHANGED <<sqView, sqLeft>>
    BY <1>6, <2>1 DEF SqInsertTerm, SqGo
  <2>2. ASSUME NEW t \in sqLeft[a], Inserted(t) PROVE SqTypeOK'
    <3>1. t \in Terms /\ sqDoing[a].keys \subseteq Keys
      OBVIOUS
    <3>2. [sqView[a] EXCEPT !.postings = sqView[a].postings \cup ({t} \X sqDoing[a].keys)]
             \in SqTables
      BY <3>1 DEF SqTables
    <3>3. sqView' \in [SqAdapters -> SqTables]
      BY <2>2, <3>2
    <3>4. sqLeft' \in [SqAdapters -> SUBSET Terms]
      BY <2>2
    <3>5. QED
      BY <1>6, <2>2, <3>3, <3>4 DEF SqInsertTerm
  <2>3. \/ SqGo(a, "commit") /\ UNCHANGED <<sqView, sqLeft>>
        \/ \E t \in sqLeft[a] : Inserted(t)
    BY <1>6 DEF SqInsertTerm
  <2>4. QED
    BY <2>1, <2>2, <2>3
<1>7. ASSUME NEW a \in SqAdapters, SqCommit(a) PROVE SqTypeOK'
  BY <1>7 DEF SqCommit, SqGo, SqEnd, SqStart, SqBegin, SqOp, SqNoOp, Tables, NoTables, SqTables, Maps, Stored, EmptyMap
<1>8. ASSUME NEW a \in SqAdapters, SqRollback(a) PROVE SqTypeOK'
  <2>1. SqNoOp \in [kind : {"none", "store", "delete"}, keys : SUBSET Keys,
                     value : Values \cup {NoValue}]
    BY DEF SqNoOp, SqOp
  <2>2. NoTables \in SqTables
    BY DEF NoTables, Tables, SqTables, EmptyMap, Maps
  <2>3. sqUsed' \in [ops : 0..MaxSqOps, faults : 0..MaxSqFaults]
    BY <1>8 DEF SqRollback
  <2>4. QED
    BY <1>8, <2>1, <2>2, <2>3 DEF SqRollback, SqEnd, SqGo
<1>9. CASE UNCHANGED sqVars
  BY <1>9 DEF sqVars, SqTables, Maps, Stored, EmptyMap
<1> HIDE DEF SqTypeOK
<1>10. QED
  BY <1>1, <1>2, <1>3, <1>4, <1>5, <1>6, <1>7, <1>8, <1>9 DEF SqNext

(* Every step keeps transactions apart.                                    *)
LEMMA AloneStep == ASSUME SqTypeOK, Alone, [SqNext]_sqVars PROVE Alone'
<1> USE SqAssumption, MemoryAssumption DEF SqTypeOK, Alone
<1>1. ASSUME NEW a \in SqAdapters, SqStore(a) PROVE Alone'
  <2>1. PICK k \in Keys, v \in Values :
          /\ SqBegin(a, SqOp("store", {k}, v), "row")
          /\ sqLeft' = [sqLeft EXCEPT ![a] = TermsOf[<<k, v>>]]
    BY <1>1 DEF SqStore
  <2>2. /\ sqDoing'[a].kind = "store" /\ sqDoing'[a].keys = {k} /\ sqDoing'[a].value = v
        /\ sqAt'[a] = "row" /\ sqLeft'[a] = TermsOf[<<k, v>>]
    BY <2>1 DEF SqBegin, SqOp, SqGo
  <2>3. \A b \in SqAdapters : b # a => /\ sqAt'[b] = "idle" /\ sqDoing'[b] = sqDoing[b]
                                       /\ sqLeft'[b] = sqLeft[b]
    BY <2>1 DEF SqBegin, SqGo, InTransaction
  <2>4. \A b, d \in SqAdapters : sqAt'[b] # "idle" /\ sqAt'[d] # "idle" => b = d
    BY <2>3
  <2>5. ASSUME NEW b \in SqAdapters
        PROVE  /\ sqAt'[b] # "idle" => sqDoing'[b].kind \in {"store", "delete"}
               /\ sqAt'[b] = "insert" => sqDoing'[b].kind = "store"
               /\ sqDoing'[b].kind = "store" => sqDoing'[b].value \in Values
               /\ sqDoing'[b].kind # "store" => sqDoing'[b].value = NoValue
               /\ \A j \in sqDoing'[b].keys :
                    /\ sqDoing'[b].kind = "store" /\ sqAt'[b] \in {"row", "terms"}
                          => sqLeft'[b] = TermsOf[<<j, sqDoing'[b].value>>]
                    /\ sqAt'[b] = "insert"
                          => sqLeft'[b] \subseteq TermsOf[<<j, sqDoing'[b].value>>]
    <3>1. CASE b = a
      BY <2>2, <3>1
    <3>2. CASE b # a
      BY <2>3, <3>2
    <3>3. QED
      BY <3>1, <3>2
  <2>6. QED
    BY <2>4, <2>5
<1>2. ASSUME NEW a \in SqAdapters, SqDelete(a) PROVE Alone'
  BY <1>2 DEF SqDelete, SqGo, SqEnd, SqStart, SqBegin, SqOp, SqNoOp, Tables, NoTables, InTransaction
<1>3. ASSUME NEW a \in SqAdapters, SqBusy(a) PROVE Alone'
  BY <1>3 DEF SqBusy, SqGo, SqEnd, SqStart, SqBegin, SqOp, SqNoOp, Tables, NoTables, InTransaction
<1>4. ASSUME NEW a \in SqAdapters, SqRow(a) PROVE Alone'
  BY <1>4 DEF SqRow, SqGo, SqEnd, SqStart, SqBegin, SqOp, SqNoOp, Tables, NoTables, InTransaction
<1>5. ASSUME NEW a \in SqAdapters, SqDeleteTerms(a) PROVE Alone'
  BY <1>5 DEF SqDeleteTerms, SqGo, SqEnd, SqStart, SqBegin, SqOp, SqNoOp, Tables, NoTables, InTransaction
<1>6. ASSUME NEW a \in SqAdapters, SqInsertTerm(a) PROVE Alone'
  <2>1. /\ UNCHANGED sqDoing /\ sqAt[a] = "insert" /\ sqAt'[a] \in {"insert", "commit"}
        /\ sqLeft'[a] \subseteq sqLeft[a]
        /\ \A b \in SqAdapters : b # a => sqAt'[b] = sqAt[b] /\ sqLeft'[b] = sqLeft[b]
    BY <1>6 DEF SqInsertTerm, SqGo
  <2>2. QED
    BY <2>1 DEF InTransaction
<1>7. ASSUME NEW a \in SqAdapters, SqCommit(a) PROVE Alone'
  BY <1>7 DEF SqCommit, SqGo, SqEnd, SqStart, SqBegin, SqOp, SqNoOp, Tables, NoTables, InTransaction
<1>8. ASSUME NEW a \in SqAdapters, SqRollback(a) PROVE Alone'
  BY <1>8 DEF SqRollback, SqGo, SqEnd, SqStart, SqBegin, SqOp, SqNoOp, Tables, NoTables, InTransaction
<1>9. CASE UNCHANGED sqVars
  BY <1>9 DEF sqVars, InTransaction
<1> HIDE DEF SqTypeOK, Alone
<1>10. QED
  BY <1>1, <1>2, <1>3, <1>4, <1>5, <1>6, <1>7, <1>8, <1>9 DEF SqNext

(* What an insert of the posting of one term changes.                      *)
LEMMA PostingsOfTerm == ASSUME NEW S, NEW K, NEW t, NEW u, NEW k
                        PROVE <<u, k>> \in S \cup ({t} \X K) <=> <<u, k>> \in S \/ (u = t /\ k \in K)
BY Zenon

(* Every step keeps what a transaction sees.                               *)
LEMMA ViewedStep == ASSUME SqTypeOK, Alone, Viewed, [SqNext]_sqVars PROVE Viewed'
<1> USE SqAssumption, MemoryAssumption DEF SqTypeOK, Alone, Viewed
<1>1. ASSUME NEW a \in SqAdapters, SqStore(a) PROVE Viewed'
  BY <1>1 DEF SqStore, SqGo, SqEnd, SqStart, SqBegin, SqOp, SqNoOp, Tables, NoTables, InTransaction, SqTables, Maps
<1>2. ASSUME NEW a \in SqAdapters, SqDelete(a) PROVE Viewed'
  BY <1>2 DEF SqDelete, SqGo, SqEnd, SqStart, SqBegin, SqOp, SqNoOp, Tables, NoTables, InTransaction, SqTables, Maps
<1>3. ASSUME NEW a \in SqAdapters, SqBusy(a) PROVE Viewed'
  BY <1>3 DEF SqBusy, SqGo, SqEnd, SqStart, SqBegin, SqOp, SqNoOp, Tables, NoTables, InTransaction, SqTables, Maps
<1>4. ASSUME NEW a \in SqAdapters, SqRow(a) PROVE Viewed'
  BY <1>4 DEF SqRow, SqGo, SqEnd, SqStart, SqBegin, SqOp, SqNoOp, Tables, NoTables, InTransaction, SqTables, Maps
<1>5. ASSUME NEW a \in SqAdapters, SqDeleteTerms(a) PROVE Viewed'
  BY <1>5 DEF SqDeleteTerms, SqGo, SqEnd, SqStart, SqBegin, SqOp, SqNoOp, Tables, NoTables, InTransaction, SqTables, Maps
<1>6. ASSUME NEW a \in SqAdapters, SqInsertTerm(a) PROVE Viewed'
  <2> DEFINE Inserted(t) ==
        /\ sqView' = [sqView EXCEPT ![a] =
                         [sqView[a] EXCEPT !.postings =
                             sqView[a].postings \cup ({t} \X sqDoing[a].keys)]]
        /\ sqLeft' = [sqLeft EXCEPT ![a] = sqLeft[a] \ {t}] /\ UNCHANGED sqAt
  <2>1. sqAt[a] = "insert" /\ \A b \in SqAdapters : b # a => sqAt[b] = "idle" /\ sqAt'[b] = "idle"
    BY <1>6 DEF SqInsertTerm, SqGo
  <2>2. UNCHANGED <<sqRows, sqPostings, sqDoing>>
    BY <1>6 DEF SqInsertTerm
  <2>3. CASE sqLeft[a] = {} /\ SqGo(a, "commit") /\ UNCHANGED <<sqView, sqLeft>>
    <3>1. sqAt'[a] = "commit" /\ sqDoing[a].kind = "store"
      BY <2>1, <2>3 DEF SqGo
    <3>2. QED
      BY <2>1, <2>2, <2>3, <3>1
  <2>4. ASSUME NEW t \in sqLeft[a], Inserted(t) PROVE Viewed'
    <3>1. sqView'[a] = [sqView[a] EXCEPT !.postings =
                           sqView[a].postings \cup ({t} \X sqDoing[a].keys)]
      BY <2>4
    <3>2. /\ sqView'[a].rows = sqView[a].rows
          /\ sqView'[a].postings = sqView[a].postings \cup ({t} \X sqDoing[a].keys)
      BY <3>1 DEF SqTables
    <3>3. sqLeft'[a] = sqLeft[a] \ {t}
      BY <2>4
    <3>4. ASSUME NEW k \in Keys, NEW u \in Terms
          PROVE <<u, k>> \in sqView'[a].postings <=>
                    <<u, k>> \in sqView[a].postings \/ (u = t /\ k \in sqDoing[a].keys)
      <4> HIDE DEF SqTypeOK, Alone, Viewed, Inserted
      <4> QED
        BY <3>2, PostingsOfTerm, Zenon
    <3>5. \A k \in Keys : k \in sqDoing[a].keys => t \in TermsOf[<<k, sqDoing[a].value>>]
      BY <2>1, <2>4
    <3>6. sqAt'[a] = "insert"
      BY <2>1, <2>4
    <3>7. QED
      BY <2>1, <2>2, <3>2, <3>3, <3>4, <3>5, <3>6
  <2>5. \/ sqLeft[a] = {} /\ SqGo(a, "commit") /\ UNCHANGED <<sqView, sqLeft>>
        \/ \E t \in sqLeft[a] : Inserted(t)
    BY <1>6 DEF SqInsertTerm
  <2> HIDE DEF SqTypeOK, Alone, Viewed, Inserted
  <2>6. QED
    BY <2>3, <2>4, <2>5
<1>7. ASSUME NEW a \in SqAdapters, SqCommit(a) PROVE Viewed'
  BY <1>7 DEF SqCommit, SqGo, SqEnd, SqStart, SqBegin, SqOp, SqNoOp, Tables, NoTables, InTransaction, SqTables, Maps
<1>8. ASSUME NEW a \in SqAdapters, SqRollback(a) PROVE Viewed'
  BY <1>8 DEF SqRollback, SqGo, SqEnd, SqStart, SqBegin, SqOp, SqNoOp, Tables, NoTables, InTransaction, SqTables, Maps
<1>9. CASE UNCHANGED sqVars
  BY <1>9 DEF sqVars, InTransaction, SqTables, Maps
<1> HIDE DEF SqTypeOK, Alone, Viewed
<1>10. QED
  BY <1>1, <1>2, <1>3, <1>4, <1>5, <1>6, <1>7, <1>8, <1>9 DEF SqNext

(* Every step keeps the committed tables in agreement.                     *)
LEMMA AgreeStep == ASSUME SqTypeOK, Alone, Viewed, Agree, [SqNext]_sqVars PROVE Agree'
<1> USE SqAssumption, MemoryAssumption DEF SqTypeOK, Alone, Viewed, Agree
<1>1. ASSUME NEW a \in SqAdapters,
             \/ SqStore(a) \/ SqDelete(a) \/ SqBusy(a) \/ SqRow(a)
             \/ SqDeleteTerms(a) \/ SqInsertTerm(a) \/ SqRollback(a)
      PROVE  UNCHANGED <<sqRows, sqPostings>>
  BY <1>1 DEF SqStore, SqDelete, SqBegin, SqBusy, SqRow, SqDeleteTerms, SqInsertTerm, SqRollback
<1>2. ASSUME NEW a \in SqAdapters, SqCommit(a) PROVE Agree'
  <2>1. /\ sqRows' = sqView[a].rows /\ sqPostings' = sqView[a].postings
        /\ sqAt[a] = "commit" /\ sqView[a].rows \in Maps
    BY <1>2 DEF SqCommit, SqTables
  <2>2. \A k \in Keys : k \in sqDoing[a].keys =>
          /\ sqRows'[k] = sqDoing[a].value
          /\ \A t \in Terms : <<t, k>> \in sqPostings'
                                <=> /\ sqDoing[a].kind = "store"
                                    /\ t \in TermsOf[<<k, sqDoing[a].value>>]
    BY <2>1
  <2>3. \A k \in Keys : k \notin sqDoing[a].keys =>
          /\ sqRows'[k] = sqRows[k]
          /\ \A t \in Terms : <<t, k>> \in sqPostings' <=> <<t, k>> \in sqPostings
    BY <2>1
  <2>4. sqDoing[a].value # NoValue <=> sqDoing[a].kind = "store"
    BY DEF Stored
  <2>5. ASSUME NEW k \in Keys, NEW t \in Terms
        PROVE  <<t, k>> \in sqPostings' <=> sqRows'[k] # NoValue /\ t \in TermsOf[<<k, sqRows'[k]>>]
    <3>1. CASE k \in sqDoing[a].keys
      <4>1. sqRows'[k] = sqDoing[a].value
        BY <2>2, <3>1
      <4>2. <<t, k>> \in sqPostings' <=> /\ sqDoing[a].kind = "store"
                                        /\ t \in TermsOf[<<k, sqDoing[a].value>>]
        BY <2>2, <3>1
      <4>3. QED
        BY <2>4, <4>1, <4>2
    <3>2. CASE k \notin sqDoing[a].keys
      <4>1. sqRows'[k] = sqRows[k] /\ (<<t, k>> \in sqPostings' <=> <<t, k>> \in sqPostings)
        BY <2>3, <3>2
      <4>2. QED
        BY <4>1
    <3>3. QED
      BY <3>1, <3>2
  <2> HIDE DEF SqTypeOK, Alone, Viewed
  <2>6. QED
    BY <2>5, Zenon
<1> HIDE DEF SqTypeOK, Alone, Viewed, Agree
<1>3. ASSUME UNCHANGED <<sqRows, sqPostings>> PROVE Agree'
  BY <1>3, Zenon DEF Agree
<1>4. CASE UNCHANGED sqVars
  BY <1>3, <1>4 DEF sqVars
<1>5. QED
  BY <1>1, <1>2, <1>3, <1>4 DEF SqNext

SqInv == SqTypeOK /\ Alone /\ Viewed /\ Agree

(* The invariant holds in every reachable state.                           *)
LEMMA SqInitHolds == SqInit => SqInv
BY SqAssumption, MemoryAssumption
DEF SqInit, SqInv, SqTypeOK, Alone, Viewed, Agree, SqNoOp, SqOp, NoTables, Tables, EmptyMap, SqTables,
    Maps

LEMMA SqInvStep == SqInv /\ [SqNext]_sqVars => SqInv'
BY SqTypeStep, AloneStep, ViewedStep, AgreeStep DEF SqInv

LEMMA SqInvariant == SqSpec => []SqInv
BY SqInitHolds, SqInvStep, PTL DEF SqSpec

(* memory_sqlite.rs:83-130 and :310-336, for every set of keys, values,    *)
(* terms and processes: at any moment a recall finds exactly the records   *)
(* with every term of the query.                                           *)
THEOREM SqRecallFindsWhatIsStoredHolds == SqSpec => []SqRecallFindsWhatIsStored
<1>1. SqInv => SqRecallFindsWhatIsStored
  <2> SUFFICES ASSUME SqInv, NEW query \in SUBSET Terms
               PROVE  SqRecall(query) = Found(sqRows, query)
    BY DEF SqRecallFindsWhatIsStored
  <2>1. ASSUME NEW k \in Keys, sqRows[k] # NoValue
        PROVE  (\A t \in query : <<t, k>> \in sqPostings) <=> query \subseteq TermsOf[<<k, sqRows[k]>>]
    BY <2>1 DEF SqInv, Agree
  <2>2. QED
    BY <2>1 DEF SqRecall, Matched, Found
<1>2. QED
  BY <1>1, SqInvariant, PTL

-----------------------------------------------------------------------------
(* The Markdown memory.                                                    *)

\* Index and records agree, also in the copies that a change prepares.
MdAgree ==
    \A a \in MdAdapters :
        /\ mdIndex[a] = FromRecords(mdRecords[a])
        /\ mdNext[a].index = FromRecords(mdNext[a].map)

\* One process at a time has the memory open, and what it has open is memory.tmp.
OneOpen ==
    /\ \A a, b \in MdAdapters : mdAt[a] # "closed" /\ mdAt[b] # "closed" => a = b
    /\ \A a \in MdAdapters :
         /\ mdAt[a] \notin {"remove", "rename2"}
         /\ mdWrites[a] = (IF mdAt[a] = "write" THEN "tmp" ELSE "gone")

\* A text that is to be renamed is whole.
WholeText ==
    \A a \in MdAdapters :
        /\ mdAt[a] = "write" => mdTmp = EmptyMap
        /\ mdAt[a] = "rename" => mdTmp = mdNext[a].map
        /\ mdAt[a] = "return" => mdFile = mdNext[a].map

\* The process has what the file has, and prepares it with its change.
Copied ==
    \A a \in MdAdapters :
        /\ mdAt[a] = "idle" => mdRecords[a] = mdFile
        /\ mdAt[a] \in {"truncate", "write", "rename"} =>
             /\ mdDoing[a].kind = "open" \/ mdRecords[a] = mdFile
             /\ mdNext[a].map = AckedBy(mdDoing[a])

\* What the next open finds is what was acknowledged, or what will be.
Recovered ==
    /\ mdFile # Unreadable
    /\ (\A a \in MdAdapters : mdAt[a] # "return") => Loaded = mdAcked
    /\ \A a \in MdAdapters : mdAt[a] = "return" => Loaded = AckedBy(mdDoing[a])

MdSafe == (mdReplaces /\ ~mdShared) => OneOpen /\ WholeText /\ Copied /\ Recovered

-----------------------------------------------------------------------------
(* The index.                                                              *)

LEMMA PairsAre ==
  ASSUME NEW terms, NEW t \in Terms, NEW k \in Keys
  PROVE  <<t, k>> \in Pairs(terms) <=> t \in terms[k]
BY DEF Pairs

\* Postings are determined by the terms and keys they pair.
LEMMA SamePairs ==
  ASSUME NEW P \in SUBSET (Terms \X Keys), NEW terms,
         \A t \in Terms, k \in Keys : <<t, k>> \in P <=> t \in terms[k]
  PROVE  P = Pairs(terms)
<1>1. ASSUME NEW p \in Terms \X Keys
      PROVE  p \in P <=> p \in Pairs(terms)
  <2>1. PICK t \in Terms, k \in Keys : p = <<t, k>>
    OBVIOUS
  <2> QED
    BY <2>1, PairsAre
<1> QED
  BY <1>1 DEF Pairs

LEMMA PairTaken ==
  ASSUME NEW S, NEW T, NEW t, NEW k, NEW u, NEW j
  PROVE  /\ <<u, j>> \in {<<x, k>> : x \in T} <=> u \in T /\ j = k
         /\ <<u, j>> \in S \ {<<x, k>> : x \in T} <=> <<u, j>> \in S /\ ~(u \in T /\ j = k)
BY Zenon

LEMMA TermsTypes ==
  ASSUME NEW m \in Maps
  PROVE  /\ TermsIn(m) \in [Keys -> SUBSET Terms]
         /\ FromRecords(m) \in Indexes
BY MemoryAssumption DEF TermsIn, FromRecords, Indexes, Maps, Pairs

LEMMA IndexTypes ==
  ASSUME NEW i \in Indexes, NEW k \in Keys, NEW v \in Values
  PROVE  RemoveKey(i, k) \in Indexes /\ UpsertRecord(i, k, v) \in Indexes
<1>1. TermsOf[<<k, v>>] \subseteq Terms
  BY MemoryAssumption DEF Stored
<1>2. \A t \in Terms : <<t, k>> \in Terms \X Keys
  OBVIOUS
<1>3. RemoveKey(i, k) \in Indexes
  BY DEF RemoveKey, Indexes
<1>4. {<<t, k>> : t \in TermsOf[<<k, v>>]} \subseteq Terms \X Keys
  BY <1>1, <1>2
<1>5. /\ [RemoveKey(i, k).terms EXCEPT ![k] = TermsOf[<<k, v>>]] \in [Keys -> SUBSET Terms]
      /\ RemoveKey(i, k).postings \subseteq Terms \X Keys
  BY <1>1, <1>3 DEF Indexes
<1> QED
  BY <1>3, <1>4, <1>5 DEF UpsertRecord, Indexes

\* remove_key takes out of the index what the record of the key had put there.
LEMMA RemoveKeyAgrees ==
  ASSUME NEW m \in Maps, NEW k \in Keys
  PROVE  RemoveKey(FromRecords(m), k) = FromRecords([m EXCEPT ![k] = NoValue])
<1> DEFINE n == [m EXCEPT ![k] = NoValue]
           taken == {<<u, k>> : u \in TermsIn(m)[k]}
           left == Pairs(TermsIn(m)) \ taken
<1>1. TermsIn(m) \in [Keys -> SUBSET Terms] /\ n \in Maps
  BY TermsTypes DEF Maps
<1>2. [TermsIn(m) EXCEPT ![k] = {}] = TermsIn(n)
  BY <1>1 DEF TermsIn, Maps
<1>3. \A t \in Terms, j \in Keys : <<t, j>> \in left <=> t \in TermsIn(n)[j]
  <2> HIDE DEF left, n
  <2> SUFFICES ASSUME NEW t \in Terms, NEW j \in Keys
               PROVE  <<t, j>> \in left <=> t \in TermsIn(n)[j]
    BY Zenon
  <2> USE DEF left, n
  <2>1. <<t, j>> \in left <=> <<t, j>> \in Pairs(TermsIn(m)) /\ ~(t \in TermsIn(m)[k] /\ j = k)
    BY PairTaken
  <2>2. <<t, j>> \in Pairs(TermsIn(m)) <=> t \in TermsIn(m)[j]
    BY PairsAre
  <2>3. TermsIn(n)[j] = IF j = k THEN {} ELSE TermsIn(m)[j]
    BY <1>1, <1>2
  <2> QED
    BY <2>1, <2>2, <2>3
<1>4. left = Pairs(TermsIn(n))
  <2>1. left \in SUBSET (Terms \X Keys)
    BY DEF Pairs
  <2> QED
    BY <1>3, <2>1, SamePairs
<1> QED
  BY <1>2, <1>4 DEF RemoveKey, FromRecords

\* upsert_record leaves the terms of the new value and of no older one.
LEMMA UpsertRecordAgrees ==
  ASSUME NEW m \in Maps, NEW k \in Keys, NEW v \in Values
  PROVE  UpsertRecord(FromRecords(m), k, v) = FromRecords([m EXCEPT ![k] = v])
<1> DEFINE n == [m EXCEPT ![k] = v]
           clean == [m EXCEPT ![k] = NoValue]
           added == {<<u, k>> : u \in TermsOf[<<k, v>>]}
           all == Pairs(TermsIn(clean)) \cup added
<1>1. n \in Maps /\ clean \in Maps /\ TermsOf[<<k, v>>] \subseteq Terms /\ v # NoValue
  BY MemoryAssumption DEF Maps, Stored
<1>2. TermsIn(clean) \in [Keys -> SUBSET Terms]
  BY <1>1, TermsTypes
<1>3. [TermsIn(clean) EXCEPT ![k] = TermsOf[<<k, v>>]] = TermsIn(n)
  BY <1>1, <1>2 DEF TermsIn, Maps
<1>4. \A t \in Terms, j \in Keys : <<t, j>> \in all <=> t \in TermsIn(n)[j]
  <2> HIDE DEF all, n
  <2> SUFFICES ASSUME NEW t \in Terms, NEW j \in Keys
               PROVE  <<t, j>> \in all <=> t \in TermsIn(n)[j]
    BY Zenon
  <2> USE DEF all, n
  <2>1. <<t, j>> \in added <=> t \in TermsOf[<<k, v>>] /\ j = k
    BY PairTaken
  <2>2. <<t, j>> \in Pairs(TermsIn(clean)) <=> t \in TermsIn(clean)[j]
    BY PairsAre
  <2>3. TermsIn(n)[j] = IF j = k THEN TermsOf[<<k, v>>] ELSE TermsIn(clean)[j]
    BY <1>2, <1>3
  <2>4. TermsIn(clean)[k] = {}
    BY <1>1 DEF TermsIn, Maps
  <2> QED
    BY <2>1, <2>2, <2>3, <2>4
<1>5. all = Pairs(TermsIn(n))
  <2>1. all \in SUBSET (Terms \X Keys)
    BY <1>1 DEF Pairs
  <2> QED
    BY <1>4, <2>1, SamePairs
<1>6. RemoveKey(FromRecords(m), k) = FromRecords(clean)
  BY RemoveKeyAgrees
<1>7. UpsertRecord(FromRecords(m), k, v)
        = [terms |-> [TermsIn(clean) EXCEPT ![k] = TermsOf[<<k, v>>]], postings |-> all]
  <2>1. FromRecords(clean) = [terms |-> TermsIn(clean), postings |-> Pairs(TermsIn(clean))]
    BY DEF FromRecords
  <2> HIDE DEF clean, added
  <2>2. /\ FromRecords(clean).terms = TermsIn(clean)
        /\ FromRecords(clean).postings = Pairs(TermsIn(clean))
    BY <2>1
  <2> QED
    BY <1>6, <2>2 DEF UpsertRecord, added
<1> QED
  BY <1>3, <1>5, <1>7 DEF FromRecords

\* An index that agrees finds exactly the records with every term of the query.
LEMMA AgreeingIndexFinds ==
  ASSUME NEW m \in Maps, NEW query \in SUBSET Terms
  PROVE  Matched(m, FromRecords(m).postings, query) = Found(m, query)
<1>1. FromRecords(m).postings = Pairs(TermsIn(m))
  BY DEF FromRecords
<1>2. ASSUME NEW k \in Keys, m[k] # NoValue
      PROVE  (\A t \in query : <<t, k>> \in Pairs(TermsIn(m))) <=> query \subseteq TermsOf[<<k, m[k]>>]
  <2>1. TermsIn(m)[k] = TermsOf[<<k, m[k]>>]
    BY <1>2 DEF TermsIn
  <2>2. \A t \in query : <<t, k>> \in Pairs(TermsIn(m)) <=> t \in TermsIn(m)[k]
    BY PairsAre
  <2> QED
    BY <2>1, <2>2
<1> QED
  BY <1>1, <1>2 DEF Matched, Found

LEMMA NothingIsIndexed == FromRecords(EmptyMap) = EmptyIndex /\ EmptyMap \in Maps
<1>1. TermsIn(EmptyMap) = [k \in Keys |-> {}]
  BY DEF TermsIn, EmptyMap
<1>2. {} = Pairs(TermsIn(EmptyMap))
  BY <1>1 DEF Pairs
<1> QED
  BY <1>1, <1>2 DEF FromRecords, EmptyIndex, EmptyMap, Maps

-----------------------------------------------------------------------------
(* The texts.                                                              *)

MdTexts == Maps \cup {NoFile, Unreadable}

LEMMA TextTypes ==
  ASSUME NEW old, NEW m
  PROVE  TextOver(old, m) \subseteq MdTexts /\ CutText(m) \subseteq MdTexts
BY DEF TextOver, CutText, MdTexts

\* A text written into an empty file is there as it was written.
LEMMA TextOverNothing ==
  ASSUME NEW m \in Maps
  PROVE  TextOver(EmptyMap, m) = {m}
<1>1. EmptyMap \in Maps /\ EmptyMap # Unreadable
  BY NothingIsIndexed, MdAssumption
<1>2. \A n \in Maps : (\A k \in Keys : n[k] = m[k] \/ (n[k] = EmptyMap[k] /\ EmptyMap[k] # NoValue)) => n = m
  BY DEF EmptyMap, Maps
<1>3. TextOver(EmptyMap, m)
        = {n \in Maps : \A k \in Keys : n[k] = m[k] \/ (n[k] = EmptyMap[k] /\ EmptyMap[k] # NoValue)}
  BY <1>1 DEF TextOver
<1> QED
  BY <1>2, <1>3

LEMMA LoadedTypes ==
  ASSUME MdTypeOK, Loaded # Unreadable
  PROVE  Loaded \in Maps
BY NothingIsIndexed DEF MdTypeOK, Loaded

LEMMA AckedByTypes ==
  ASSUME MdTypeOK, NEW a \in MdAdapters
  PROVE  AckedBy(mdDoing[a]) \in Maps
<1>1. mdDoing[a].value \in Values \cup {NoValue}
  BY DEF MdTypeOK, Ops
<1> QED
  BY <1>1 DEF AckedBy, MdTypeOK, Maps, Stored

LEMMA MdFailTypes ==
  ASSUME MdTypeOK, NEW a \in MdAdapters, MdFail(a)
  PROVE  /\ mdAt' \in [MdAdapters -> MdPlaces] /\ mdDoing' \in [MdAdapters -> Ops]
         /\ mdNext' \in [MdAdapters -> [map : Maps, index : Indexes]]
         /\ mdWrites' \in [MdAdapters -> {"tmp", "file", "gone"}]
<1>1. NoOp \in Ops /\ NoCopy \in [map : Maps, index : Indexes]
  <2>1. EmptyMap \in Maps /\ EmptyIndex \in Indexes
    BY NothingIsIndexed, TermsTypes
  <2> QED
    BY <2>1 DEF NoOp, Op, Ops, NoCopy, Copy
<1> QED
  BY <1>1 DEF MdTypeOK, MdFail, MdGo, MdPlaces

LEMMA MdCountTypes ==
  ASSUME MdTypeOK,
         MdCount("ops", MaxMdOps) \/ MdCount("faults", MaxMdFaults) \/ MdCount("kills", MaxMdKills)
  PROVE  mdUsed' \in [ops : 0..MaxMdOps, faults : 0..MaxMdFaults, kills : 0..MaxMdKills]
BY MdAssumption DEF MdTypeOK, MdCount

LEMMA PutTypes ==
  ASSUME MdTypeOK, NEW a \in MdAdapters, NEW S \in SUBSET MdTexts, NEW T \in SUBSET MdTexts, Put(a, S, T)
  PROVE  mdTmp' \in MdTexts /\ mdFile' \in MdTexts
BY DEF MdTypeOK, Put, MdTexts

-----------------------------------------------------------------------------
LEMMA MdTypeStep == ASSUME MdTypeOK, [MdNext]_mdVars PROVE MdTypeOK'
<1> DEFINE Copies == [map : Maps, index : Indexes]
<1>1. NoOp \in Ops /\ NoCopy \in Copies /\ EmptyMap \in Maps /\ EmptyIndex \in Indexes
  <2>1. EmptyMap \in Maps /\ EmptyIndex \in Indexes
    BY NothingIsIndexed, TermsTypes
  <2> QED
    BY <2>1 DEF NoOp, Op, Ops, NoCopy, Copy
<1>2. ASSUME NEW a \in MdAdapters, MdOpen(a) PROVE MdTypeOK'
  <2>1. mdUsed' \in [ops : 0..MaxMdOps, faults : 0..MaxMdFaults, kills : 0..MaxMdKills]
    BY <1>2, MdCountTypes DEF MdOpen
  <2>2. CASE Loaded = Unreadable
    BY <1>2, <2>1, <2>2 DEF MdOpen, MdTypeOK, mdDisk
  <2>3. CASE Loaded # Unreadable
    <3>1. Copy(Loaded, FromRecords(Loaded)) \in Copies
      BY <2>3, LoadedTypes, TermsTypes DEF Copy
    <3>2. Op("open", {}, NoValue) \in Ops
      BY DEF Op, Ops
    <3>3. /\ mdAt' = [mdAt EXCEPT ![a] = "truncate"]
          /\ mdDoing' = [mdDoing EXCEPT ![a] = Op("open", {}, NoValue)]
          /\ mdNext' = [mdNext EXCEPT ![a] = Copy(Loaded, FromRecords(Loaded))]
          /\ mdShared' \in BOOLEAN
          /\ UNCHANGED <<mdReplaces, mdFile, mdTmp, mdRecords, mdIndex, mdWrites, mdAcked>>
      BY <1>2, <2>3 DEF MdOpen, mdDisk, MdGo
    <3> QED
      BY <2>1, <3>1, <3>2, <3>3 DEF MdTypeOK, MdPlaces
  <2> QED
    BY <2>2, <2>3
<1>3. ASSUME NEW a \in MdAdapters, MdStore(a) PROVE MdTypeOK'
  <2>1. mdUsed' \in [ops : 0..MaxMdOps, faults : 0..MaxMdFaults, kills : 0..MaxMdKills]
    BY <1>3, MdCountTypes DEF MdStore
  <2>2. PICK k \in Keys, v \in Values :
         IF mdRecords[a][k] = v
           THEN /\ mdAcked' = [mdAcked EXCEPT ![k] = v]
                /\ UNCHANGED <<mdAt, mdDoing, mdNext>>
           ELSE /\ MdGo(a, "truncate")
                /\ mdDoing' = [mdDoing EXCEPT ![a] = Op("store", {k}, v)]
                /\ mdNext' = [mdNext EXCEPT ![a] = Copy([mdRecords[a] EXCEPT ![k] = v],
                                                        UpsertRecord(mdIndex[a], k, v))]
                /\ UNCHANGED mdAcked
    BY <1>3 DEF MdStore
  <2>3. CASE mdRecords[a][k] = v
    <3>1. mdAcked' \in Maps
      BY <2>2, <2>3 DEF MdTypeOK, Maps, Stored
    <3> QED
      BY <1>3, <2>1, <2>2, <2>3, <3>1 DEF MdStore, MdTypeOK, mdDisk
  <2>4. CASE mdRecords[a][k] # v
    <3>1. [mdRecords[a] EXCEPT ![k] = v] \in Maps
      BY DEF MdTypeOK, Maps, Stored
    <3>2. UpsertRecord(mdIndex[a], k, v) \in Indexes
      BY IndexTypes DEF MdTypeOK
    <3>3. Op("store", {k}, v) \in Ops
      BY DEF Op, Ops
    <3>4. /\ mdAt' = [mdAt EXCEPT ![a] = "truncate"]
          /\ mdDoing' = [mdDoing EXCEPT ![a] = Op("store", {k}, v)]
          /\ mdNext' = [mdNext EXCEPT ![a] = Copy([mdRecords[a] EXCEPT ![k] = v], UpsertRecord(mdIndex[a], k, v))]
          /\ UNCHANGED mdAcked
      BY <2>2, <2>4 DEF MdGo
    <3>5. UNCHANGED <<mdReplaces, mdFile, mdTmp, mdRecords, mdIndex, mdWrites, mdShared>>
      BY <1>3 DEF MdStore, mdDisk
    <3>6. Copy([mdRecords[a] EXCEPT ![k] = v], UpsertRecord(mdIndex[a], k, v)) \in Copies
      BY <3>1, <3>2 DEF Copy
    <3> QED
      BY <2>1, <3>3, <3>4, <3>5, <3>6 DEF MdTypeOK, MdPlaces
  <2> QED
    BY <2>3, <2>4
<1>4. ASSUME NEW a \in MdAdapters, MdDelete(a) PROVE MdTypeOK'
  <2>1. mdUsed' \in [ops : 0..MaxMdOps, faults : 0..MaxMdFaults, kills : 0..MaxMdKills]
    BY <1>4, MdCountTypes DEF MdDelete
  <2>2. PICK k \in Keys :
         IF mdRecords[a][k] = NoValue
           THEN /\ mdAcked' = [mdAcked EXCEPT ![k] = NoValue]
                /\ UNCHANGED <<mdAt, mdDoing, mdNext>>
           ELSE /\ MdGo(a, "truncate")
                /\ mdDoing' = [mdDoing EXCEPT ![a] = Op("delete", {k}, NoValue)]
                /\ mdNext' = [mdNext EXCEPT ![a] = Copy([mdRecords[a] EXCEPT ![k] = NoValue],
                                                        RemoveKey(mdIndex[a], k))]
                /\ UNCHANGED mdAcked
    BY <1>4 DEF MdDelete
  <2>3. CASE mdRecords[a][k] = NoValue
    <3>1. mdAcked' \in Maps
      BY <2>2, <2>3 DEF MdTypeOK, Maps
    <3> QED
      BY <1>4, <2>1, <2>2, <2>3, <3>1 DEF MdDelete, MdTypeOK, mdDisk
  <2>4. CASE mdRecords[a][k] # NoValue
    <3>1. [mdRecords[a] EXCEPT ![k] = NoValue] \in Maps
      BY DEF MdTypeOK, Maps
    <3>2. RemoveKey(mdIndex[a], k) \in Indexes
      <4>1. mdIndex[a] \in Indexes
        BY DEF MdTypeOK
      <4> QED
        BY <4>1 DEF RemoveKey, Indexes
    <3>3. Op("delete", {k}, NoValue) \in Ops
      BY DEF Op, Ops
    <3>4. /\ mdAt' = [mdAt EXCEPT ![a] = "truncate"]
          /\ mdDoing' = [mdDoing EXCEPT ![a] = Op("delete", {k}, NoValue)]
          /\ mdNext' = [mdNext EXCEPT ![a] = Copy([mdRecords[a] EXCEPT ![k] = NoValue], RemoveKey(mdIndex[a], k))]
          /\ UNCHANGED mdAcked
      BY <2>2, <2>4 DEF MdGo
    <3>5. UNCHANGED <<mdReplaces, mdFile, mdTmp, mdRecords, mdIndex, mdWrites, mdShared>>
      BY <1>4 DEF MdDelete, mdDisk
    <3>6. Copy([mdRecords[a] EXCEPT ![k] = NoValue], RemoveKey(mdIndex[a], k)) \in Copies
      BY <3>1, <3>2 DEF Copy
    <3> QED
      BY <2>1, <3>3, <3>4, <3>5, <3>6 DEF MdTypeOK, MdPlaces
  <2> QED
    BY <2>3, <2>4
<1>5. ASSUME NEW a \in MdAdapters, MdTruncate(a) PROVE MdTypeOK'
  BY <1>1, <1>5 DEF MdTruncate, MdTypeOK, MdGo, MdPlaces
<1>6. ASSUME NEW a \in MdAdapters, MdWrite(a) PROVE MdTypeOK'
  <2>1. mdTmp' \in MdTexts /\ mdFile' \in MdTexts
    BY <1>6, TextTypes, PutTypes DEF MdWrite
  <2> QED
    BY <1>6, <2>1 DEF MdWrite, MdTypeOK, MdGo, MdPlaces, MdTexts
<1>7. ASSUME NEW a \in MdAdapters, MdWriteFails(a) PROVE MdTypeOK'
  <2>1. mdUsed' \in [ops : 0..MaxMdOps, faults : 0..MaxMdFaults, kills : 0..MaxMdKills]
    BY <1>7, MdCountTypes DEF MdWriteFails
  <2>2. mdTmp' \in MdTexts /\ mdFile' \in MdTexts
    BY <1>7, TextTypes, PutTypes DEF MdWriteFails, PutCut, mdDisk, MdTypeOK, MdTexts
  <2> QED
    BY <1>7, <2>1, <2>2, MdFailTypes DEF MdWriteFails, MdTypeOK, MdTexts
<1>8. ASSUME NEW a \in MdAdapters, MdRename(a) PROVE MdTypeOK'
  <2>1. Moved \in [MdAdapters -> {"tmp", "file", "gone"}]
    BY DEF Moved
  <2>2. CASE Renamed /\ MdGo(a, "return") /\ UNCHANGED <<mdDoing, mdNext>>
    BY <1>8, <2>1, <2>2 DEF MdRename, Renamed, MdTypeOK, MdGo, MdPlaces
  <2>3. CASE MdGo(a, "remove") /\ UNCHANGED <<mdDisk, mdWrites, mdDoing, mdNext>>
    BY <1>8, <2>3 DEF MdRename, MdTypeOK, MdGo, MdPlaces, mdDisk
  <2>4. CASE MdFail(a) /\ UNCHANGED mdDisk
    BY <1>8, <2>4, MdFailTypes DEF MdRename, MdTypeOK, mdDisk
  <2> QED
    BY <1>8, <2>2, <2>3, <2>4 DEF MdRename
<1>9. ASSUME NEW a \in MdAdapters, MdRenameFails(a) PROVE MdTypeOK'
  <2>1. mdUsed' \in [ops : 0..MaxMdOps, faults : 0..MaxMdFaults, kills : 0..MaxMdKills]
    BY <1>9, MdCountTypes DEF MdRenameFails
  <2>2. Without("tmp") \in [MdAdapters -> {"tmp", "file", "gone"}]
    BY DEF Without, MdTypeOK
  <2> QED
    BY <1>1, <1>9, <2>1, <2>2 DEF MdRenameFails, MdTypeOK, MdGo, MdPlaces
<1>10. ASSUME NEW a \in MdAdapters, MdRemove(a) PROVE MdTypeOK'
  <2>1. Without("file") \in [MdAdapters -> {"tmp", "file", "gone"}]
    BY DEF Without, MdTypeOK
  <2>2. mdUsed' \in [ops : 0..MaxMdOps, faults : 0..MaxMdFaults, kills : 0..MaxMdKills]
    BY <1>10, MdCountTypes DEF MdRemove, MdTypeOK
  <2>3. CASE mdFile' = NoFile /\ mdWrites' = Without("file") /\ MdGo(a, "rename2") /\ UNCHANGED <<mdDoing, mdNext>>
    BY <1>10, <2>1, <2>2, <2>3 DEF MdRemove, MdTypeOK, MdGo, MdPlaces
  <2>4. CASE MdFail(a) /\ UNCHANGED mdFile
    BY <1>10, <2>2, <2>4, MdFailTypes DEF MdRemove, MdTypeOK
  <2> QED
    BY <1>10, <2>3, <2>4 DEF MdRemove
<1>11. ASSUME NEW a \in MdAdapters, MdRenameAgain(a) PROVE MdTypeOK'
  <2>1. Moved \in [MdAdapters -> {"tmp", "file", "gone"}]
    BY DEF Moved
  <2>2. mdUsed' \in [ops : 0..MaxMdOps, faults : 0..MaxMdFaults, kills : 0..MaxMdKills]
    BY <1>11, MdCountTypes DEF MdRenameAgain, MdTypeOK
  <2>3. CASE Renamed /\ MdGo(a, "return") /\ UNCHANGED <<mdDoing, mdNext>>
    BY <1>11, <2>1, <2>2, <2>3 DEF MdRenameAgain, Renamed, MdTypeOK, MdGo, MdPlaces
  <2>4. CASE MdFail(a) /\ UNCHANGED mdDisk
    BY <1>11, <2>2, <2>4, MdFailTypes DEF MdRenameAgain, MdTypeOK, mdDisk
  <2> QED
    BY <1>11, <2>3, <2>4 DEF MdRenameAgain
<1>12. ASSUME NEW a \in MdAdapters, MdReturn(a) PROVE MdTypeOK'
  <2>1. mdNext[a].map \in Maps /\ mdNext[a].index \in Indexes
    BY DEF MdTypeOK
  <2> QED
    BY <1>1, <1>12, <2>1, AckedByTypes DEF MdReturn, MdTypeOK, MdGo, MdPlaces, mdDisk
<1>13. ASSUME NEW a \in MdAdapters, MdClose(a) PROVE MdTypeOK'
  BY <1>1, <1>13 DEF MdClose, MdGone, MdTypeOK, MdGo, MdPlaces, mdDisk
<1>14. ASSUME NEW a \in MdAdapters, MdKill(a) PROVE MdTypeOK'
  <2>1. mdUsed' \in [ops : 0..MaxMdOps, faults : 0..MaxMdFaults, kills : 0..MaxMdKills]
    BY <1>14, MdCountTypes DEF MdKill
  <2>2. mdTmp' \in MdTexts /\ mdFile' \in MdTexts
    BY <1>14, TextTypes, PutTypes DEF MdKill, PutCut, mdDisk, MdTypeOK, MdTexts
  <2>3. mdAcked' \in Maps
    BY <1>14, AckedByTypes DEF MdKill, MdTypeOK
  <2> QED
    BY <1>1, <1>14, <2>1, <2>2, <2>3 DEF MdKill, MdGone, MdTypeOK, MdGo, MdPlaces, MdTexts
<1>15. CASE UNCHANGED mdVars
  BY <1>15 DEF mdVars, mdDisk, MdTypeOK
<1> QED
  BY <1>2, <1>3, <1>4, <1>5, <1>6, <1>7, <1>8, <1>9, <1>10, <1>11, <1>12, <1>13, <1>14, <1>15
  DEF MdNext

-----------------------------------------------------------------------------
\* An operation that is given up leaves nothing prepared.
LEMMA NoCopyAgrees == NoCopy.index = FromRecords(NoCopy.map)
BY NothingIsIndexed DEF NoCopy, Copy

\* Every step that changes a prepared copy prepares one whose index agrees.
LEMMA PreparedAgrees ==
  ASSUME MdTypeOK, MdAgree, [MdNext]_mdVars, NEW b \in MdAdapters
  PROVE  (mdNext[b].index = FromRecords(mdNext[b].map))'
<1>0. /\ mdNext[b].index = FromRecords(mdNext[b].map)
      /\ mdNext \in [MdAdapters -> [map : Maps, index : Indexes]]
  BY DEF MdAgree, MdTypeOK
<1>1. ASSUME NEW a \in MdAdapters, NEW m, mdNext' = [mdNext EXCEPT ![a] = Copy(m, FromRecords(m))]
      PROVE  mdNext'[b].index = FromRecords(mdNext'[b].map)
  BY <1>0, <1>1 DEF Copy
<1>2. ASSUME NEW a \in MdAdapters, mdNext' = [mdNext EXCEPT ![a] = NoCopy]
      PROVE  mdNext'[b].index = FromRecords(mdNext'[b].map)
  BY <1>0, <1>2, NoCopyAgrees
<1>3. ASSUME UNCHANGED mdNext
      PROVE  mdNext'[b].index = FromRecords(mdNext'[b].map)
  BY <1>0, <1>3
<1>4. ASSUME NEW a \in MdAdapters, MdOpen(a)
      PROVE  mdNext'[b].index = FromRecords(mdNext'[b].map)
  BY <1>1, <1>3, <1>4 DEF MdOpen
<1>5. ASSUME NEW a \in MdAdapters, MdStore(a)
      PROVE  mdNext'[b].index = FromRecords(mdNext'[b].map)
  <2>1. PICK k \in Keys, v \in Values :
          \/ UNCHANGED mdNext
          \/ mdNext' = [mdNext EXCEPT ![a] = Copy([mdRecords[a] EXCEPT ![k] = v],
                                                   UpsertRecord(mdIndex[a], k, v))]
    BY <1>5 DEF MdStore
  <2>2. UpsertRecord(mdIndex[a], k, v) = FromRecords([mdRecords[a] EXCEPT ![k] = v])
    BY UpsertRecordAgrees DEF MdTypeOK, MdAgree
  <2> QED
    BY <1>1, <1>3, <2>1, <2>2
<1>6. ASSUME NEW a \in MdAdapters, MdDelete(a)
      PROVE  mdNext'[b].index = FromRecords(mdNext'[b].map)
  <2>1. PICK k \in Keys :
          \/ UNCHANGED mdNext
          \/ mdNext' = [mdNext EXCEPT ![a] = Copy([mdRecords[a] EXCEPT ![k] = NoValue],
                                                   RemoveKey(mdIndex[a], k))]
    BY <1>6 DEF MdDelete
  <2>2. RemoveKey(mdIndex[a], k) = FromRecords([mdRecords[a] EXCEPT ![k] = NoValue])
    BY RemoveKeyAgrees DEF MdTypeOK, MdAgree
  <2> QED
    BY <1>1, <1>3, <2>1, <2>2
<1>7. ASSUME NEW a \in MdAdapters,
             \/ MdWriteFails(a) \/ MdRename(a) \/ MdRenameFails(a) \/ MdRemove(a)
             \/ MdRenameAgain(a) \/ MdReturn(a) \/ MdKill(a)
      PROVE  mdNext'[b].index = FromRecords(mdNext'[b].map)
  <2>1. mdNext' = [mdNext EXCEPT ![a] = NoCopy] \/ UNCHANGED mdNext
    BY <1>7 DEF MdWriteFails, MdRename, MdRenameFails, MdRemove, MdRenameAgain, MdReturn, MdKill,
                MdFail
  <2> QED
    BY <1>2, <1>3, <2>1
<1>8. ASSUME NEW a \in MdAdapters, MdTruncate(a) \/ MdWrite(a) \/ MdClose(a)
      PROVE  mdNext'[b].index = FromRecords(mdNext'[b].map)
  BY <1>3, <1>8 DEF MdTruncate, MdWrite, MdClose
<1>9. CASE UNCHANGED mdVars
  BY <1>3, <1>9 DEF mdVars
<1> QED
  BY <1>4, <1>5, <1>6, <1>7, <1>8, <1>9 DEF MdNext

\* Records and index are replaced together.
LEMMA KeptCopyAgrees ==
  ASSUME MdTypeOK, MdAgree, [MdNext]_mdVars, NEW b \in MdAdapters
  PROVE  (mdIndex[b] = FromRecords(mdRecords[b]))'
<1>0. /\ mdIndex[b] = FromRecords(mdRecords[b])
      /\ mdNext[b].index = FromRecords(mdNext[b].map)
      /\ mdIndex \in [MdAdapters -> Indexes] /\ mdRecords \in [MdAdapters -> Maps]
  BY DEF MdAgree, MdTypeOK
<1>1. ASSUME UNCHANGED <<mdRecords, mdIndex>>
      PROVE  mdIndex'[b] = FromRecords(mdRecords'[b])
  BY <1>0, <1>1
<1>2. ASSUME NEW a \in MdAdapters, MdClose(a) \/ MdKill(a)
      PROVE  mdIndex'[b] = FromRecords(mdRecords'[b])
  BY <1>0, <1>2, NothingIsIndexed DEF MdClose, MdKill, MdGone
<1>3. ASSUME NEW a \in MdAdapters, MdReturn(a)
      PROVE  mdIndex'[b] = FromRecords(mdRecords'[b])
  BY <1>0, <1>3 DEF MdReturn
<1>4. ASSUME NEW a \in MdAdapters,
             \/ MdOpen(a) \/ MdStore(a) \/ MdDelete(a) \/ MdTruncate(a) \/ MdWrite(a)
             \/ MdWriteFails(a) \/ MdRename(a) \/ MdRenameFails(a) \/ MdRemove(a)
             \/ MdRenameAgain(a)
      PROVE  mdIndex'[b] = FromRecords(mdRecords'[b])
  BY <1>1, <1>4 DEF MdOpen, MdStore, MdDelete, MdTruncate, MdWrite, MdWriteFails, MdRename,
                    MdRenameFails, MdRemove, MdRenameAgain
<1>5. CASE UNCHANGED mdVars
  BY <1>1, <1>5 DEF mdVars
<1> QED
  BY <1>2, <1>3, <1>4, <1>5 DEF MdNext

LEMMA MdAgreeStep == ASSUME MdTypeOK, MdAgree, [MdNext]_mdVars PROVE MdAgree'
BY PreparedAgrees, KeptCopyAgrees DEF MdAgree

-----------------------------------------------------------------------------
(* One process at a time: what MdSafe says when all but a are closed.      *)
SafeFor(a) ==
    /\ \A b \in MdAdapters \ {a} : mdAt[b] = "closed" /\ mdWrites[b] = "gone"
    /\ mdAt[a] \notin {"remove", "rename2"}
    /\ mdWrites[a] = (IF mdAt[a] = "write" THEN "tmp" ELSE "gone")
    /\ mdAt[a] = "write" => mdTmp = EmptyMap
    /\ mdAt[a] = "rename" => mdTmp = mdNext[a].map
    /\ mdAt[a] = "return" => mdFile = mdNext[a].map
    /\ mdAt[a] = "idle" => mdRecords[a] = mdFile
    /\ mdAt[a] \in {"truncate", "write", "rename"} =>
         /\ mdDoing[a].kind = "open" \/ mdRecords[a] = mdFile
         /\ mdNext[a].map = AckedBy(mdDoing[a])
    /\ mdFile # Unreadable
    /\ Loaded = IF mdAt[a] = "return" THEN AckedBy(mdDoing[a]) ELSE mdAcked

LEMMA SafeForOne ==
  ASSUME OneOpen, WholeText, Copied, Recovered, NEW a \in MdAdapters,
         \A b \in MdAdapters \ {a} : mdAt[b] = "closed"
  PROVE  SafeFor(a)
<1>1. CASE mdAt[a] = "return"
  BY <1>1 DEF OneOpen, WholeText, Copied, Recovered, SafeFor
<1>2. CASE mdAt[a] # "return"
  BY <1>2 DEF OneOpen, WholeText, Copied, Recovered, SafeFor
<1> QED
  BY <1>1, <1>2

LEMMA SafeForAll ==
  ASSUME NEW a \in MdAdapters, SafeFor(a)'
  PROVE  (OneOpen /\ WholeText /\ Copied /\ Recovered)'
<1>1. (OneOpen /\ WholeText)'
  BY DEF OneOpen, WholeText, SafeFor
<1>2. Copied'
  BY DEF Copied, SafeFor
<1>3. Recovered'
  BY DEF Recovered, SafeFor
<1> QED
  BY <1>1, <1>2, <1>3

\* What is acknowledged with an open, and with a change to one key.
LEMMA AckedByOpen ==
  ASSUME mdAcked \in Maps
  PROVE  AckedBy(Op("open", {}, NoValue)) = mdAcked
BY DEF AckedBy, Op, Maps

LEMMA AckedByChange ==
  ASSUME mdAcked \in Maps, NEW kind, NEW k \in Keys, NEW v
  PROVE  AckedBy(Op(kind, {k}, v)) = [mdAcked EXCEPT ![k] = v]
BY DEF AckedBy, Op, Maps

\* A step that gives an operation up.
LEMMA GivenUpIsSafe ==
  ASSUME MdTypeOK, NEW a \in MdAdapters, SafeFor(a), mdAt[a] \in {"truncate", "write", "rename"},
         MdGo(a, IF mdDoing[a].kind = "open" THEN "closed" ELSE "idle"),
         UNCHANGED <<mdFile, mdRecords, mdAcked>>,
         \A b \in MdAdapters : mdWrites'[b] = "gone"
  PROVE  SafeFor(a)'
<1>1. \A b \in MdAdapters \ {a} : mdAt'[b] = "closed"
  BY DEF SafeFor, MdTypeOK, MdGo
<1>2. CASE mdDoing[a].kind = "open"
  <2>1. mdAt'[a] = "closed"
    BY <1>2 DEF MdTypeOK, MdGo
  <2> QED
    BY <1>1, <2>1 DEF SafeFor, Loaded
<1>3. CASE mdDoing[a].kind # "open"
  <2>1. mdAt'[a] = "idle" /\ mdRecords[a] = mdFile
    BY <1>3 DEF MdTypeOK, MdGo, SafeFor
  <2> QED
    BY <1>1, <2>1 DEF SafeFor, Loaded
<1> QED
  BY <1>2, <1>3

LEMMA MdSafeStep == ASSUME MdTypeOK, MdSafe, [MdNext]_mdVars PROVE MdSafe'
<1> SUFFICES ASSUME mdReplaces', ~mdShared'
             PROVE  (OneOpen /\ WholeText /\ Copied /\ Recovered)'
  BY DEF MdSafe
<1>1. mdReplaces /\ ~mdShared
  <2>1. CASE \E a \in MdAdapters : MdOpen(a)
    BY <2>1 DEF MdOpen
  <2>2. CASE ~\E a \in MdAdapters : MdOpen(a)
    <3>1. UNCHANGED <<mdReplaces, mdShared>>
      BY <2>2, Zenon DEF MdNext, mdVars, MdStore, MdDelete, MdClose, MdKill, MdTruncate, MdWrite,
               MdWriteFails, MdRename, MdRenameFails, MdRemove, MdRenameAgain, MdReturn
    <3> QED
      BY <3>1
  <2> QED
    BY <2>1, <2>2
<1>2. OneOpen /\ WholeText /\ Copied /\ Recovered
  BY <1>1 DEF MdSafe
<1>3. ASSUME NEW a \in MdAdapters, mdAt[a] # "closed"
      PROVE  SafeFor(a)
  BY <1>2, <1>3, SafeForOne DEF OneOpen
<1>4. EmptyMap \in Maps /\ EmptyMap # Unreadable
  BY NothingIsIndexed, MdAssumption
<1>5. ASSUME NEW a \in MdAdapters, MdOpen(a) PROVE SafeFor(a)'
  <2>1. Loaded # Unreadable
    BY <1>2, <1>4 DEF Recovered, Loaded
  <2>2. /\ mdAt[a] = "closed" /\ ~OthersOpen(a)
        /\ mdAt' = [mdAt EXCEPT ![a] = "truncate"]
        /\ mdDoing' = [mdDoing EXCEPT ![a] = Op("open", {}, NoValue)]
        /\ mdNext' = [mdNext EXCEPT ![a] = Copy(Loaded, FromRecords(Loaded))]
        /\ UNCHANGED <<mdFile, mdTmp, mdRecords, mdIndex, mdWrites, mdAcked>>
    BY <1>5, <2>1 DEF MdOpen, MdGo, mdDisk
  <2>3. SafeFor(a)
    BY <1>2, <2>2, SafeForOne DEF OthersOpen
  <2>4. /\ mdAt'[a] = "truncate" /\ \A b \in MdAdapters \ {a} : mdAt'[b] = mdAt[b]
        /\ mdDoing'[a] = Op("open", {}, NoValue) /\ mdNext'[a].map = Loaded
    BY <2>2 DEF MdTypeOK, Copy
  <2>5. AckedBy(mdDoing'[a]) = mdAcked /\ mdDoing'[a].kind = "open"
    <3>1. AckedBy(Op("open", {}, NoValue)) = mdAcked
      BY AckedByOpen DEF MdTypeOK
    <3>2. Op("open", {}, NoValue).kind = "open"
      BY DEF Op
    <3> QED
      BY <2>4, <3>1, <3>2
  <2> QED
    BY <2>2, <2>3, <2>4, <2>5 DEF SafeFor, AckedBy, Loaded
<1>6. ASSUME NEW a \in MdAdapters, mdAt[a] = "idle", NEW kind, NEW k \in Keys, NEW v,
             \/ /\ mdRecords[a][k] = v
                /\ mdAcked' = [mdAcked EXCEPT ![k] = v]
                /\ UNCHANGED <<mdAt, mdDoing, mdNext>>
             \/ /\ MdGo(a, "truncate")
                /\ mdDoing' = [mdDoing EXCEPT ![a] = Op(kind, {k}, v)]
                /\ \E i : mdNext' = [mdNext EXCEPT ![a] = Copy([mdRecords[a] EXCEPT ![k] = v], i)]
                /\ UNCHANGED mdAcked,
             UNCHANGED <<mdDisk, mdRecords, mdIndex, mdWrites>>
      PROVE  SafeFor(a)'
  <2>1. SafeFor(a) /\ mdRecords[a] = mdFile /\ mdRecords[a] \in Maps /\ mdAcked \in Maps
    BY <1>3, <1>6 DEF SafeFor, MdTypeOK
  <2>2. mdRecords[a] = mdAcked
    BY <1>6, <2>1, MdAssumption DEF SafeFor, Loaded
  <2>3. CASE UNCHANGED <<mdAt, mdDoing, mdNext>> /\ mdRecords[a][k] = v
             /\ mdAcked' = [mdAcked EXCEPT ![k] = v]
    <3>1. mdAcked' = mdAcked
      BY <2>1, <2>2, <2>3 DEF Maps
    <3> QED
      BY <1>6, <2>1, <2>3, <3>1 DEF SafeFor, mdDisk, Loaded, AckedBy
  <2>4. CASE /\ MdGo(a, "truncate")
             /\ mdDoing' = [mdDoing EXCEPT ![a] = Op(kind, {k}, v)]
             /\ \E i : mdNext' = [mdNext EXCEPT ![a] = Copy([mdRecords[a] EXCEPT ![k] = v], i)]
             /\ UNCHANGED mdAcked
    <3>1. /\ mdAt'[a] = "truncate" /\ \A b \in MdAdapters \ {a} : mdAt'[b] = mdAt[b]
          /\ mdDoing'[a] = Op(kind, {k}, v)
          /\ mdNext'[a].map = [mdRecords[a] EXCEPT ![k] = v]
      BY <2>4 DEF MdTypeOK, MdGo, Copy
    <3>2. AckedBy(mdDoing'[a]) = mdNext'[a].map
      BY <2>1, <2>2, <3>1, AckedByChange
    <3>3. AckedBy(mdDoing[a])' = mdNext'[a].map
      BY <2>4, <3>2 DEF AckedBy
    <3> QED
      BY <1>6, <2>1, <2>4, <3>1, <3>3 DEF SafeFor, mdDisk, Loaded
  <2> QED
    BY <1>6, <2>3, <2>4
<1>7. ASSUME NEW a \in MdAdapters, MdStore(a) PROVE SafeFor(a)'
  <2>1. PICK k \in Keys, v \in Values :
         IF mdRecords[a][k] = v
           THEN /\ mdAcked' = [mdAcked EXCEPT ![k] = v]
                /\ UNCHANGED <<mdAt, mdDoing, mdNext>>
           ELSE /\ MdGo(a, "truncate")
                /\ mdDoing' = [mdDoing EXCEPT ![a] = Op("store", {k}, v)]
                /\ mdNext' = [mdNext EXCEPT ![a] = Copy([mdRecords[a] EXCEPT ![k] = v],
                                                        UpsertRecord(mdIndex[a], k, v))]
                /\ UNCHANGED mdAcked
    BY <1>7 DEF MdStore
  <2>2. mdAt[a] = "idle" /\ UNCHANGED <<mdDisk, mdRecords, mdIndex, mdWrites>>
    BY <1>7 DEF MdStore
  <2> QED
    BY <1>6, <2>1, <2>2
<1>8. ASSUME NEW a \in MdAdapters, MdDelete(a) PROVE SafeFor(a)'
  <2>1. PICK k \in Keys :
         IF mdRecords[a][k] = NoValue
           THEN /\ mdAcked' = [mdAcked EXCEPT ![k] = NoValue]
                /\ UNCHANGED <<mdAt, mdDoing, mdNext>>
           ELSE /\ MdGo(a, "truncate")
                /\ mdDoing' = [mdDoing EXCEPT ![a] = Op("delete", {k}, NoValue)]
                /\ mdNext' = [mdNext EXCEPT ![a] = Copy([mdRecords[a] EXCEPT ![k] = NoValue],
                                                        RemoveKey(mdIndex[a], k))]
                /\ UNCHANGED mdAcked
    BY <1>8 DEF MdDelete
  <2>2. mdAt[a] = "idle" /\ UNCHANGED <<mdDisk, mdRecords, mdIndex, mdWrites>>
    BY <1>8 DEF MdDelete
  <2> QED
    BY <1>6, <2>1, <2>2
<1>9. ASSUME NEW a \in MdAdapters, MdTruncate(a) PROVE SafeFor(a)'
  <2>1. SafeFor(a)
    BY <1>3, <1>9 DEF MdTruncate
  <2>2. /\ mdAt[a] = "truncate" /\ mdAt'[a] = "write" /\ mdWrites'[a] = "tmp" /\ mdTmp' = EmptyMap
        /\ \A b \in MdAdapters \ {a} : mdAt'[b] = mdAt[b] /\ mdWrites'[b] = mdWrites[b]
        /\ UNCHANGED <<mdFile, mdDoing, mdRecords, mdNext, mdAcked>>
    BY <1>9 DEF MdTruncate, MdGo, MdTypeOK
  <2> QED
    BY <2>1, <2>2 DEF SafeFor, Loaded, AckedBy
<1>10. ASSUME NEW a \in MdAdapters, MdWrite(a) PROVE SafeFor(a)'
  <2>1. SafeFor(a) /\ mdAt[a] = "write" /\ mdNext[a].map \in Maps
    BY <1>3, <1>10 DEF MdWrite, MdTypeOK
  <2>2. mdFile' = mdFile /\ mdTmp' \in TextOver(EmptyMap, mdNext[a].map)
    BY <1>10, <2>1 DEF MdWrite, Put, SafeFor
  <2>3. mdTmp' = mdNext[a].map
    BY <2>1, <2>2, TextOverNothing
  <2>4. /\ mdAt'[a] = "rename" /\ mdWrites'[a] = "gone"
        /\ \A b \in MdAdapters \ {a} : mdAt'[b] = mdAt[b] /\ mdWrites'[b] = mdWrites[b]
        /\ UNCHANGED <<mdDoing, mdRecords, mdNext, mdAcked>>
    BY <1>10 DEF MdWrite, MdGo, MdTypeOK
  <2> QED
    BY <2>1, <2>2, <2>3, <2>4 DEF SafeFor, Loaded, AckedBy
<1>11. ASSUME NEW a \in MdAdapters, MdWriteFails(a) PROVE SafeFor(a)'
  <2>1. SafeFor(a) /\ mdAt[a] \in {"truncate", "write"}
    BY <1>3, <1>11 DEF MdWriteFails
  <2>2. mdFile' = mdFile
    BY <1>11, <2>1 DEF MdWriteFails, PutCut, Put, SafeFor, mdDisk
  <2>3. \A b \in MdAdapters : mdWrites'[b] = "gone"
    BY <1>11, <2>1 DEF MdWriteFails, MdFail, SafeFor, MdTypeOK
  <2> QED
    BY <1>11, <2>1, <2>2, <2>3, GivenUpIsSafe DEF MdWriteFails, MdFail
<1>12. ASSUME NEW a \in MdAdapters, MdRename(a) PROVE SafeFor(a)'
  <2>1. SafeFor(a) /\ mdAt[a] = "rename" /\ mdNext[a].map \in Maps /\ mdTmp = mdNext[a].map
    BY <1>3, <1>12 DEF MdRename, SafeFor, MdTypeOK
  <2>2. mdTmp # NoFile /\ mdTmp # Unreadable
    BY <2>1, MdAssumption
  <2>3. /\ Renamed /\ MdGo(a, "return")
        /\ UNCHANGED <<mdDoing, mdNext, mdRecords, mdAcked>>
    BY <1>1, <1>12, <2>2 DEF MdRename
  <2>4. \A b \in MdAdapters : mdWrites'[b] = "gone"
    BY <2>1, <2>3 DEF Renamed, Moved, SafeFor
  <2>5. /\ mdAt'[a] = "return" /\ \A b \in MdAdapters \ {a} : mdAt'[b] = mdAt[b]
        /\ mdFile' = mdNext[a].map /\ mdFile' # NoFile
    BY <2>1, <2>2, <2>3 DEF MdGo, MdTypeOK, Renamed
  <2> QED
    BY <2>1, <2>2, <2>3, <2>4, <2>5 DEF SafeFor, Loaded, AckedBy
<1>13. ASSUME NEW a \in MdAdapters, MdRenameFails(a) PROVE SafeFor(a)'
  <2>1. SafeFor(a) /\ mdAt[a] = "rename"
    BY <1>3, <1>13 DEF MdRenameFails
  <2>2. \A b \in MdAdapters : mdWrites'[b] = "gone"
    BY <1>13, <2>1 DEF MdRenameFails, Without, SafeFor
  <2> QED
    BY <1>13, <2>1, <2>2, GivenUpIsSafe DEF MdRenameFails
<1>14. ASSUME NEW a \in MdAdapters, MdRemove(a) \/ MdRenameAgain(a) PROVE FALSE
  BY <1>2, <1>14 DEF MdRemove, MdRenameAgain, OneOpen
<1>15. ASSUME NEW a \in MdAdapters, MdReturn(a) PROVE SafeFor(a)'
  <2>1. SafeFor(a) /\ mdAt[a] = "return"
    BY <1>3, <1>15 DEF MdReturn
  <2>2. /\ mdAt'[a] = "idle" /\ mdRecords'[a] = mdNext[a].map
        /\ \A b \in MdAdapters \ {a} : mdAt'[b] = mdAt[b]
        /\ mdAcked' = AckedBy(mdDoing[a])
        /\ UNCHANGED <<mdFile, mdWrites>>
    BY <1>15 DEF MdReturn, MdGo, MdTypeOK, mdDisk
  <2> QED
    BY <2>1, <2>2 DEF SafeFor, Loaded
<1>16. ASSUME NEW a \in MdAdapters, MdClose(a) PROVE SafeFor(a)'
  <2>1. SafeFor(a) /\ mdAt[a] = "idle"
    BY <1>3, <1>16 DEF MdClose
  <2>2. /\ mdAt'[a] = "closed" /\ \A b \in MdAdapters \ {a} : mdAt'[b] = mdAt[b]
        /\ UNCHANGED <<mdFile, mdWrites, mdAcked>>
    BY <1>16 DEF MdClose, MdGone, MdGo, MdTypeOK, mdDisk
  <2> QED
    BY <2>1, <2>2 DEF SafeFor, Loaded
<1>17. ASSUME NEW a \in MdAdapters, MdKill(a) PROVE SafeFor(a)'
  <2>1. SafeFor(a)
    BY <1>3, <1>17 DEF MdKill
  <2>2. mdFile' = mdFile
    BY <1>17, <2>1 DEF MdKill, PutCut, Put, SafeFor, mdDisk
  <2>3. /\ mdAt'[a] = "closed" /\ mdWrites'[a] = "gone"
        /\ \A b \in MdAdapters \ {a} : mdAt'[b] = mdAt[b] /\ mdWrites'[b] = mdWrites[b]
        /\ mdAcked' = IF mdAt[a] = "return" THEN AckedBy(mdDoing[a]) ELSE mdAcked
    BY <1>17 DEF MdKill, MdGone, MdGo, MdTypeOK
  <2> QED
    BY <2>1, <2>2, <2>3 DEF SafeFor, Loaded
<1>18. CASE UNCHANGED mdVars
  BY <1>2, <1>18 DEF mdVars, mdDisk, OneOpen, WholeText, Copied, Recovered, Loaded, AckedBy
<1> QED
  BY <1>5, <1>7, <1>8, <1>9, <1>10, <1>11, <1>12, <1>13, <1>14, <1>15, <1>16, <1>17, <1>18,
     SafeForAll DEF MdNext

-----------------------------------------------------------------------------
MdInv == MdTypeOK /\ MdAgree /\ MdSafe

LEMMA MdInitHolds == ASSUME MdInit PROVE MdInv
<1>1. EmptyMap \in Maps /\ FromRecords(EmptyMap) = EmptyIndex /\ EmptyIndex \in Indexes
  BY NothingIsIndexed, TermsTypes
<1>2. NoOp \in Ops /\ NoCopy \in [map : Maps, index : Indexes]
  BY <1>1 DEF NoOp, Op, Ops, NoCopy, Copy
<1>3. [ops |-> 0, faults |-> 0, kills |-> 0]
        \in [ops : 0..MaxMdOps, faults : 0..MaxMdFaults, kills : 0..MaxMdKills]
  BY MdAssumption
<1>4. MdTypeOK
  BY <1>1, <1>2, <1>3, MdAssumption DEF MdInit, MdTypeOK, MdPlaces
<1>5. MdAgree
  BY <1>1, NoCopyAgrees DEF MdInit, MdAgree
<1>6. MdSafe
  BY MdAssumption DEF MdInit, MdSafe, OneOpen, WholeText, Copied, Recovered, Loaded
<1> QED
  BY <1>4, <1>5, <1>6 DEF MdInv

LEMMA MdInvStep == MdInv /\ [MdNext]_mdVars => MdInv'
BY MdTypeStep, MdAgreeStep, MdSafeStep DEF MdInv

LEMMA MdInvariant == MdSpec => []MdInv
BY MdInitHolds, MdInvStep, PTL DEF MdSpec

\* The Markdown memory keeps its types, for every number of processes, keys, faults
\* and kills, also when they share memory.tmp.
THEOREM MdTypesHold == MdSpec => []MdTypeOK
BY MdInvariant, PTL DEF MdInv

\* memory_markdown.rs:40-78: in every process, after any stores, deletes, failed
\* writes and reloads, a recall finds exactly the records with every term of the query.
THEOREM MdRecallFindsWhatIsStoredHolds == MdSpec => []MdRecallFindsWhatIsStored
<1>1. MdInv => MdRecallFindsWhatIsStored
  <2> SUFFICES ASSUME MdInv, NEW a \in MdAdapters, NEW query \in SUBSET Terms
               PROVE  MdRecall(a, query) = Found(mdRecords[a], query)
    BY DEF MdRecallFindsWhatIsStored
  <2>1. mdRecords[a] \in Maps /\ mdIndex[a] = FromRecords(mdRecords[a])
    BY DEF MdInv, MdTypeOK, MdAgree
  <2> QED
    BY <2>1, AgreeingIndexFinds DEF MdRecall
<1> QED
  BY <1>1, MdInvariant, PTL

\* memory_markdown.rs:150-163: where rename replaces, whatever writes failed and
\* wherever processes were killed, the next open finds every change that returned
\* Ok, unless two processes had the memory open at a time.
THEOREM MdAckedChangesSurviveHolds == MdSpec => []MdAckedChangesSurvive
<1>1. MdInv => MdAckedChangesSurvive
  <2> SUFFICES ASSUME MdInv, mdReplaces, ~mdShared
               PROVE  /\ Loaded # Unreadable
                      /\ \A k \in Keys :
                           \/ Loaded[k] = mdAcked[k]
                           \/ \E a \in MdAdapters : /\ mdAt[a] = "return" /\ k \in mdDoing[a].keys
                                                     /\ Loaded[k] = mdDoing[a].value
    BY DEF MdAckedChangesSurvive
  <2>1. Recovered
    BY DEF MdInv, MdSafe
  <2>2. Loaded # Unreadable
    BY <2>1, NothingIsIndexed, MdAssumption DEF Recovered, Loaded
  <2>3. ASSUME NEW k \in Keys
        PROVE  \/ Loaded[k] = mdAcked[k]
               \/ \E a \in MdAdapters : /\ mdAt[a] = "return" /\ k \in mdDoing[a].keys
                                         /\ Loaded[k] = mdDoing[a].value
    <3>1. CASE \A a \in MdAdapters : mdAt[a] # "return"
      BY <2>1, <3>1 DEF Recovered
    <3>2. ASSUME NEW a \in MdAdapters, mdAt[a] = "return"
          PROVE  \/ Loaded[k] = mdAcked[k]
                 \/ mdAt[a] = "return" /\ k \in mdDoing[a].keys /\ Loaded[k] = mdDoing[a].value
      BY <2>1, <3>2 DEF Recovered, AckedBy
    <3> QED
      BY <3>1, <3>2
  <2> QED
    BY <2>2, <2>3
<1> QED
  BY <1>1, MdInvariant, PTL

-----------------------------------------------------------------------------
(* The tool's files and their undo.                                        *)

\* The paths UndoRestoresFiles speaks of.
Clear(p) == p \notin flTwice \cup flDirty /\ \A a \in flShared : a[1] # FileName[p]

InUndo == flAt \in {"undo", "undone"}
HasEntry(p) == \E i \in DOMAIN flDone : flDone[i].path = p

\* A patch that restores names the restore artifact.
Restorable == \A a \in Artifacts : \A x \in flPatches[a] : x.mode = "restore" => x.from \in Artifacts

\* A restore artifact of p.
Saves(p, r) == r \in Artifacts /\ r[1] = FileName[p] /\ flRestores[r] = flBefore[p]

\* What the run began with, and what the change in progress has saved.
Saving ==
    /\ flBefore \in [Paths -> Contents \cup {Absent}]
    /\ flAt = "save" => flFile[flOp.path] # Absent
    /\ flSaved # NoArtifact => /\ flAt \in {"change", "rename", "patch"}
                               /\ flSaved[1] = FileName[flOp.path]
                               /\ flRestores[flSaved] # Absent
    /\ flAt \in {"change", "rename", "patch"} /\ Clear(flOp.path) /\ ~HasEntry(flOp.path) =>
         IF flSaved = NoArtifact THEN flBefore[flOp.path] = Absent
         ELSE flRestores[flSaved] = flBefore[flOp.path] /\ flBefore[flOp.path] # Absent

\* A path that is in the run's changes twice, and a name that is used twice, is
\* known as such.
TwiceKnown ==
    \A i, j \in DOMAIN flDone : i # j =>
        /\ flDone[i].path = flDone[j].path => flDone[i].path \in flTwice
        /\ flDone[i].patch = flDone[j].patch => flDone[i].patch \in flShared

FromOnce ==
    /\ \A a, b \in Artifacts : a # b =>
         \A x \in flPatches[a], y \in flPatches[b] :
            x.mode = "restore" /\ y.mode = "restore" /\ x.from = y.from => x.from \in flShared
    /\ \A a \in Artifacts : \A x \in flPatches[a] :
         x.mode = "restore" /\ x.from = flSaved => flSaved \in flShared

\* Before the undo every artifact of a change is there.
Standing ==
    ~InUndo =>
      /\ \A i \in DOMAIN flDone : flPatches[flDone[i].patch] # {}
      /\ \A a \in Artifacts : \A x \in flPatches[a] : x.mode = "restore" => flRestores[x.from] # Absent

\* The artifacts of a change say how to undo it.
Undoable(d) ==
    /\ d.patch[1] = FileName[d.path]
    /\ IF d.created
         THEN /\ flPatches[d.patch] = {[mode |-> "delete_created", from |-> NoArtifact]}
              /\ flBefore[d.path] = Absent
         ELSE \E r \in Artifacts :
                /\ flPatches[d.patch] = {[mode |-> "restore", from |-> r]}
                /\ Saves(d.path, r) /\ flBefore[d.path] # Absent

Recorded == \A i \in DOMAIN flDone : Clear(flDone[i].path) => Undoable(flDone[i])

\* A path without a change is as it was.
Untouched ==
    \A p \in Paths :
        Clear(p) /\ ~HasEntry(p) /\ ~(flAt \in {"rename", "patch"} /\ flOp.path = p)
            => flFile[p] = flBefore[p]

\* The undo ends with the last change.
Ended == flAt = "undone" => flDone = <<>>

FlKnown == Restorable /\ Saving /\ TwiceKnown /\ FromOnce /\ Standing /\ Recorded /\ Untouched /\ Ended

FlInv == FlTypeOK /\ FlKnown

-----------------------------------------------------------------------------
Change == [path : Paths, patch : Artifacts, created : BOOLEAN]
OpTypes == [kind : {"none", "overwrite", "append", "remove"}, path : Paths, text : Contents \cup {Absent}]
PatchTypes == [mode : Modes, from : Artifacts \cup {NoArtifact}]

LEMMA NoArtifactIsNone == NoArtifact \notin Artifacts /\ Absent \in Texts /\ Cut \in Texts
BY DEF NoArtifact, Artifacts, Texts

LEMMA NameType ==
  ASSUME FlTypeOK
  PROVE  /\ Name \in Artifacts /\ Name[1] = FileName[flOp.path]
         /\ flOp.path \in Paths
BY FlAssumption DEF FlTypeOK, Name, Artifacts

LEMMA FlReturnTypes ==
  ASSUME FlReturn
  PROVE  flAt' = "idle" /\ flOp' \in OpTypes /\ flSaved' = NoArtifact
<1>1. (CHOOSE p \in Paths : TRUE) \in Paths
  BY FlAssumption
<1> QED
  BY <1>1 DEF FlReturn, FlNoOp, FlOp, OpTypes

LEMMA FlFaultTypes ==
  ASSUME FlTypeOK, FlFault
  PROVE  flUsed' \in [ops : 0..MaxFlOps, faults : 0..MaxFlFaults]
BY FlAssumption DEF FlTypeOK, FlFault

\* How a change begins.
FlBegins ==
    \E p \in Paths, kind \in {"overwrite", "append", "remove"}, text \in Contents \cup {Absent} :
        FlBegin(kind, p, text)

LEMMA ChangesBegin ==
  ASSUME FlWrite \/ FlReplace \/ FlRemove
  PROVE  FlBegins
BY DEF FlWrite, FlReplace, FlRemove, FlBegins

LEMMA FlTypeStep == ASSUME FlTypeOK, Restorable, [FlNext]_flVars PROVE FlTypeOK'
<1>0. /\ Name \in Artifacts /\ flOp.path \in Paths /\ flOp.text \in Texts
      /\ NoArtifact \notin Artifacts /\ Absent \in Texts /\ Cut \in Texts
      /\ flFile[flOp.path] \in Texts
  BY NameType, NoArtifactIsNone DEF FlTypeOK, Texts
<1>1. CASE FlWrite \/ FlReplace \/ FlRemove
  <2>1. PICK p \in Paths, kind \in {"overwrite", "append", "remove"}, text \in Contents \cup {Absent} :
          FlBegin(kind, p, text)
    BY <1>1, ChangesBegin DEF FlBegins
  <2>2. FlOp(kind, p, text) \in OpTypes
    BY DEF FlOp, OpTypes
  <2>3. flUsed' \in [ops : 0..MaxFlOps, faults : 0..MaxFlFaults]
    BY <2>1, FlAssumption DEF FlBegin, FlTypeOK
  <2> QED
    BY <2>1, <2>2, <2>3 DEF FlBegin, FlTypeOK, OpTypes
<1>2. CASE FlSave
  <2>1. flRestores' \in [Artifacts -> Texts] /\ flShared' \subseteq Artifacts
    BY <1>0, <1>2 DEF FlSave, FlTypeOK
  <2>2. CASE flSaved' = Name /\ flAt' = "change" /\ UNCHANGED <<flUsed, flOp>>
    BY <1>0, <1>2, <2>1, <2>2 DEF FlSave, FlTypeOK
  <2>3. CASE FlFault /\ FlReturn
    BY <1>2, <2>1, <2>3, FlFaultTypes, FlReturnTypes DEF FlSave, FlTypeOK, OpTypes
  <2> QED
    BY <1>2, <2>2, <2>3 DEF FlSave
<1>3. CASE FlChange \/ FlRename
  <2>1. flFile' \in [Paths -> Texts]
    BY <1>0, <1>3 DEF FlChange, FlRename, Set, FlTypeOK
  <2> QED
    BY <1>3, <2>1 DEF FlChange, FlRename, FlTypeOK
<1>4. CASE FlChangeFails
  <2>1. flFile' \in [Paths -> Texts]
    BY <1>0, <1>4 DEF FlChangeFails, Set, FlTypeOK
  <2>2. flDirty' \subseteq Paths
    BY <1>0, <1>4 DEF FlChangeFails, Spoil, FlTypeOK
  <2> QED
    BY <1>4, <2>1, <2>2, FlFaultTypes, FlReturnTypes DEF FlChangeFails, FlTypeOK, OpTypes
<1>5. CASE FlPatch
  <2>1. [mode |-> IF flSaved = NoArtifact THEN "delete_created" ELSE "restore", from |-> flSaved]
          \in PatchTypes
    BY DEF FlTypeOK, PatchTypes, Modes
  <2>2. flPatches' \in [Artifacts -> SUBSET PatchTypes]
    BY <1>0, <1>5, <2>1 DEF FlPatch, FlTypeOK, PatchTypes
  <2>3. [path |-> flOp.path, patch |-> Name, created |-> flSaved = NoArtifact] \in Change
    BY <1>0 DEF Change
  <2>4. flDone' \in Seq(Change)
    BY <1>5, <2>3, AppendProperties DEF FlPatch, FlTypeOK, Change
  <2>5. flTwice' \subseteq Paths /\ flShared' \subseteq Artifacts
    BY <1>0, <1>5 DEF FlPatch, FlTypeOK
  <2> QED
    BY <1>5, <2>2, <2>4, <2>5, FlReturnTypes DEF FlPatch, FlTypeOK, OpTypes, PatchTypes, Change
<1>6. CASE FlPatchFails
  <2>1. flDirty' \subseteq Paths
    BY <1>0, <1>6 DEF FlPatchFails, Spoil, FlTypeOK
  <2> QED
    BY <1>6, <2>1, FlFaultTypes, FlReturnTypes DEF FlPatchFails, FlTypeOK, OpTypes
<1>7. CASE FlTick
  <2>1. flNow' \in 0..MaxMillis
    BY <1>7, FlAssumption DEF FlTick, FlTypeOK
  <2> QED
    BY <1>7, <2>1 DEF FlTick, FlTypeOK
<1>8. CASE FlUndo \/ FlEnd
  BY <1>8 DEF FlUndo, FlEnd, FlTypeOK
<1>9. ASSUME flDone # <<>>
      PROVE  /\ Head(flDone) \in Change /\ Tail(flDone) \in Seq(Change)
             /\ flFile[Head(flDone).path] \in Texts
             /\ [flPatches EXCEPT ![Head(flDone).patch] = {}] \in [Artifacts -> SUBSET PatchTypes]
  <2>1. Head(flDone) \in Change /\ Tail(flDone) \in Seq(Change)
    BY <1>9, HeadTailProperties DEF FlTypeOK, Change
  <2> QED
    BY <2>1 DEF FlTypeOK, Change, PatchTypes
<1>10. CASE FlUndoOne
  <2> DEFINE d == Head(flDone)
  <2>1. d \in Change /\ Tail(flDone) \in Seq(Change) /\ flFile[d.path] \in Texts
    BY <1>9, <1>10 DEF FlUndoOne
  <2>2. Undone(d) \in Texts
    <3>2. CASE flPatches[d.patch] = {}
      BY <1>0, <2>1, <3>2 DEF Undone
    <3>3. CASE flPatches[d.patch] # {}
      <4> DEFINE patch == CHOOSE x \in flPatches[d.patch] : TRUE
      <4>1. patch \in flPatches[d.patch] /\ flPatches[d.patch] \subseteq PatchTypes
        BY <2>1, <3>3 DEF FlTypeOK, Change, PatchTypes
      <4>2. patch.mode # "delete_created" => patch.from \in Artifacts
        BY <2>1, <4>1 DEF PatchTypes, Modes, Restorable, Change
      <4>3. patch.mode # "delete_created" => flRestores[patch.from] \in Texts
        BY <4>2 DEF FlTypeOK
      <4>4. Undone(d) = IF patch.mode = "delete_created" THEN Absent
                        ELSE IF flRestores[patch.from] \in {Absent, Cut} THEN flFile[d.path]
                        ELSE flRestores[patch.from]
        BY <3>3 DEF Undone
      <4> HIDE DEF patch
      <4> QED
        BY <1>0, <2>1, <4>3, <4>4
    <3> QED
      BY <3>2, <3>3
  <2>3. flFile' \in [Paths -> Texts]
    BY <1>10, <2>1, <2>2 DEF FlUndoOne, FlTypeOK, Change
  <2>4. flRestores' \in [Artifacts -> Texts]
    BY <1>0, <1>10 DEF FlUndoOne, FlTypeOK
  <2>5. flPatches' \in [Artifacts -> SUBSET PatchTypes]
    BY <1>9, <1>10 DEF FlUndoOne
  <2>6. flDone' \in Seq(Change)
    BY <1>10, <2>1 DEF FlUndoOne
  <2> QED
    BY <1>10, <2>3, <2>4, <2>5, <2>6 DEF FlUndoOne, FlTypeOK, PatchTypes, Change
<1>11. CASE FlUndoFails
  <2>1. flFile' \in [Paths -> Texts] /\ flDirty' \subseteq Paths
    BY <1>0, <1>9, <1>11 DEF FlUndoFails, FlTypeOK, Change
  <2>2. flPatches' \in [Artifacts -> SUBSET PatchTypes] /\ flDone' \in Seq(Change)
    BY <1>9, <1>11 DEF FlUndoFails
  <2> QED
    BY <1>11, <2>1, <2>2, FlFaultTypes DEF FlUndoFails, FlTypeOK, PatchTypes, Change
<1>12. CASE UNCHANGED flVars
  BY <1>12 DEF flVars, FlTypeOK
<1> QED
  BY <1>1, <1>2, <1>3, <1>4, <1>5, <1>6, <1>7, <1>8, <1>10, <1>11, <1>12 DEF FlNext

(* What is no longer clear never becomes clear.                            *)
LEMMA ClearBefore ==
  ASSUME flTwice \subseteq flTwice', flDirty \subseteq flDirty', flShared \subseteq flShared'
  PROVE  \A p : Clear(p)' => Clear(p)
BY DEF Clear

(* A step that changes neither the changes nor their artifacts.            *)
LEMMA ArtifactsStay ==
  ASSUME FlInv, flSaved' = flSaved \/ flSaved' = NoArtifact,
         UNCHANGED <<flRestores, flPatches, flDone, flBefore, flTwice, flShared>>,
         flDirty \subseteq flDirty', InUndo => InUndo'
  PROVE  /\ Restorable' /\ TwiceKnown' /\ FromOnce' /\ Standing' /\ Recorded'
         /\ \A p : (Clear(p)' => Clear(p)) /\ HasEntry(p)' = HasEntry(p)
<1>1. \A p : (Clear(p)' => Clear(p)) /\ HasEntry(p)' = HasEntry(p)
  BY ClearBefore DEF HasEntry
<1>2. Restorable' /\ TwiceKnown'
  BY DEF FlInv, FlKnown, Restorable, TwiceKnown
<1>3. FromOnce'
  BY NoArtifactIsNone DEF FlInv, FlKnown, FromOnce, Restorable
<1>4. Standing'
  BY DEF FlInv, FlKnown, Standing
<1>5. Recorded'
  <2> SUFFICES ASSUME NEW i \in DOMAIN flDone', NEW e, e = flDone'[i], Clear(e.path)'
               PROVE  Undoable(e)'
    BY DEF Recorded
  <2>1. Undoable(e)
    BY <1>1 DEF FlInv, FlKnown, Recorded
  <2> QED
    BY <2>1 DEF Undoable, Saves
<1> QED
  BY <1>1, <1>2, <1>3, <1>4, <1>5

LEMMA BeginKeeps ==
  ASSUME FlInv, NEW p \in Paths, NEW kind, NEW text, FlBegin(kind, p, text)
  PROVE  FlKnown'
<1>1. flSaved = NoArtifact /\ ~InUndo /\ ~InUndo' /\ flOp'.path = p
  BY DEF FlBegin, FlInv, FlKnown, Saving, InUndo, FlOp
<1>2. /\ Restorable' /\ TwiceKnown' /\ FromOnce' /\ Standing' /\ Recorded'
      /\ \A q : (Clear(q)' => Clear(q)) /\ HasEntry(q)' = HasEntry(q)
  BY <1>1, ArtifactsStay DEF FlBegin
<1>3. Untouched'
  BY <1>2 DEF FlBegin, FlInv, FlKnown, Untouched
<1>4. Saving'
  <2>1. Clear(p)' /\ ~HasEntry(p)' => flFile[p] = flBefore[p]
    BY <1>2 DEF FlBegin, FlInv, FlKnown, Untouched
  <2> QED
    BY <1>1, <2>1 DEF FlBegin, FlInv, FlKnown, Saving
<1>5. Ended'
  BY DEF FlBegin, Ended
<1> QED
  BY <1>2, <1>3, <1>4, <1>5 DEF FlKnown

LEMMA ChangeKeeps == ASSUME FlInv, FlChange \/ FlRename PROVE FlKnown'
<1>1. UNCHANGED <<flRestores, flPatches, flDone, flBefore, flTwice, flDirty, flShared, flSaved, flOp>>
      /\ flAt \in {"change", "rename"} /\ flAt' \in {"rename", "patch"}
  BY DEF FlChange, FlRename
<1>2. /\ Restorable' /\ TwiceKnown' /\ FromOnce' /\ Standing' /\ Recorded'
      /\ \A q : (Clear(q)' => Clear(q)) /\ HasEntry(q)' = HasEntry(q)
  BY <1>1, ArtifactsStay DEF InUndo
<1>3. \A p \in Paths : p # flOp.path => flFile'[p] = flFile[p]
  BY DEF FlChange, FlRename, Set, FlInv, FlTypeOK
<1>4. Untouched'
  BY <1>1, <1>2, <1>3 DEF FlInv, FlKnown, Untouched
<1>5. Saving'
  BY <1>1, <1>2 DEF FlInv, FlKnown, Saving
<1> QED
  BY <1>1, <1>2, <1>4, <1>5 DEF FlKnown, Ended

(* A change fails, or its patch artifact does.                             *)
LEMMA FailureKeeps == ASSUME FlInv, FlChangeFails \/ FlPatchFails PROVE FlKnown'
<1>1. UNCHANGED <<flRestores, flPatches, flDone, flBefore, flTwice, flShared>> /\ flDirty \subseteq flDirty'
      /\ flAt \in {"change", "rename", "patch"} /\ flAt' = "idle" /\ flSaved' = NoArtifact
  BY DEF FlChangeFails, FlPatchFails, FlReturn, Spoil
<1>2. /\ Restorable' /\ TwiceKnown' /\ FromOnce' /\ Standing' /\ Recorded'
      /\ \A q : (Clear(q)' => Clear(q)) /\ HasEntry(q)' = HasEntry(q)
  BY <1>1, ArtifactsStay DEF InUndo
<1>3. \A p \in Paths : p # flOp.path => flFile'[p] = flFile[p]
  BY DEF FlChangeFails, FlPatchFails, Set, FlInv, FlTypeOK
<1>4. flOp.path \in flDirty' \/ (flFile' = flFile /\ flAt = "change")
  BY DEF FlChangeFails, FlPatchFails, Spoil
<1>5. Untouched'
  BY <1>1, <1>2, <1>3, <1>4 DEF FlInv, FlKnown, Untouched, Clear
<1>6. Saving'
  BY <1>1 DEF FlInv, FlKnown, Saving
<1> QED
  BY <1>1, <1>2, <1>5, <1>6 DEF FlKnown, Ended

LEMMA SaveKeeps == ASSUME FlInv, FlSave PROVE FlKnown'
<1> DEFINE p == flOp.path
<1>0. /\ flAt = "save" /\ flSaved = NoArtifact /\ ~InUndo /\ ~InUndo' /\ Name \in Artifacts
      /\ Name[1] = FileName[p] /\ Name # NoArtifact /\ flFile[p] # Absent /\ p \in Paths
      /\ Restorable
  BY NameType, NoArtifactIsNone DEF FlSave, FlReturn, FlInv, FlKnown, Saving, InUndo
<1>1. /\ UNCHANGED <<flFile, flPatches, flDone, flBefore, flTwice, flDirty>>
      /\ flShared \subseteq flShared' /\ (flRestores[Name] # Absent => Name \in flShared')
      /\ flRestores'[Name] # Absent
      /\ \A a \in Artifacts : a # Name => flRestores'[a] = flRestores[a]
  BY <1>0, FlAssumption DEF FlSave, FlInv, FlTypeOK
<1>2. \A q : (Clear(q)' => Clear(q)) /\ HasEntry(q)' = HasEntry(q)
  BY <1>1, ClearBefore DEF HasEntry
<1>3. \/ /\ flRestores'[Name] = flFile[p] /\ flSaved' = Name /\ flAt' = "change" /\ flOp' = flOp
      \/ flAt' = "idle" /\ flSaved' = NoArtifact
  BY <1>0 DEF FlSave, FlReturn, FlInv, FlTypeOK
<1>4. Restorable' /\ TwiceKnown'
  BY <1>1 DEF FlInv, FlKnown, Restorable, TwiceKnown
<1>5. Saving'
  <2>1. \A q \in Paths : Clear(q)' /\ ~HasEntry(q) => flFile[q] = flBefore[q]
    BY <1>0, <1>2 DEF FlInv, FlKnown, Untouched
  <2> QED
    BY <1>0, <1>1, <1>2, <1>3, <2>1 DEF FlInv, FlKnown, Saving
<1>6. FromOnce'
  <2>1. \A a \in Artifacts : \A x \in flPatches[a] :
           x.mode = "restore" /\ x.from = Name => Name \in flShared'
    BY <1>0, <1>1 DEF FlInv, FlKnown, Standing
  <2>2. \A a \in Artifacts : \A x \in flPatches[a] : x.mode = "restore" => x.from # NoArtifact
    BY <1>0, NoArtifactIsNone DEF Restorable
  <2> QED
    BY <1>1, <1>3, <2>1, <2>2 DEF FlInv, FlKnown, FromOnce
<1>7. Standing'
  BY <1>0, <1>1 DEF FlInv, FlKnown, Standing, Restorable
<1>8. Recorded'
  <2> SUFFICES ASSUME NEW i \in DOMAIN flDone', NEW e, e = flDone'[i], Clear(e.path)'
               PROVE  Undoable(e)'
    BY DEF Recorded
  <2>1. Clear(e.path) /\ Undoable(e)
    BY <1>1, <1>2 DEF FlInv, FlKnown, Recorded
  <2>2. ASSUME NEW r, Saves(e.path, r), flBefore[e.path] # Absent
        PROVE  Saves(e.path, r)'
    BY <1>1, <2>2 DEF Saves, Clear
  <2> QED
    BY <1>1, <2>1, <2>2 DEF Undoable
<1>9. Untouched'
  BY <1>0, <1>1, <1>2, <1>3 DEF FlInv, FlKnown, Untouched
<1> QED
  BY <1>3, <1>4, <1>5, <1>6, <1>7, <1>8, <1>9 DEF FlKnown, Ended

(* Only the clock or the phase moves.                                      *)
LEMMA PhaseKeeps == ASSUME FlInv, FlTick \/ FlUndo \/ FlEnd \/ UNCHANGED flVars PROVE FlKnown'
<1>1. /\ UNCHANGED <<flFile, flRestores, flPatches, flDone, flBefore, flTwice, flDirty, flShared, flSaved, flOp>>
      /\ \/ flAt' = flAt
         \/ flAt = "idle" /\ flAt' = "undo"
         \/ flAt = "undo" /\ flAt' = "undone" /\ flDone = <<>>
  BY DEF FlTick, FlUndo, FlEnd, flVars
<1>2. /\ Restorable' /\ TwiceKnown' /\ FromOnce' /\ Standing' /\ Recorded'
      /\ \A q : (Clear(q)' => Clear(q)) /\ HasEntry(q)' = HasEntry(q)
  BY <1>1, ArtifactsStay DEF InUndo
<1>3. Untouched'
  BY <1>1, <1>2 DEF FlInv, FlKnown, Untouched
<1>4. Saving'
  BY <1>1, <1>2 DEF FlInv, FlKnown, Saving
<1> QED
  BY <1>1, <1>2, <1>3, <1>4 DEF FlInv, FlKnown, Ended

LEMMA PatchKeeps == ASSUME FlInv, FlPatch PROVE FlKnown'
<1> DEFINE p == flOp.path
           n == Len(flDone)
           new == [path |-> p, patch |-> Name, created |-> flSaved = NoArtifact]
           record == [mode |-> IF flSaved = NoArtifact THEN "delete_created" ELSE "restore", from |-> flSaved]
<1>0. /\ flAt = "patch" /\ flAt' = "idle" /\ flSaved' = NoArtifact /\ ~InUndo /\ ~InUndo'
      /\ Name \in Artifacts /\ Name[1] = FileName[p] /\ p \in Paths /\ NoArtifact \notin Artifacts
      /\ UNCHANGED <<flFile, flRestores, flBefore, flDirty>>
      /\ flSaved \in Artifacts \cup {NoArtifact}
  BY NameType, NoArtifactIsNone DEF FlPatch, FlReturn, FlInv, FlTypeOK, InUndo
<1>1. /\ flDone \in Seq(Change) /\ n \in Nat /\ flDone' = Append(flDone, new)
      /\ DOMAIN flDone = 1..n /\ DOMAIN flDone' = 1..(n + 1)
      /\ flDone'[n + 1] = new /\ \A i \in 1..n : flDone'[i] = flDone[i]
      /\ \A i \in 1..n : flDone[i].patch \in Artifacts
      /\ new.path = p /\ new.patch = Name /\ (new.created <=> flSaved = NoArtifact)
  <2>1. flDone \in Seq(Change) /\ flDone' = Append(flDone, new)
    BY DEF FlPatch, FlInv, FlTypeOK, Change
  <2>2. \A i \in DOMAIN flDone : flDone[i] \in Change
    BY <2>1, ElementOfSeq
  <2>3. \A i \in DOMAIN flDone : flDone[i].patch \in Artifacts
    BY <2>2 DEF Change
  <2>4. new.path = p /\ new.patch = Name /\ (new.created <=> flSaved = NoArtifact)
    BY Zenon
  <2> HIDE DEF new
  <2> QED
    BY <2>1, <2>3, <2>4
<1>2. /\ flShared' = (IF flPatches[Name] = {} THEN flShared ELSE flShared \cup {Name})
      /\ flTwice \subseteq flTwice' /\ (HasEntry(p) => p \in flTwice')
      /\ flPatches'[Name] = {record}
      /\ \A a \in Artifacts : a # Name => flPatches'[a] = flPatches[a]
  BY <1>0 DEF FlPatch, HasEntry, FlInv, FlTypeOK
<1>3. /\ \A q : (Clear(q)' => Clear(q)) /\ (HasEntry(q) => HasEntry(q)')
      /\ \A q : q = p => HasEntry(q)'
  <2>1. flShared \subseteq flShared' /\ flDirty \subseteq flDirty'
    BY <1>0, <1>2
  <2>2. \A q : HasEntry(q) => HasEntry(q)'
    BY <1>1 DEF HasEntry
  <2>3. \A q : q = p => HasEntry(q)'
    BY <1>1 DEF HasEntry
  <2> QED
    BY <1>2, <2>1, <2>2, <2>3, ClearBefore
<1> HIDE DEF n, new
<1>4. Restorable'
  BY <1>0, <1>2 DEF FlInv, FlKnown, Restorable
<1>5. Saving'
  BY <1>0 DEF FlInv, FlKnown, Saving
<1>6. TwiceKnown'
  <2>1. \A i \in 1..n : flDone[i].patch = Name => Name \in flShared'
    BY <1>0, <1>1, <1>2 DEF FlInv, FlKnown, Standing
  <2>2. \A i \in 1..n : flDone[i].path = p => p \in flTwice'
    BY <1>1, <1>2 DEF HasEntry
  <2>3. \A i, j \in 1..n : i # j =>
        /\ flDone[i].path = flDone[j].path => flDone[i].path \in flTwice'
        /\ flDone[i].patch = flDone[j].patch => flDone[i].patch \in flShared'
    BY <1>1, <1>2 DEF FlInv, FlKnown, TwiceKnown
  <2> SUFFICES ASSUME NEW i \in 1..(n + 1), NEW j \in 1..(n + 1), i # j
               PROVE  /\ flDone'[i].path = flDone'[j].path => flDone'[i].path \in flTwice'
                      /\ flDone'[i].patch = flDone'[j].patch => flDone'[i].patch \in flShared'
    BY <1>1 DEF TwiceKnown
  <2>4. CASE i \in 1..n /\ j \in 1..n
    BY <1>1, <2>3, <2>4
  <2>5. CASE i = n + 1 /\ j \in 1..n
    BY <1>1, <2>1, <2>2, <2>5
  <2>6. CASE i \in 1..n /\ j = n + 1
    BY <1>1, <2>1, <2>2, <2>6
  <2> QED
    BY <1>1, <2>4, <2>5, <2>6
<1>7. FromOnce'
  <2>1. \A a \in Artifacts : \A x \in flPatches[a] :
           x.mode = "restore" /\ x.from = flSaved => flSaved \in flShared
    BY DEF FlInv, FlKnown, FromOnce
  <2>2. flShared \subseteq flShared'
    BY <1>2
  <2>3. ASSUME NEW a \in Artifacts, NEW b \in Artifacts, a # b,
               NEW x \in flPatches'[a], NEW y \in flPatches'[b],
               x.mode = "restore", y.mode = "restore", x.from = y.from
        PROVE  x.from \in flShared'
    <3>1. CASE a = Name
      BY <1>2, <2>1, <2>2, <2>3, <3>1
    <3>2. CASE b = Name
      BY <1>2, <2>1, <2>2, <2>3, <3>2
    <3>3. CASE a # Name /\ b # Name
      BY <1>2, <2>2, <2>3, <3>3 DEF FlInv, FlKnown, FromOnce
    <3> QED
      BY <3>1, <3>2, <3>3
  <2>4. \A a \in Artifacts : \A x \in flPatches'[a] : x.mode = "restore" => x.from # flSaved'
    BY <1>0, <1>4 DEF Restorable
  <2> QED
    BY <2>3, <2>4 DEF FromOnce
<1>8. Standing'
  <2>1. \A i \in 1..(n + 1) : flPatches'[flDone'[i].patch] # {}
    <3>1. ASSUME NEW i \in 1..n PROVE flPatches'[flDone'[i].patch] # {}
      <4>1. flDone[i].patch \in Artifacts /\ flPatches[flDone[i].patch] # {}
        BY <1>0, <1>1 DEF FlInv, FlKnown, Standing
      <4> QED
        BY <1>1, <1>2, <4>1
    <3>2. flPatches'[flDone'[n + 1].patch] # {}
      BY <1>1, <1>2
    <3> QED
      BY <1>1, <3>1, <3>2
  <2>2. record.mode = "restore" => flRestores[flSaved] # Absent
    BY DEF FlInv, FlKnown, Saving
  <2>3. \A a \in Artifacts : \A x \in flPatches'[a] : x.mode = "restore" => flRestores'[x.from] # Absent
    BY <1>0, <1>2, <2>2 DEF FlInv, FlKnown, Standing
  <2> QED
    BY <1>1, <2>1, <2>3 DEF Standing
<1>9. Recorded'
  <2>1. ASSUME NEW i \in 1..n, NEW q, q = flDone[i].path, Clear(q)'
        PROVE  flPatches'[flDone[i].patch] = flPatches[flDone[i].patch] /\ Clear(q)
    <3>1. Clear(q) /\ flDone[i].patch[1] = FileName[q]
      BY <1>1, <1>3, <2>1 DEF FlInv, FlKnown, Recorded, Undoable
    <3>2. flPatches[flDone[i].patch] # {}
      BY <1>0, <1>1 DEF FlInv, FlKnown, Standing
    <3>3. flDone[i].patch # Name
      BY <1>2, <2>1, <3>1, <3>2 DEF Clear
    <3> QED
      BY <1>1, <1>2, <3>1, <3>3
  <2>2. ASSUME NEW q, q = p, Clear(q)', NEW s, s = flSaved
        PROVE  IF s = NoArtifact THEN flBefore[q] = Absent
               ELSE Saves(q, s)' /\ flBefore[q] # Absent /\ s \in Artifacts
    <3>1. Clear(p) /\ ~HasEntry(p)
      BY <1>2, <1>3, <2>2 DEF Clear
    <3> QED
      BY <1>0, <2>2, <3>1 DEF FlInv, FlKnown, Saving, Saves
  <2> SUFFICES ASSUME NEW i \in 1..(n + 1), NEW e, e = flDone'[i], Clear(e.path)'
               PROVE  Undoable(e)'
    BY <1>1 DEF Recorded
  <2>3. CASE i \in 1..n
    <3>1. e = flDone[i]
      BY <1>1, <2>3
    <3>2. flPatches'[e.patch] = flPatches[e.patch] /\ Clear(e.path)
      BY <2>1, <2>3, <3>1
    <3>3. Undoable(e)
      BY <1>1, <2>3, <3>1, <3>2 DEF FlInv, FlKnown, Recorded
    <3> QED
      BY <1>0, <3>2, <3>3 DEF Undoable, Saves
  <2>4. CASE i = n + 1
    <3>1. e.path = p /\ e.patch = Name /\ (e.created <=> flSaved = NoArtifact)
      BY <1>1, <2>4
    <3>2. CASE flSaved = NoArtifact
      BY <1>0, <1>2, <2>2, <3>1, <3>2 DEF Undoable
    <3>3. CASE flSaved # NoArtifact
      <4>1. PICK s : s = flSaved
        OBVIOUS
      <4>2. Saves(e.path, s)' /\ flBefore[e.path] # Absent /\ s \in Artifacts
        BY <2>2, <3>1, <3>3, <4>1
      <4>3. flPatches'[e.patch] = {[mode |-> "restore", from |-> s]}
        BY <1>2, <3>1, <3>3, <4>1
      <4> QED
        BY <1>0, <3>1, <3>3, <4>2, <4>3 DEF Undoable
    <3> QED
      BY <3>2, <3>3
  <2> QED
    BY <1>1, <2>3, <2>4
<1>10. Untouched'
  BY <1>0, <1>3 DEF FlInv, FlKnown, Untouched
<1> QED
  BY <1>0, <1>4, <1>5, <1>6, <1>7, <1>8, <1>9, <1>10 DEF FlKnown, Ended

(* The change at the head is undone, the others stay.                      *)
LEMMA RestOfTheRun ==
  ASSUME FlInv, flDone # <<>>
  PROVE  /\ DOMAIN flDone = 1..Len(flDone) /\ Len(flDone) \in Nat \ {0}
         /\ DOMAIN Tail(flDone) = 1..(Len(flDone) - 1)
         /\ \A i \in 1..(Len(flDone) - 1) : Tail(flDone)[i] = flDone[i + 1]
         /\ flDone[1] = Head(flDone)
         /\ \A i \in DOMAIN flDone : flDone[i] \in Change
<1>1. flDone \in Seq(Change)
  BY DEF FlInv, FlTypeOK, Change
<1>2. /\ Len(flDone) \in Nat /\ Len(flDone) # 0
      /\ DOMAIN flDone = 1..Len(flDone) /\ flDone[1] = Head(flDone)
  BY <1>1, EmptySeq, LenProperties, HeadTailProperties
<1> QED
  BY <1>1, <1>2, HeadTailProperties, ElementOfSeq, LenProperties

(* A clear path gets back what it had.                                     *)
LEMMA UndoneIsBefore ==
  ASSUME FlInv, flDone # <<>>, Clear(Head(flDone).path)
  PROVE  Undone(Head(flDone)) = flBefore[Head(flDone).path]
<1> DEFINE d == Head(flDone)
<1>1. /\ d.path \in Paths /\ d.patch \in Artifacts
      /\ IF d.created
           THEN /\ flPatches[d.patch] = {[mode |-> "delete_created", from |-> NoArtifact]}
                /\ flBefore[d.path] = Absent
           ELSE \E r \in Artifacts :
                  /\ flPatches[d.patch] = {[mode |-> "restore", from |-> r]}
                  /\ Saves(d.path, r) /\ flBefore[d.path] # Absent
  BY RestOfTheRun DEF FlInv, FlKnown, Recorded, Undoable, Change
<1>2. flBefore[d.path] \in Contents \cup {Absent} /\ Cut \notin Contents /\ Cut # Absent
  BY <1>1, FlAssumption DEF FlInv, FlKnown, Saving
<1>3. \A x : (CHOOSE y \in {x} : TRUE) = x
  OBVIOUS
<1> SUFFICES Undone(d) = flBefore[d.path]
  OBVIOUS
<1> HIDE DEF d
<1>4. CASE d.created
  <2> DEFINE x == [mode |-> "delete_created", from |-> NoArtifact]
  <2>1. flPatches[d.patch] = {x} /\ x.mode = "delete_created"
    BY <1>1, <1>4
  <2> HIDE DEF x
  <2> QED
    BY <1>1, <1>3, <1>4, <2>1 DEF Undone
<1>5. CASE ~d.created
  <2>1. PICK r \in Artifacts : /\ flPatches[d.patch] = {[mode |-> "restore", from |-> r]}
                               /\ Saves(d.path, r) /\ flBefore[d.path] # Absent
    BY <1>1, <1>5
  <2> DEFINE x == [mode |-> "restore", from |-> r]
  <2>2. flPatches[d.patch] = {x} /\ x.mode # "delete_created" /\ x.from = r
    BY <2>1
  <2>3. flRestores[r] \notin {Absent, Cut} /\ flRestores[r] = flBefore[d.path]
    BY <1>2, <2>1 DEF Saves
  <2> HIDE DEF x
  <2> QED
    BY <1>3, <2>2, <2>3 DEF Undone
<1> QED
  BY <1>4, <1>5 DEF d

LEMMA UndoKeeps == ASSUME FlInv, FlUndoOne \/ FlUndoFails PROVE FlKnown'
<1> DEFINE d == Head(flDone)
           n == Len(flDone)
           Restoring(a) == \E x \in flPatches[d.patch] : x.mode = "restore" /\ x.from = a
<1>0. /\ flAt = "undo" /\ flAt' = "undo" /\ flSaved = NoArtifact /\ flSaved' = NoArtifact
      /\ flDone # <<>> /\ flDone' = Tail(flDone)
      /\ UNCHANGED <<flBefore, flTwice, flShared>> /\ flDirty \subseteq flDirty'
      /\ flBefore \in [Paths -> Contents \cup {Absent}]
  BY DEF FlUndoOne, FlUndoFails, FlInv, FlKnown, Saving
<1>1. /\ DOMAIN flDone = 1..n /\ n \in Nat \ {0} /\ DOMAIN flDone' = 1..(n - 1)
      /\ \A i \in 1..(n - 1) : flDone'[i] = flDone[i + 1]
      /\ flDone[1] = d /\ \A i \in 1..n : flDone[i].path \in Paths /\ flDone[i].patch \in Artifacts
  BY <1>0, RestOfTheRun DEF Change
<1>2. /\ flPatches'[d.patch] = {}
      /\ \A a \in Artifacts : a # d.patch => flPatches'[a] = flPatches[a]
  BY <1>1 DEF FlUndoOne, FlUndoFails, FlInv, FlTypeOK
<1>3. /\ \A p \in Paths : p # d.path => flFile'[p] = flFile[p]
      /\ flFile'[d.path] = Undone(d) \/ d.path \in flDirty'
  BY <1>1 DEF FlUndoOne, FlUndoFails, FlInv, FlTypeOK
<1>4. \A a \in Artifacts : flRestores'[a] = flRestores[a] \/ Restoring(a)
  BY DEF FlUndoOne, FlUndoFails
<1>5. \A q : Clear(q)' => Clear(q)
  BY <1>0, ClearBefore
<1> HIDE DEF d, n
<1>6. Restorable'
  BY <1>2 DEF FlInv, FlKnown, Restorable
<1>7. Saving' /\ Standing' /\ Ended'
  BY <1>0 DEF Saving, Standing, Ended, InUndo
<1>8. TwiceKnown'
  <2> SUFFICES ASSUME NEW i \in 1..(n - 1), NEW j \in 1..(n - 1), i # j
               PROVE  /\ flDone'[i].path = flDone'[j].path => flDone'[i].path \in flTwice'
                      /\ flDone'[i].patch = flDone'[j].patch => flDone'[i].patch \in flShared'
    BY <1>0, <1>1 DEF TwiceKnown
  <2>1. i + 1 \in 1..n /\ j + 1 \in 1..n /\ i + 1 # j + 1
    BY <1>1
  <2> QED
    BY <1>0, <1>1, <2>1 DEF FlInv, FlKnown, TwiceKnown
<1>9. FromOnce'
  BY <1>0, <1>2 DEF FlInv, FlKnown, FromOnce
<1>10. Recorded'
  <2> SUFFICES ASSUME NEW j \in 1..(n - 1), NEW e, e = flDone'[j], Clear(e.path)'
               PROVE  Undoable(e)'
    BY <1>0, <1>1 DEF Recorded
  <2> DEFINE i == j + 1
  <2>1. i \in 1..n /\ i # 1 /\ e = flDone[i] /\ 1 \in 1..n
    BY <1>1
  <2> HIDE DEF i
  <2>2. Clear(e.path) /\ e.patch \in Artifacts /\ d.patch \in Artifacts
    BY <1>1, <1>5, <2>1
  <2>3. Undoable(e)
    BY <1>1, <2>1, <2>2 DEF FlInv, FlKnown, Recorded
  <2>4. e.patch # d.patch
    BY <1>1, <2>1, <2>2, <2>3 DEF FlInv, FlKnown, TwiceKnown, Clear, Undoable
  <2>5. flPatches'[e.patch] = flPatches[e.patch]
    BY <1>2, <2>2, <2>4
  <2>6. ASSUME NEW r \in Artifacts, flPatches[e.patch] = {[mode |-> "restore", from |-> r]},
               Saves(e.path, r)
        PROVE  Saves(e.path, r)'
    <3>1. ~Restoring(r)
      <4> SUFFICES ASSUME NEW x \in flPatches[d.patch], x.mode = "restore", x.from = r PROVE FALSE
        OBVIOUS
      <4>1. PICK y \in flPatches[e.patch] : y.mode = "restore" /\ y.from = r
        BY <2>6
      <4>2. r \in flShared
        BY <2>2, <2>4, <4>1 DEF FlInv, FlKnown, FromOnce
      <4> QED
        BY <2>2, <2>6, <4>2 DEF Saves, Clear
    <3> QED
      BY <1>0, <1>4, <2>6, <3>1 DEF Saves
  <2> QED
    BY <1>0, <2>3, <2>5, <2>6 DEF Undoable
<1>11. Untouched'
  <2> SUFFICES ASSUME NEW p \in Paths, Clear(p)', ~HasEntry(p)'
               PROVE  flFile'[p] = flBefore[p]
    BY <1>0 DEF Untouched
  <2>1. CASE p = d.path
    <3>1. d.path \notin flDirty' /\ Clear(d.path)
      BY <1>5, <2>1 DEF Clear
    <3> QED
      BY <1>0, <1>3, <2>1, <3>1, UndoneIsBefore DEF d
  <2>2. CASE p # d.path
    <3>1. ~HasEntry(p)
      <4> SUFFICES ASSUME NEW i \in 1..n, flDone[i].path = p PROVE FALSE
        BY <1>1 DEF HasEntry
      <4>1. i - 1 \in 1..(n - 1) /\ flDone'[i - 1] = flDone[(i - 1) + 1] /\ (i - 1) + 1 = i
        BY <1>1, <2>2
      <4> QED
        BY <1>1, <4>1 DEF HasEntry
    <3> QED
      BY <1>0, <1>3, <1>5, <2>2, <3>1 DEF FlInv, FlKnown, Untouched
  <2> QED
    BY <2>1, <2>2
<1> QED
  BY <1>6, <1>7, <1>8, <1>9, <1>10, <1>11 DEF FlKnown

LEMMA FlInitHolds == ASSUME FlInit PROVE FlInv
<1>1. (CHOOSE p \in Paths : TRUE) \in Paths
  BY FlAssumption
<1>2. FlTypeOK
  BY <1>1, FlAssumption DEF FlInit, FlTypeOK, FlNoOp, FlOp, Texts
<1>3. FlKnown
  BY NoArtifactIsNone DEF FlInit, FlKnown, Restorable, Saving, TwiceKnown, FromOnce, Standing, Recorded,
     Untouched, Ended, InUndo
<1> QED
  BY <1>2, <1>3 DEF FlInv

LEMMA FlInvStep == ASSUME FlInv, [FlNext]_flVars PROVE FlInv'
<1>1. FlTypeOK'
  BY FlTypeStep DEF FlInv, FlKnown
<1>2. FlBegins => FlKnown'
  BY BeginKeeps DEF FlBegins
<1>3. FlKnown'
  BY <1>2, ChangesBegin, SaveKeeps, ChangeKeeps, FailureKeeps, PatchKeeps, PhaseKeeps, UndoKeeps DEF FlNext
<1> QED
  BY <1>1, <1>3 DEF FlInv

\* tool.rs, tool_write.rs and run_commit.rs:282-366: the tool's files and artifacts
\* keep their types, whatever paths share a file name.
THEOREM FlTypesHold == FlSpec => []FlTypeOK
<1>1. FlInv => FlTypeOK
  BY DEF FlInv
<1> QED
  BY <1>1, FlInitHolds, FlInvStep, PTL DEF FlSpec

\* run_commit.rs:282-366, for any number of changes, failing steps and clock ticks:
\* the undo of a failed commit gives a path its contents of before the run, unless
\* the run changed it twice, used its artifact names twice, or failed on it.
THEOREM UndoRestoresFilesHolds == FlSpec => []UndoRestoresFiles
<1>1. FlInv => UndoRestoresFiles
  BY DEF FlInv, FlKnown, Ended, Untouched, UndoRestoresFiles, Clear, HasEntry
<1> QED
  BY <1>1, FlInitHolds, FlInvStep, PTL DEF FlSpec

-----------------------------------------------------------------------------
(* All adapters together.                                                  *)

AdaptersInv == MdInv /\ SqInv /\ PvInv /\ FlInv

\* The adapters share nothing: a step of one of them leaves the others alone, so
\* that every one keeps its types and its invariant beside the others.
THEOREM AdaptersTypesHold == Spec => []AdaptersTypeOK
<1>1. Init => AdaptersInv
  BY MdInitHolds, SqInitHolds, PvInitHolds, FlInitHolds DEF Init, AdaptersInv
<1>2. AdaptersInv /\ [Next]_vars => AdaptersInv'
  <2> SUFFICES ASSUME AdaptersInv, [Next]_vars PROVE AdaptersInv'
    OBVIOUS
  <2>1. [MdNext]_mdVars /\ [SqNext]_sqVars /\ [PvNext]_pvVars /\ [FlNext]_flVars
    BY DEF Next, vars
  <2> QED
    BY <2>1, MdInvStep, SqInvStep, PvInvStep, FlInvStep DEF AdaptersInv
<1>3. AdaptersInv => AdaptersTypeOK
  BY DEF AdaptersInv, AdaptersTypeOK, MdInv, SqInv, PvInv, FlInv
<1> QED
  BY <1>1, <1>2, <1>3, PTL DEF Spec
=================================================================================
