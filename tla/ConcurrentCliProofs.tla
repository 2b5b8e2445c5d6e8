-------------------------- MODULE ConcurrentCliProofs --------------------------
(***************************************************************************)
(* Theorems about axiomrunner processes in one workspace or in several,    *)
(* for every number of both and every mix of commands.  The lock keeps a   *)
(* command alone in its workspace from its start to its release; as long   *)
(* as each works on the snapshot that is saved, that is enough for every   *)
(* number to be used once.                                                 *)
(***************************************************************************)
EXTENDS ConcurrentCli, TLAPS

PCs == {"new", "loaded", "reserved", "working", "traced", "saved", "done"}
States == [seq : Nat, pending : Nat]
Entry == [by : Procs, at : Workspaces, kind : Kinds, run : Nat]

\* The variables have types, whatever numbers the commands come to.
Typed ==
    /\ workspace \in [Procs -> Workspaces] /\ command \in [Procs -> Kinds]
    /\ shared \in BOOLEAN
    /\ owner \in [Workspaces -> Procs \cup {NoOwner}]
    /\ snapshot \in [Files -> States] /\ loaded \in [Procs -> States]
    /\ pc \in [Procs -> PCs]
    /\ events \in Seq(Entry) /\ stale \in BOOLEAN

\* Who is past the lock holds it.
Holds == \A p \in Procs : pc[p] \in {"reserved"} \cup Busy => owner[workspace[p]] = p

\* The event of p is the last one of its workspace.
IsLast(p) ==
    \E i \in DOMAIN events :
        events[i].by = p /\ \A j \in (i + 1)..Len(events) : events[j].at # workspace[p]

Alone == \A p \in Procs : pc[p] = "traced" => IsLast(p)

\* s knows every number that was given out by the commands of file f, and
\* which of their runs were ended.
Covers(s, f) ==
    /\ s.pending <= s.seq
    /\ \A i \in DOMAIN events : File(events[i].at) = f =>
         /\ events[i].run # 0 /\ events[i].run <= s.seq
         /\ events[i].kind # "run" => events[i].run # s.pending

\* p is between its event and its save, which goes to file f.
SavesTo(p, f) == pc[p] = "traced" /\ File(workspace[p]) = f

\* While no command worked on an outdated snapshot, the saved one covers the
\* trace, or that of the only command between its event and its save does.
Current ==
    ~stale => \A f \in Files :
        /\ (\A p \in Procs : ~SavesTo(p, f)) => Covers(snapshot[f], f)
        /\ \A p \in Procs : SavesTo(p, f) =>
             /\ Covers(loaded[p], f)
             /\ \A q \in Procs : SavesTo(q, f) => q = p

\* Run n, if there is one, was started in w.
StartedIn(n, w) ==
    n # 0 => \E i \in DOMAIN events :
        events[i].kind = "run" /\ events[i].run = n /\ events[i].at = w

\* With a state path of its own a workspace knows its own waiting runs only.
WaitsHere ==
    ~shared => /\ \A w \in Workspaces : StartedIn(snapshot[w].pending, w)
               /\ \A p \in Procs : StartedIn(loaded[p].pending, workspace[p])

CliInv ==
    /\ Typed /\ Holds /\ Alone /\ Current /\ WaitsHere
    /\ SecondTimeNeedsStaleLoad /\ EndsWhereItStarted

-----------------------------------------------------------------------------
(* The initial states satisfy the invariant.                               *)
LEMMA CliInit == Init => CliInv
<1> SUFFICES ASSUME Init PROVE CliInv
  OBVIOUS
<1> USE DEF Init
<1>1. Typed
  <2>1. Empty \in States
    BY DEF Empty, States
  <2>2. snapshot \in [Files -> States] /\ loaded \in [Procs -> States]
    BY <2>1
  <2>3. pc \in [Procs -> PCs] /\ owner \in [Workspaces -> Procs \cup {NoOwner}]
    BY DEF PCs
  <2>4. <<>> \in Seq(Entry)
    OBVIOUS
  <2>5. events \in Seq(Entry) /\ stale \in BOOLEAN
    BY <2>4
  <2>6. QED
    BY <2>2, <2>3, <2>5 DEF Typed
<1>2. Holds /\ Alone
  BY DEF Holds, Alone, Busy
<1>3. Current
  BY DEF Current, Covers, SavesTo, Empty
<1>4. WaitsHere
  BY DEF WaitsHere, StartedIn, Files, Empty
<1>5. SecondTimeNeedsStaleLoad /\ EndsWhereItStarted
  BY DEF SecondTimeNeedsStaleLoad, EndsWhereItStarted
<1>6. QED
  BY <1>1, <1>2, <1>3, <1>4, <1>5 DEF CliInv

(* The snapshot file of a process.                                         *)
LEMMA FileType == ASSUME Typed, NEW w \in Workspaces PROVE File(w) \in Files
  BY DEF Typed, File, Files

(* The number of a command is a natural number.                            *)
LEMMA NumberType == ASSUME Typed, NEW p \in Procs PROVE Number(p) \in Nat
  BY DEF Typed, States, Number

(* What a command that works appends and leaves in memory.                 *)
LEMMA WorkEffect ==
    ASSUME CliInv, NEW p \in Procs, Work(p)
    PROVE  /\ Event(p) \in Entry /\ events' = Append(events, Event(p))
           /\ DOMAIN events = 1..Len(events) /\ Len(events) \in Nat
           /\ DOMAIN events' = 1..(Len(events) + 1) /\ Len(events') = Len(events) + 1
           /\ \A i \in DOMAIN events : events'[i] = events[i] /\ events[i] \in Entry
           /\ events'[Len(events) + 1] = Event(p)
           /\ loaded[p] \in States /\ loaded'[p] \in States
           /\ \A q \in Procs \ {p} : loaded'[q] = loaded[q]
           /\ loaded'[p].seq = IF command[p] = "run" THEN Number(p) ELSE loaded[p].seq
           /\ \/ loaded'[p].pending = 0
              \/ command[p] = "run" /\ loaded'[p].pending = Number(p)
           /\ loaded' \in [Procs -> States]
<1> USE DEF CliInv, Typed
<1>1. Number(p) \in Nat
  BY NumberType
<1>2. Event(p) \in Entry
  BY <1>1 DEF Event, Entry
<1>3. events' = Append(events, Event(p))
  BY DEF Work
<1>4. /\ DOMAIN events = 1..Len(events) /\ Len(events) \in Nat
      /\ DOMAIN events' = 1..(Len(events) + 1) /\ Len(events') = Len(events) + 1
      /\ \A i \in DOMAIN events : events'[i] = events[i] /\ events[i] \in Entry
      /\ events'[Len(events) + 1] = Event(p)
  BY <1>2, <1>3
<1>5. PICK waits \in IF command[p] = "run" THEN BOOLEAN ELSE {FALSE} :
        loaded' = [loaded EXCEPT ![p] =
                     [seq |-> IF command[p] = "run" THEN Number(p) ELSE @.seq,
                      pending |-> IF waits THEN Number(p) ELSE 0]]
  BY DEF Work
<1>6. waits => command[p] = "run"
  BY <1>5
<1>7. /\ loaded' \in [Procs -> States]
      /\ \A q \in Procs \ {p} : loaded'[q] = loaded[q]
      /\ loaded'[p].seq = IF command[p] = "run" THEN Number(p) ELSE loaded[p].seq
      /\ loaded'[p].pending = IF waits THEN Number(p) ELSE 0
  BY <1>1, <1>5 DEF States
<1>8. QED
  BY <1>2, <1>3, <1>4, <1>6, <1>7

(* Every step keeps the types.                                             *)
LEMMA TypedStep == ASSUME CliInv, [Next]_vars PROVE Typed'
<1> USE DEF CliInv, Typed, GoTo, store, started, Unlock, PCs
<1>1. ASSUME NEW p \in Procs, Load(p) PROVE Typed'
  BY <1>1, FileType DEF Load
<1>2. ASSUME NEW p \in Procs, Acquire(p) PROVE Typed'
  BY <1>2 DEF Acquire
<1>3. ASSUME NEW p \in Procs, Refuse(p) PROVE Typed'
  BY <1>3 DEF Refuse
<1>4. ASSUME NEW p \in Procs, Start(p) PROVE Typed'
  BY <1>4 DEF Start
<1>5. ASSUME NEW p \in Procs, NothingPending(p) PROVE Typed'
  BY <1>5 DEF NothingPending
<1>6. ASSUME NEW p \in Procs, Work(p) PROVE Typed'
  <2>1. events' \in Seq(Entry) /\ loaded' \in [Procs -> States]
    BY <1>6, WorkEffect
  <2>2. Outdated(p) \in BOOLEAN
    BY DEF Outdated
  <2>3. stale' \in BOOLEAN
    BY <1>6, <2>2 DEF Work
  <2>4. QED
    BY <1>6, <2>1, <2>3 DEF Work
<1>7. ASSUME NEW p \in Procs, Save(p) PROVE Typed'
  BY <1>7 DEF Save
<1>8. ASSUME NEW p \in Procs, Release(p) PROVE Typed'
  BY <1>8 DEF Release
<1>9. CASE UNCHANGED vars
  BY <1>9 DEF vars
<1>10. QED
  BY <1>1, <1>2, <1>3, <1>4, <1>5, <1>6, <1>7, <1>8, <1>9 DEF Next

(* Every step leaves the lock with who is past it.                         *)
LEMMA HoldsStep == ASSUME CliInv, [Next]_vars PROVE Holds'
<1> USE DEF CliInv, Typed, Holds, Busy, GoTo, store, started
<1>1. ASSUME NEW p \in Procs, Load(p) \/ Refuse(p) \/ Start(p) \/ Work(p) \/ Save(p)
      PROVE  Holds'
  BY <1>1 DEF Load, Refuse, Start, Work, Save
<1>2. ASSUME NEW p \in Procs, Acquire(p) PROVE Holds'
  BY <1>2, NoOwnerIsNoProcess DEF Acquire
<1>3. ASSUME NEW p \in Procs, NothingPending(p) \/ Release(p) PROVE Holds'
  BY <1>3 DEF NothingPending, Release, Unlock
<1>4. CASE UNCHANGED vars
  BY <1>4 DEF vars
<1>5. QED
  BY <1>1, <1>2, <1>3, <1>4 DEF Next

(* Every step leaves the event of a command that has not saved the last of *)
(* its workspace.                                                          *)
LEMMA AloneStep == ASSUME CliInv, [Next]_vars PROVE Alone'
<1> USE DEF CliInv, Typed, Alone, IsLast, GoTo, store, started
<1>1. ASSUME NEW p \in Procs,
             \/ Load(p) \/ Acquire(p) \/ Refuse(p) \/ Start(p) \/ NothingPending(p)
             \/ Save(p) \/ Release(p)
      PROVE  Alone'
  <2>1. /\ UNCHANGED <<events, workspace>>
        /\ \A q \in Procs : pc'[q] = "traced" => pc[q] = "traced"
    BY <1>1 DEF Load, Acquire, Refuse, Start, NothingPending, Save, Release
  <2>2. QED
    BY <2>1
<1>2. ASSUME NEW p \in Procs, Work(p) PROVE Alone'
  <2>1. /\ DOMAIN events = 1..Len(events) /\ Len(events) \in Nat
        /\ DOMAIN events' = 1..(Len(events) + 1) /\ Len(events') = Len(events) + 1
        /\ \A i \in DOMAIN events : events'[i] = events[i]
        /\ events'[Len(events) + 1] = Event(p)
    BY <1>2, WorkEffect
  <2>2. workspace' = workspace /\ pc[p] = "working" /\ pc' = [pc EXCEPT ![p] = "traced"]
    BY <1>2 DEF Work
  <2>3. IsLast(p)'
    <3>1. Event(p).by = p
      BY DEF Event
    <3>2. QED
      BY <2>1, <3>1
  <2>4. ASSUME NEW q \in Procs \ {p}, pc'[q] = "traced" PROVE IsLast(q)'
    <3>1. pc[q] = "traced"
      BY <2>2, <2>4
    <3>2. workspace[q] # workspace[p]
      BY <2>2, <3>1 DEF Holds, Busy
    <3>3. PICK i \in DOMAIN events :
            events[i].by = q /\ \A j \in (i + 1)..Len(events) : events[j].at # workspace[q]
      BY <3>1
    <3>4. Event(p).at # workspace[q]
      BY <3>2 DEF Event
    <3>5. \A j \in (i + 1)..Len(events') : events'[j].at # workspace'[q]
      BY <2>1, <2>2, <3>3, <3>4
    <3>6. QED
      BY <2>1, <3>3, <3>5
  <2>5. QED
    BY <2>3, <2>4
<1>3. CASE UNCHANGED vars
  BY <1>3 DEF vars
<1>4. QED
  BY <1>1, <1>2, <1>3 DEF Next

(* What a command leaves in memory covers its event, when it worked on a   *)
(* snapshot that covered the trace; its event repeats none.                *)
LEMMA WorkCovers ==
    ASSUME CliInv, NEW p \in Procs, Work(p), Covers(loaded[p], File(workspace[p]))
    PROVE  /\ Covers(loaded[p], File(workspace[p]))'
           /\ \A i \in DOMAIN events : File(events[i].at) = File(workspace[p]) =>
                /\ events[i].run = Number(p) => ~(events[i].kind = "run" /\ command[p] = "run")
                /\ events[i].run = Number(p) => ~(events[i].kind # "run" /\ command[p] # "run")
<1> DEFINE n == Number(p)
<1> DEFINE f == File(workspace[p])
<1>1. n \in Nat /\ n # 0 /\ loaded[p].seq \in Nat /\ loaded[p].pending \in Nat
  BY NumberType, WorkEffect DEF Work, CliInv, States
<1>2. command[p] = "run" => n = loaded[p].seq + 1
  BY DEF Number
<1>3. command[p] # "run" => n = loaded[p].pending /\ n <= loaded[p].seq
  BY DEF Number, Covers
<1>4. /\ Event(p).run = n /\ Event(p).kind = command[p]
      /\ DOMAIN events' = 1..(Len(events) + 1) /\ DOMAIN events = 1..Len(events)
      /\ Len(events) \in Nat
      /\ \A i \in DOMAIN events : events'[i] = events[i]
      /\ events'[Len(events) + 1] = Event(p)
  BY WorkEffect DEF Event
<1>5. /\ loaded'[p].seq = IF command[p] = "run" THEN n ELSE loaded[p].seq
      /\ \/ loaded'[p].pending = 0
         \/ command[p] = "run" /\ loaded'[p].pending = n
  BY WorkEffect
<1>6. workspace' = workspace /\ shared' = shared
  BY DEF Work, GoTo, started
<1>7. \A i \in DOMAIN events : events[i].run \in Nat
  BY WorkEffect DEF Entry
<1>8. \A i \in DOMAIN events : File(events[i].at) = f =>
        /\ events[i].run # 0 /\ events[i].run <= loaded[p].seq
        /\ events[i].kind # "run" => events[i].run # loaded[p].pending
  BY DEF Covers
<1>9. \A i \in DOMAIN events : File(events[i].at) = f =>
        /\ events[i].run = n => ~(events[i].kind = "run" /\ command[p] = "run")
        /\ events[i].run = n => ~(events[i].kind # "run" /\ command[p] # "run")
  BY <1>1, <1>2, <1>3, <1>7, <1>8
<1>10. \A w : File(w)' = File(w)
  BY <1>6 DEF File
<1>11. loaded'[p].pending <= loaded'[p].seq
  BY <1>1, <1>5
<1>12. ASSUME NEW i \in DOMAIN events', File(events'[i].at) = f
       PROVE  /\ events'[i].run # 0 /\ events'[i].run <= loaded'[p].seq
              /\ events'[i].kind # "run" => events'[i].run # loaded'[p].pending
  <2>1. CASE i \in DOMAIN events
    <3>1. /\ events[i].run \in Nat /\ events[i].run # 0 /\ events[i].run <= loaded[p].seq
          /\ events'[i] = events[i]
      BY <1>4, <1>7, <1>8, <1>12, <2>1
    <3>2. CASE command[p] = "run"
      BY <1>1, <1>2, <1>5, <3>1, <3>2
    <3>3. CASE command[p] # "run"
      BY <1>1, <1>5, <3>1, <3>3
    <3>4. QED
      BY <3>2, <3>3
  <2>2. CASE i \notin DOMAIN events
    <3>1. events'[i] = Event(p)
      BY <1>4, <2>2
    <3>2. QED
      BY <1>1, <1>3, <1>4, <1>5, <3>1
  <2>3. QED
    BY <2>1, <2>2
<1>13. Covers(loaded[p], File(workspace[p]))'
  BY <1>6, <1>10, <1>11, <1>12 DEF Covers
<1>14. QED
  BY <1>9, <1>13

(* Every step keeps the saved snapshot, or the one that is about to be     *)
(* saved, up to date with the trace.                                       *)
LEMMA CurrentStep == ASSUME CliInv, [Next]_vars PROVE Current'
<1> SUFFICES ASSUME ~stale', NEW f \in Files
             PROVE  /\ (\A p \in Procs : ~SavesTo(p, f)') => Covers(snapshot[f], f)'
                    /\ \A p \in Procs : SavesTo(p, f)' =>
                         /\ Covers(loaded[p], f)'
                         /\ \A q \in Procs : SavesTo(q, f)' => q = p
  BY DEF Current, Files
<1> USE DEF CliInv, Typed, GoTo, store, started
<1>1. CASE /\ UNCHANGED <<events, stale, snapshot, workspace, shared>>
           /\ \A q \in Procs : pc'[q] = "traced" <=> pc[q] = "traced"
           /\ \A q \in Procs : pc[q] = "traced" => loaded'[q] = loaded[q]
  <2>1. \A q \in Procs : SavesTo(q, f)' <=> SavesTo(q, f)
    BY <1>1 DEF SavesTo, File
  <2>2. \A q \in Procs : SavesTo(q, f) => loaded'[q] = loaded[q]
    BY <1>1 DEF SavesTo
  <2>3. /\ (\A q \in Procs : ~SavesTo(q, f)) => Covers(snapshot[f], f)
        /\ \A q \in Procs : SavesTo(q, f) =>
             Covers(loaded[q], f) /\ \A r \in Procs : SavesTo(r, f) => r = q
    BY <1>1 DEF Current
  <2>4. Covers(snapshot[f], f) => Covers(snapshot[f], f)'
    BY <1>1 DEF Covers, File
  <2>5. \A q \in Procs : SavesTo(q, f) /\ Covers(loaded[q], f) => Covers(loaded[q], f)'
    BY <1>1, <2>2 DEF Covers, File
  <2>6. QED
    BY <2>1, <2>3, <2>4, <2>5
<1>2. ASSUME NEW p \in Procs,
             Load(p) \/ Acquire(p) \/ Refuse(p) \/ Start(p) \/ NothingPending(p) \/ Release(p)
      PROVE  /\ UNCHANGED <<events, stale, snapshot, workspace, shared>>
             /\ \A q \in Procs : pc'[q] = "traced" <=> pc[q] = "traced"
             /\ \A q \in Procs : pc[q] = "traced" => loaded'[q] = loaded[q]
  BY <1>2 DEF Load, Acquire, Refuse, Start, NothingPending, Release
<1>3. ASSUME NEW p \in Procs, Work(p)
      PROVE  /\ (\A q \in Procs : ~SavesTo(q, f)') => Covers(snapshot[f], f)'
             /\ \A q \in Procs : SavesTo(q, f)' =>
                  /\ Covers(loaded[q], f)'
                  /\ \A r \in Procs : SavesTo(r, f)' => r = q
  <2> DEFINE g == File(workspace[p])
  <2>1. ~stale /\ ~Outdated(p) /\ g \in Files
    BY <1>3, FileType DEF Work
  <2>2. loaded[p] = snapshot[g] /\ \A q \in Procs \ {p} : ~SavesTo(q, g)
    BY <2>1 DEF Outdated, SavesTo
  <2>3. /\ pc[p] = "working" /\ pc' = [pc EXCEPT ![p] = "traced"]
        /\ UNCHANGED <<snapshot, workspace, shared>>
    BY <1>3 DEF Work
  <2>4. ~SavesTo(p, g)
    BY <2>3 DEF SavesTo
  <2>5. Covers(loaded[p], g)
    BY <2>1, <2>2, <2>4 DEF Current
  <2>6. Covers(loaded[p], File(workspace[p]))'
    BY <1>3, <2>5, WorkCovers
  <2>7. File(workspace[p])' = g
    BY <2>3 DEF File
  <2>8. \A q \in Procs \ {p} : SavesTo(q, f)' <=> SavesTo(q, f)
    BY <2>3 DEF SavesTo, File
  <2>9. SavesTo(p, f)' <=> f = g
    BY <2>3, <2>7 DEF SavesTo
  <2>10. CASE f = g
    <3>1. Covers(loaded[p], f)'
      BY <2>6, <2>7, <2>10
    <3>2. QED
      BY <2>2, <2>8, <2>9, <2>10, <3>1
  <2>11. CASE f # g
    <3>1. /\ DOMAIN events = 1..Len(events) /\ Len(events) \in Nat
          /\ DOMAIN events' = 1..(Len(events) + 1)
          /\ \A i \in DOMAIN events : events'[i] = events[i]
          /\ events'[Len(events) + 1] = Event(p)
          /\ \A q \in Procs \ {p} : loaded'[q] = loaded[q]
      BY <1>3, WorkEffect
    <3>2. Event(p).at = workspace[p]
      BY DEF Event
    <3>3. \A i \in DOMAIN events' : File(events[i].at)' = f =>
            i \in DOMAIN events /\ events'[i] = events[i] /\ File(events[i].at) = f
      BY <2>3, <2>11, <3>1, <3>2 DEF File
    <3>4. Covers(snapshot[f], f) => Covers(snapshot[f], f)'
      BY <2>3, <3>3 DEF Covers
    <3>5. \A q \in Procs \ {p} : Covers(loaded[q], f) => Covers(loaded[q], f)'
      BY <3>1, <3>3 DEF Covers
    <3>6. ~SavesTo(p, f)
      BY <2>3 DEF SavesTo
    <3>7. /\ (\A q \in Procs : ~SavesTo(q, f)) => Covers(snapshot[f], f)
          /\ \A q \in Procs : SavesTo(q, f) =>
               Covers(loaded[q], f) /\ \A r \in Procs : SavesTo(r, f) => r = q
      BY <2>1 DEF Current
    <3>8. QED
      BY <2>8, <2>9, <2>11, <3>4, <3>5, <3>6, <3>7
  <2>12. QED
    BY <2>10, <2>11
<1>4. ASSUME NEW p \in Procs, Save(p)
      PROVE  /\ (\A q \in Procs : ~SavesTo(q, f)') => Covers(snapshot[f], f)'
             /\ \A q \in Procs : SavesTo(q, f)' =>
                  /\ Covers(loaded[q], f)'
                  /\ \A r \in Procs : SavesTo(r, f)' => r = q
  <2> DEFINE g == File(workspace[p])
  <2>1. /\ pc[p] = "traced" /\ pc' = [pc EXCEPT ![p] = "saved"]
        /\ UNCHANGED <<workspace, shared, loaded, events, stale>>
        /\ snapshot' = [snapshot EXCEPT ![g] = loaded[p]]
    BY <1>4 DEF Save
  <2>2. g \in Files /\ ~stale
    BY <2>1, FileType
  <2>3. \A q \in Procs \ {p} : SavesTo(q, f)' <=> SavesTo(q, f)
    BY <2>1 DEF SavesTo, File
  <2>4. ~SavesTo(p, f)' /\ SavesTo(p, g)
    BY <2>1 DEF SavesTo
  <2>5. \A q \in Procs : Covers(loaded[q], f) => Covers(loaded[q], f)'
    BY <2>1 DEF Covers, File
  <2>6. Covers(loaded[p], g) /\ \A q \in Procs : SavesTo(q, g) => q = p
    BY <2>2, <2>4 DEF Current
  <2>7. CASE f = g
    <3>1. snapshot'[f] = loaded[p]
      BY <2>1, <2>7
    <3>2. Covers(snapshot[f], f)'
      BY <2>1, <2>6, <2>7, <3>1 DEF Covers, File
    <3>3. QED
      BY <2>3, <2>4, <2>6, <2>7, <3>2
  <2>8. CASE f # g
    <3>1. snapshot'[f] = snapshot[f] /\ ~SavesTo(p, f)
      BY <2>1, <2>8 DEF SavesTo
    <3>2. Covers(snapshot[f], f) => Covers(snapshot[f], f)'
      BY <2>1, <3>1 DEF Covers, File
    <3>3. /\ (\A q \in Procs : ~SavesTo(q, f)) => Covers(snapshot[f], f)
          /\ \A q \in Procs : SavesTo(q, f) =>
               Covers(loaded[q], f) /\ \A r \in Procs : SavesTo(r, f) => r = q
      BY <2>2 DEF Current
    <3>4. QED
      BY <2>3, <2>4, <2>5, <3>1, <3>2, <3>3
  <2>9. QED
    BY <2>7, <2>8
<1>5. CASE UNCHANGED vars
  BY <1>1, <1>5 DEF vars
<1>6. QED
  BY <1>1, <1>2, <1>3, <1>4, <1>5 DEF Next

(* Every step leaves no workspace with the waiting run of another one.     *)
LEMMA WaitsHereStep == ASSUME CliInv, [Next]_vars PROVE WaitsHere'
<1> SUFFICES ASSUME ~shared' PROVE WaitsHere'
  BY DEF WaitsHere
<1>1. UNCHANGED started
  BY DEF Next, vars, Load, Acquire, Refuse, Start, NothingPending, Work, Save, Release, GoTo
<1>2. ~shared /\ UNCHANGED <<workspace, command, shared>>
  BY <1>1 DEF started
<1>3. /\ \A w \in Workspaces : StartedIn(snapshot[w].pending, w) /\ w \in Files /\ File(w) = w
      /\ \A p \in Procs : StartedIn(loaded[p].pending, workspace[p])
      /\ \A p \in Procs : workspace[p] \in Workspaces
  BY <1>2 DEF CliInv, Typed, WaitsHere, Files, File
<1>4. CASE UNCHANGED <<events, loaded, snapshot>>
  BY <1>2, <1>3, <1>4 DEF WaitsHere, StartedIn
<1>5. ASSUME NEW p \in Procs, Load(p) PROVE WaitsHere'
  <2>1. UNCHANGED <<events, snapshot>> /\ loaded' = [loaded EXCEPT ![p] = snapshot[workspace[p]]]
    BY <1>3, <1>5 DEF Load
  <2>2. \A q \in Procs : loaded'[q] = loaded[q] \/ loaded'[q] = snapshot[workspace[q]]
    BY <2>1 DEF CliInv, Typed
  <2>3. \A q \in Procs : StartedIn(loaded'[q].pending, workspace[q])
    BY <1>3, <2>2
  <2>4. QED
    BY <1>2, <1>3, <2>1, <2>3 DEF WaitsHere, StartedIn
<1>6. ASSUME NEW p \in Procs, Work(p) PROVE WaitsHere'
  <2>1. /\ DOMAIN events = 1..Len(events) /\ Len(events) \in Nat
        /\ DOMAIN events' = 1..(Len(events) + 1)
        /\ \A i \in DOMAIN events : events'[i] = events[i]
        /\ events'[Len(events) + 1] = Event(p)
        /\ \A q \in Procs \ {p} : loaded'[q] = loaded[q]
        /\ \/ loaded'[p].pending = 0
           \/ command[p] = "run" /\ loaded'[p].pending = Number(p)
    BY <1>6, WorkEffect
  <2>2. snapshot' = snapshot
    BY <1>6 DEF Work
  <2>3. \A n, w : StartedIn(n, w) => (n # 0 => \E i \in DOMAIN events' :
          events'[i].kind = "run" /\ events'[i].run = n /\ events'[i].at = w)
    BY <2>1 DEF StartedIn
  <2>4. ASSUME NEW w \in Workspaces PROVE StartedIn(snapshot[w].pending, w)'
    <3>1. StartedIn(snapshot[w].pending, w)
      BY <1>3
    <3>2. snapshot[w].pending # 0 => \E i \in DOMAIN events' :
            events'[i].kind = "run" /\ events'[i].run = snapshot[w].pending /\ events'[i].at = w
      BY <2>3, <3>1
    <3>3. QED
      BY <2>2, <3>2 DEF StartedIn
  <2>5. \A q \in Procs \ {p} : StartedIn(loaded[q].pending, workspace[q])'
    BY <1>2, <1>3, <2>1, <2>3 DEF StartedIn
  <2>6. StartedIn(loaded[p].pending, workspace[p])'
    <3>1. Event(p).kind = command[p] /\ Event(p).run = Number(p) /\ Event(p).at = workspace[p]
      BY DEF Event
    <3>2. Len(events) + 1 \in DOMAIN events'
      BY <2>1
    <3>3. QED
      BY <1>2, <2>1, <3>1, <3>2 DEF StartedIn
  <2>7. QED
    BY <2>4, <2>5, <2>6 DEF WaitsHere
<1>7. ASSUME NEW p \in Procs, Save(p) PROVE WaitsHere'
  <2>1. /\ UNCHANGED <<events, loaded>>
        /\ snapshot' = [snapshot EXCEPT ![workspace[p]] = loaded[p]]
    BY <1>3, <1>7 DEF Save
  <2>2. \A w \in Workspaces :
          snapshot'[w] = snapshot[w] \/ (w = workspace[p] /\ snapshot'[w] = loaded[p])
    BY <1>3, <2>1 DEF CliInv, Typed
  <2>3. \A w \in Workspaces : StartedIn(snapshot'[w].pending, w)
    BY <1>3, <2>2
  <2>4. QED
    BY <1>2, <1>3, <2>1, <2>3 DEF WaitsHere, StartedIn
<1>8. ASSUME NEW p \in Procs,
             Acquire(p) \/ Refuse(p) \/ Start(p) \/ NothingPending(p) \/ Release(p)
      PROVE  UNCHANGED <<events, loaded, snapshot>>
  BY <1>8 DEF Acquire, Refuse, Start, NothingPending, Release, store
<1>9. CASE UNCHANGED vars
  BY <1>4, <1>9 DEF vars, store
<1>10. QED
  BY <1>4, <1>5, <1>6, <1>7, <1>8, <1>9 DEF Next

(* What every step but Work leaves alone.                                  *)
LEMMA OnlyWorkAppends ==
    ASSUME [Next]_vars
    PROVE  \/ UNCHANGED <<events, stale, shared>>
           \/ shared' = shared /\ \E p \in Procs : Work(p)
  BY DEF Next, vars, store, started, GoTo,
         Load, Acquire, Refuse, Start, NothingPending, Work, Save, Release

(* Every step gives out numbers once, and ends a waiting run once, or one  *)
(* command worked on an outdated snapshot.                                 *)
LEMMA SecondTimeStep == ASSUME CliInv, [Next]_vars PROVE SecondTimeNeedsStaleLoad'
<1>1. CASE UNCHANGED <<events, stale, shared>>
  BY <1>1 DEF CliInv, SecondTimeNeedsStaleLoad, BothStart, BothEnd, File
<1>2. ASSUME NEW p \in Procs, Work(p), shared' = shared PROVE SecondTimeNeedsStaleLoad'
  <2> SUFFICES ASSUME ~stale' PROVE SecondTimeNeedsStaleLoad'
    BY DEF SecondTimeNeedsStaleLoad
  <2> DEFINE g == File(workspace[p])
  <2>1. ~stale /\ ~Outdated(p) /\ g \in Files /\ pc[p] = "working"
    BY <1>2, FileType DEF Work, CliInv, Typed
  <2>2. loaded[p] = snapshot[g] /\ \A q \in Procs : ~SavesTo(q, g)
    BY <2>1 DEF Outdated, SavesTo
  <2>3. Covers(loaded[p], g)
    BY <2>1, <2>2 DEF CliInv, Current
  <2>4. \A i \in DOMAIN events : File(events[i].at) = g =>
          /\ events[i].run = Number(p) => ~(events[i].kind = "run" /\ command[p] = "run")
          /\ events[i].run = Number(p) => ~(events[i].kind # "run" /\ command[p] # "run")
    BY <1>2, <2>3, WorkCovers
  <2>5. /\ DOMAIN events = 1..Len(events) /\ Len(events) \in Nat
        /\ DOMAIN events' = 1..(Len(events) + 1)
        /\ \A i \in DOMAIN events : events'[i] = events[i]
        /\ events'[Len(events) + 1] = Event(p)
    BY <1>2, WorkEffect
  <2>6. Event(p).kind = command[p] /\ Event(p).run = Number(p) /\ Event(p).at = workspace[p]
    BY DEF Event
  <2>7. SUFFICES ASSUME NEW j \in DOMAIN events', NEW i \in 1..(j - 1),
                        File(events'[i].at) = File(events'[j].at),
                        events'[i].run = events'[j].run,
                        BothStart(i, j)' \/ BothEnd(i, j)'
                 PROVE  FALSE
    BY <1>2 DEF SecondTimeNeedsStaleLoad, File
  <2>8. CASE j \in DOMAIN events
    <3>1. i \in DOMAIN events
      BY <2>5, <2>8
    <3>2. events'[i] = events[i] /\ events'[j] = events[j]
      BY <2>5, <2>8, <3>1
    <3>3. /\ File(events[i].at) = File(events[j].at)
          /\ events[i].run = events[j].run /\ (BothStart(i, j) \/ BothEnd(i, j))
      BY <2>7, <3>2 DEF BothStart, BothEnd
    <3>4. QED
      BY <2>1, <2>8, <3>3 DEF CliInv, SecondTimeNeedsStaleLoad
  <2>9. CASE j \notin DOMAIN events
    <3>1. j = Len(events) + 1 /\ events'[j] = Event(p)
      BY <2>5, <2>9
    <3>2. i \in DOMAIN events /\ events'[i] = events[i]
      BY <2>5, <3>1
    <3>3. /\ File(events[i].at) = g /\ events[i].run = Number(p)
          /\ \/ events[i].kind = "run" /\ command[p] = "run"
             \/ events[i].kind # "run" /\ command[p] # "run"
      BY <2>6, <2>7, <3>1, <3>2 DEF BothStart, BothEnd
    <3>4. QED
      BY <2>4, <3>2, <3>3
  <2>10. QED
    BY <2>8, <2>9
<1>3. QED
  BY <1>1, <1>2, OnlyWorkAppends

(* Every step ends only runs that were started in its workspace.           *)
LEMMA EndsStep == ASSUME CliInv, [Next]_vars PROVE EndsWhereItStarted'
<1>1. CASE UNCHANGED <<events, stale, shared>>
  BY <1>1 DEF CliInv, EndsWhereItStarted
<1>2. ASSUME NEW p \in Procs, Work(p), shared' = shared PROVE EndsWhereItStarted'
  <2>1. /\ DOMAIN events = 1..Len(events) /\ Len(events) \in Nat
        /\ DOMAIN events' = 1..(Len(events) + 1)
        /\ \A i \in DOMAIN events : events'[i] = events[i]
        /\ events'[Len(events) + 1] = Event(p)
    BY <1>2, WorkEffect
  <2>2. Event(p).kind = command[p] /\ Event(p).run = Number(p) /\ Event(p).at = workspace[p]
    BY DEF Event
  <2>3. SUFFICES ASSUME NEW j \in DOMAIN events', events'[j].kind # "run", ~shared
                 PROVE  \E i \in 1..(j - 1) :
                          /\ events'[i].kind = "run" /\ events'[i].run = events'[j].run
                          /\ events'[i].at = events'[j].at
    BY <1>2 DEF EndsWhereItStarted
  <2>4. CASE j \in DOMAIN events
    <3>1. PICK i \in 1..(j - 1) : /\ events[i].kind = "run" /\ events[i].run = events[j].run
                                  /\ events[i].at = events[j].at
      BY <2>1, <2>3, <2>4 DEF CliInv, EndsWhereItStarted
    <3>2. i \in DOMAIN events
      BY <2>1, <2>4
    <3>3. QED
      BY <2>1, <2>4, <3>1, <3>2
  <2>5. CASE j \notin DOMAIN events
    <3>1. j = Len(events) + 1 /\ events'[j] = Event(p)
      BY <2>1, <2>5
    <3>2. command[p] # "run" /\ Number(p) = loaded[p].pending /\ Number(p) # 0
      BY <1>2, <2>2, <2>3, <3>1 DEF Number, Work
    <3>3. PICK i \in DOMAIN events : /\ events[i].kind = "run" /\ events[i].run = Number(p)
                                     /\ events[i].at = workspace[p]
      BY <2>3, <3>2 DEF CliInv, WaitsHere, StartedIn
    <3>4. i \in 1..(j - 1) /\ events'[i] = events[i]
      BY <2>1, <3>1
    <3>5. QED
      BY <2>2, <3>1, <3>3, <3>4
  <2>6. QED
    BY <2>4, <2>5
<1>3. QED
  BY <1>1, <1>2, OnlyWorkAppends

(* The invariant holds in every reachable state.                           *)
LEMMA CliInvariant == Spec => []CliInv
<1>1. CliInv /\ [Next]_vars => CliInv'
  BY TypedStep, HoldsStep, AloneStep, CurrentStep, WaitsHereStep, SecondTimeStep, EndsStep
     DEF CliInv
<1>2. QED
  BY <1>1, CliInit, PTL DEF Spec

(* docs/RUNBOOK.md:130, for every number of processes and workspaces: from *)
(* its event to its save a command is alone in its workspace.              *)
THEOREM CommitsAreSerialHolds == Spec => []CommitsAreSerial
<1>1. CliInv => CommitsAreSerial
  <2> SUFFICES ASSUME CliInv, NEW p \in Procs, pc[p] = "traced"
               PROVE  /\ IsLast(p)
                      /\ \A q \in Procs \ {p} : workspace[q] = workspace[p] => pc[q] \notin Busy
    BY DEF CommitsAreSerial, IsLast
  <2>1. IsLast(p)
    BY DEF CliInv, Alone
  <2>2. owner[workspace[p]] = p
    BY DEF CliInv, Holds, Busy
  <2>3. QED
    BY <2>1, <2>2 DEF CliInv, Holds
<1>2. QED
  BY <1>1, CliInvariant, PTL

(* docs/RUNBOOK.md:66-67, for every number of processes and workspaces: a  *)
(* number given out twice, or a waiting run ended twice, comes from a      *)
(* command that worked on an outdated snapshot and from nothing else.      *)
THEOREM SecondTimeNeedsStaleLoadHolds == Spec => []SecondTimeNeedsStaleLoad
<1>1. CliInv => SecondTimeNeedsStaleLoad
  BY DEF CliInv
<1>2. QED
  BY <1>1, CliInvariant, PTL

(* README.md:63, for every number of processes and workspaces: with state  *)
(* paths of their own, a workspace ends only runs that it started.         *)
THEOREM EndsWhereItStartedHolds == Spec => []EndsWhereItStarted
<1>1. CliInv => EndsWhereItStarted
  BY DEF CliInv
<1>2. QED
  BY <1>1, CliInvariant, PTL

(* A step of a command is a step of the lock of its workspace, and no step *)
(* of any other lock.                                                      *)
LEMMA LockStep ==
    ASSUME CliInv, [Next]_vars, NEW w \in Workspaces
    PROVE  LockOf(w)!SWNext \/ UNCHANGED LockOf(w)!swVars
<1> DEFINE in(p) == workspace[p] = w /\ pc[p] \in Busy
<1> USE DEF CliInv, Typed, Busy, GoTo, started
<1>1. CASE UNCHANGED owner /\ UNCHANGED workspace
           /\ \A p \in Procs : pc'[p] \in Busy <=> pc[p] \in Busy
  BY <1>1 DEF LockOf!swVars
<1>2. ASSUME NEW p \in Procs, Load(p) \/ Refuse(p) \/ Work(p) \/ Save(p)
      PROVE  UNCHANGED owner /\ UNCHANGED workspace
             /\ \A q \in Procs : pc'[q] \in Busy <=> pc[q] \in Busy
  BY <1>2 DEF Load, Refuse, Work, Save
<1>3. ASSUME NEW p \in Procs, Acquire(p)
      PROVE  LockOf(w)!SWNext \/ UNCHANGED LockOf(w)!swVars
  <2>1. /\ UNCHANGED workspace /\ \A q \in Procs : pc'[q] \in Busy <=> pc[q] \in Busy
        /\ owner[workspace[p]] = NoOwner
        /\ owner' = [owner EXCEPT ![workspace[p]] = p]
    BY <1>3 DEF Acquire
  <2>2. {q \in Procs : workspace[q] = w /\ pc[q] \in Busy}'
          = {q \in Procs : workspace[q] = w /\ pc[q] \in Busy}
    BY <2>1
  <2>3. CASE workspace[p] = w
    <3>1. LockOf(w)!Reserve(p)
      BY <2>1, <2>2, <2>3 DEF LockOf!Reserve
    <3>2. QED
      BY <3>1 DEF LockOf!SWNext
  <2>4. CASE workspace[p] # w
    BY <2>1, <2>2, <2>4 DEF LockOf!swVars
  <2>5. QED
    BY <2>3, <2>4
<1>4. ASSUME NEW p \in Procs, Start(p)
      PROVE  LockOf(w)!SWNext \/ UNCHANGED LockOf(w)!swVars
  <2>1. /\ UNCHANGED <<workspace, owner>>
        /\ pc[p] = "reserved" /\ pc' = [pc EXCEPT ![p] = "working"]
    BY <1>4 DEF Start
  <2>2. CASE workspace[p] = w
    <3>1. owner[w] = p
      BY <2>1, <2>2 DEF Holds
    <3>2. {q \in Procs : workspace[q] = w /\ pc[q] \in Busy} = {}
      BY <2>1, <2>2, <3>1 DEF Holds
    <3>3. {q \in Procs : workspace[q] = w /\ pc[q] \in Busy}' = {p}
      BY <2>1, <2>2, <3>2
    <3>4. LockOf(w)!Enter(p)
      BY <2>1, <3>1, <3>2, <3>3 DEF LockOf!Enter
    <3>5. QED
      BY <3>4 DEF LockOf!SWNext
  <2>3. CASE workspace[p] # w
    <3>1. {q \in Procs : workspace[q] = w /\ pc[q] \in Busy}'
            = {q \in Procs : workspace[q] = w /\ pc[q] \in Busy}
      BY <2>1, <2>3
    <3>2. QED
      BY <2>1, <3>1 DEF LockOf!swVars
  <2>4. QED
    BY <2>2, <2>3
<1>5. ASSUME NEW p \in Procs, NothingPending(p) \/ Release(p)
      PROVE  LockOf(w)!SWNext \/ UNCHANGED LockOf(w)!swVars
  <2>1. /\ UNCHANGED workspace /\ owner' = [owner EXCEPT ![workspace[p]] = NoOwner]
        /\ pc[p] \in Busy /\ pc' = [pc EXCEPT ![p] = "done"]
    BY <1>5 DEF NothingPending, Release, Unlock
  <2>2. CASE workspace[p] = w
    <3>1. owner[w] = p /\ owner'[w] = NoOwner
      BY <2>1, <2>2 DEF Holds
    <3>2. {q \in Procs : workspace[q] = w /\ pc[q] \in Busy} = {p}
      BY <2>1, <2>2, <3>1 DEF Holds
    <3>3. {q \in Procs : workspace[q] = w /\ pc[q] \in Busy}' = {}
      BY <2>1, <2>2, <3>2
    <3>4. LockOf(w)!Leave(p)
      BY <3>1, <3>2, <3>3 DEF LockOf!Leave
    <3>5. QED
      BY <3>4 DEF LockOf!SWNext
  <2>3. CASE workspace[p] # w
    <3>1. {q \in Procs : workspace[q] = w /\ pc[q] \in Busy}'
            = {q \in Procs : workspace[q] = w /\ pc[q] \in Busy}
      BY <2>1, <2>3
    <3>2. QED
      BY <2>1, <2>3, <3>1 DEF LockOf!swVars
  <2>4. QED
    BY <2>2, <2>3
<1>6. CASE UNCHANGED vars
  BY <1>1, <1>6 DEF vars
<1>7. QED
  BY <1>1, <1>2, <1>3, <1>4, <1>5, <1>6 DEF Next

(* docs/RUNBOOK.md:130, for every number of processes and workspaces: the  *)
(* commands use the lock of each workspace as the single-writer lock that  *)
(* WorkspaceLock implements.                                               *)
THEOREM EveryWorkspaceHasItsLockHolds == Spec => EveryWorkspaceHasItsLock
<1>1. ASSUME Init PROVE \A w \in Workspaces : LockOf(w)!SWInit
  <2>1. ASSUME NEW w \in Workspaces PROVE LockOf(w)!SWInit
    <3>1. owner[w] = NoOwner /\ {p \in Procs : workspace[p] = w /\ pc[p] \in Busy} = {}
      BY <1>1 DEF Init, Busy
    <3>2. QED
      BY <3>1 DEF LockOf!SWInit
  <2>2. QED
    BY <2>1
<1>2. CliInv /\ [Next]_vars
        => [\A w \in Workspaces : LockOf(w)!SWNext \/ UNCHANGED LockOf(w)!swVars]_vars
  BY LockStep
<1>3. QED
  BY <1>1, <1>2, CliInvariant, PTL DEF Spec, EveryWorkspaceHasItsLock
=============================================================================
