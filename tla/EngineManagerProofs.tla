------------------------ MODULE EngineManagerProofs ------------------------
(***************************************************************************)
(* TLAPS proofs about the latch and the handle of the engine manager, for  *)
(* any number of overlapping calls, processes and events.                  *)
(***************************************************************************)
EXTENDS EngineManager, TLAPS

Types ==
    /\ handle \in Children \cup {NoEngine}
    /\ pc \in [Callers -> {"idle", "start", "poll", "nap", "stop", "post", "retire"}]
    /\ at \in [Children -> Places] /\ at[NoProcess] = "lost"
    /\ orphans \subseteq Engines

\* A process that is gone is nobody's orphan.
OrphansThere == \A k \in orphans : at[k] \notin Absent

\* A call that has passed the latch holds it, until somebody clears it.
HolderLatched == ~overtaken => \A c \in Callers : pc[c] = "start" => starting

Inv == Types /\ OrphansThere /\ LatchOwned /\ HolderLatched /\ SingleSpawn

USE DEF Children, Places, Absent

\* No process is the one that never was.
LEMMA Distinct == NoEngine \notin Engines /\ NoProcess \notin Engines /\ NoEngine \notin Children
BY EngineAssumption

-----------------------------------------------------------------------------

LEMMA InitInv == Init => Inv
<1> SUFFICES ASSUME Init PROVE Inv
  OBVIOUS
<1>1. Live = {}
  BY DEF Init, Live, Holding
<1> QED
  BY <1>1, Distinct DEF Init, Inv, Types, OrphansThere, LatchOwned, HolderLatched, SingleSpawn

\* A step of a caller c that spawns nothing and ends nothing: it leaves the processes
\* alone, and it keeps the latch, clears it, or goes on being under way.
LEMMA CallerStep ==
    ASSUME Inv, NEW c \in Callers, NEW to \in {"idle", "poll", "nap", "stop", "post", "retire"},
           pc' = [pc EXCEPT ![c] = to],
           UNCHANGED <<handle, at, orphans>>, told \subseteq told',
           \/ Clear(c)
           \/ UNCHANGED <<starting, overtaken>> /\ (c \in Launching => to \in {"poll", "nap"})
           \/ UNCHANGED <<starting, overtaken>> /\ handle # NoEngine
    PROVE  Inv'
<1>1. /\ pc' \in [Callers -> {"idle", "start", "poll", "nap", "stop", "post", "retire"}]
      /\ pc'[c] = to /\ \A d \in Callers \ {c} : pc'[d] = pc[d]
  BY DEF Inv, Types
<1>2. Types' /\ OrphansThere' /\ Live' = Live
  BY <1>1 DEF Inv, Types, OrphansThere, Live, Holding
<1>3. LatchOwned'
  <2>1. CASE Clear(c)
    BY <2>1 DEF Clear, Inv, LatchOwned
  <2>2. CASE UNCHANGED <<starting, overtaken>> /\ (c \in Launching => to \in {"poll", "nap"})
    <3>1. ASSUME NEW d \in Launching PROVE d \in Launching'
      BY <1>1, <2>2, <3>1 DEF Launching
    <3> QED
      BY <2>2, <3>1 DEF Inv, LatchOwned
  <2>3. CASE UNCHANGED <<starting, overtaken>> /\ handle # NoEngine
    BY <2>3 DEF Inv, Types, LatchOwned
  <2> QED
    BY <2>1, <2>2, <2>3
<1>4. HolderLatched'
  <2>1. CASE Clear(c)
    BY <1>1, <2>1 DEF Clear, HolderLatched
  <2>2. CASE UNCHANGED <<starting, overtaken>>
    BY <1>1, <2>2 DEF Inv, HolderLatched
  <2> QED
    BY <2>1, <2>2
<1>5. SingleSpawn'
  BY <1>2 DEF Clear, Inv, SingleSpawn
<1> QED
  BY <1>2, <1>3, <1>4, <1>5 DEF Inv

\* A process k goes from one place to another, neither of them absence.
LEMMA ProcessStep ==
    ASSUME Inv, NEW k \in Engines, NEW to \in {"up", "closing", "dead", "killed"},
           at[k] \notin Absent, to \in {"dead", "killed"} \/ k \in Live, Becomes(k, to)
    PROVE  Inv'
<1>1. /\ at' \in [Children -> Places]
      /\ at'[k] = to /\ \A j \in Children \ {k} : at'[j] = at[j]
  BY DEF Inv, Types, Becomes
<1>2. Live' \subseteq Live
  BY <1>1 DEF Live, Holding
<1>3. Types' /\ OrphansThere'
  BY <1>1 DEF Inv, Types, OrphansThere, Becomes
<1>4. LatchOwned'
  BY <1>1 DEF Inv, Types, LatchOwned, Becomes, Launching
<1> QED
  BY <1>2, <1>3, <1>4 DEF Inv, HolderLatched, SingleSpawn, Becomes

-----------------------------------------------------------------------------

LEMMA StartInv ==
    ASSUME Inv, NEW c \in Callers, Start(c)
    PROVE  Inv'
<1>1. /\ pc' \in [Callers -> {"idle", "start", "poll", "nap", "stop", "post", "retire"}]
      /\ pc'[c] = "start"
  BY DEF Inv, Types, Start, Await
<1>2. Types' /\ OrphansThere' /\ Live' = Live
  BY <1>1 DEF Inv, Types, OrphansThere, Start, Live
<1>3. LatchOwned'
  BY <1>1 DEF Inv, LatchOwned, Start, Launching
<1> QED
  BY <1>2, <1>3 DEF Inv, HolderLatched, SingleSpawn, Start

\* While the latch was not cleared under its holder, nothing is held when it spawns.
LEMMA SpawnInv ==
    ASSUME Inv, NEW c \in Callers, Spawn(c)
    PROVE  Inv'
<1>1. CASE Return(c) /\ Clear(c) /\ UNCHANGED <<handle, at>>
  BY <1>1, CallerStep DEF Spawn, Return, Await
<1>2. CASE Free # {} /\ at' = [at EXCEPT ![NewEngine] = "booting"] /\ Polls(c, NewEngine)
  <2>1. PICK k \in Free : k = NewEngine
    BY <1>2 DEF NewEngine
  <2>2. k \in Engines /\ at[k] \in Absent /\ k # NoEngine
    BY <2>1, EngineAssumption DEF Free
  <2>3. /\ at' \in [Children -> Places]
        /\ at'[k] = "booting" /\ \A j \in Children \ {k} : at'[j] = at[j]
    BY <1>2, <2>1, <2>2 DEF Inv, Types
  <2>4. /\ pc' \in [Callers -> {"idle", "start", "poll", "nap", "stop", "post", "retire"}]
        /\ pc'[c] = "nap" /\ \A d \in Callers \ {c} : pc'[d] = pc[d]
    BY <1>2 DEF Inv, Types, Await, Polls
  <2>5. Types' /\ OrphansThere'
    <3>1. at'[NoProcess] = "lost"
      BY <2>2, <2>3, Distinct DEF Inv, Types
    <3>2. handle' = k /\ orphans' = orphans
      BY <1>2, <2>1 DEF Spawn, Polls
    <3> QED
      BY <2>2, <2>3, <2>4, <3>1, <3>2 DEF Inv, Types, OrphansThere
  <2>6. LatchOwned'
    BY <1>2, <2>1, <2>2, <2>3 DEF Inv, OrphansThere, LatchOwned, Spawn, Polls
  <2>7. HolderLatched'
    BY <1>2, <2>4 DEF Inv, HolderLatched, Unlatched, Polls
  <2>8. SingleSpawn'
    <3>1. SUFFICES ASSUME ~overtaken PROVE (Live \ (told \cup orphans))' \subseteq {k}
      BY <1>2, <2>1 DEF SingleSpawn, Unlatched, Polls
    <3>2. starting /\ handle = NoEngine
      BY <3>1 DEF Inv, HolderLatched, Spawn, Stopped, Unanswered
    <3>3. Live \ (told \cup orphans) = {}
      BY <3>1, <3>2, EngineAssumption DEF Inv, SingleSpawn, Live
    <3>4. Live' \subseteq Live \cup {k}
      BY <2>3 DEF Live, Holding
    <3> QED
      BY <3>3, <3>4 DEF Spawn
  <2> QED
    BY <2>5, <2>6, <2>7, <2>8 DEF Inv
<1>3. CASE Polls(c, NoProcess) /\ UNCHANGED at
  <2>1. /\ pc' \in [Callers -> {"idle", "start", "poll", "nap", "stop", "post", "retire"}]
        /\ pc'[c] = "nap" /\ \A d \in Callers \ {c} : pc'[d] = pc[d]
    BY <1>3 DEF Inv, Types, Await, Polls
  <2>2. /\ handle' = NoProcess /\ Live' = Live
        /\ UNCHANGED <<starting, overtaken, told, orphans>>
    BY <1>3 DEF Polls, Unlatched, Spawn, Live
  <2>3. Types' /\ OrphansThere'
    BY <1>3, <2>1, <2>2 DEF Inv, Types, OrphansThere
  <2>4. LatchOwned'
    BY <2>2, Distinct DEF LatchOwned
  <2>5. HolderLatched'
    BY <2>1, <2>2 DEF Inv, HolderLatched
  <2>6. SingleSpawn'
    <3>1. ~overtaken => starting /\ handle = NoEngine
      BY DEF Inv, HolderLatched, Spawn, Stopped, Unanswered
    <3>2. ~overtaken => Live \ (told \cup orphans) = {}
      BY <3>1, Distinct DEF Inv, SingleSpawn, Live
    <3> QED
      BY <2>2, <3>2 DEF SingleSpawn
  <2> QED
    BY <2>3, <2>4, <2>5, <2>6 DEF Inv
<1> QED
  BY <1>1, <1>2, <1>3 DEF Spawn

LEMMA StopInv ==
    ASSUME Inv, NEW c \in Callers, Stop(c)
    PROVE  Inv'
<1>1. Types' /\ OrphansThere' /\ Live' = Live
  BY DEF Inv, Types, OrphansThere, Stop, Live
<1>2. LatchOwned'
  BY Distinct DEF LatchOwned, Stop, Clear
<1>3. HolderLatched'
  BY DEF HolderLatched, Stop, Clear
<1>4. SingleSpawn'
  BY <1>1 DEF Inv, SingleSpawn, Stop, Clear, Live
<1> QED
  BY <1>1, <1>2, <1>3, <1>4 DEF Inv

LEMMA ExitInv ==
    ASSUME Inv, NEW k \in Engines, Exit(k)
    PROVE  Inv'
<1>1. /\ at' \in [Children -> Places]
      /\ at[k] \in {"dead", "killed"} /\ at'[k] \in Absent /\ \A j \in Children \ {k} : at'[j] = at[j]
  BY DEF Inv, Types, Exit, Gone
<1>2. Types' /\ OrphansThere'
  BY <1>1 DEF Inv, Types, OrphansThere, Exit, Gone
<1>3. Live' = Live /\ k \notin Live
  BY <1>1 DEF Live, Holding
<1>4. CASE k \in orphans
  BY <1>1, <1>2, <1>3, <1>4
     DEF Inv, Types, LatchOwned, HolderLatched, SingleSpawn, Exit, Gone, Unlatched, Launching
<1>5. CASE k \notin orphans
  <2>1. LatchOwned'
    BY <1>1, <1>5, Distinct DEF Inv, Types, LatchOwned, Exit, Gone, Clear
  <2>2. HolderLatched'
    BY <1>5, EngineAssumption DEF HolderLatched, Exit, Clear
  <2>3. SingleSpawn'
    <3>1. ~overtaken' => ~overtaken
      BY <1>5 DEF Exit, Clear
    <3>2. (Live \ (told \cup orphans))' = Live \ (told \cup orphans)
      BY <1>3 DEF Exit, Gone
    <3>3. Live \ (told \cup orphans) \subseteq {handle} => Live \ (told \cup orphans) \subseteq {handle'}
      BY <1>3, <1>5 DEF Exit
    <3> QED
      BY <3>1, <3>2, <3>3 DEF Inv, SingleSpawn
  <2> QED
    BY <1>2, <2>1, <2>2, <2>3 DEF Inv
<1> QED
  BY <1>4, <1>5

LEMMA QuitInv ==
    ASSUME Inv, Quit
    PROVE  Inv'
<1>1. Types' /\ OrphansThere' /\ LatchOwned' /\ HolderLatched'
  BY Distinct DEF Inv, Types, OrphansThere, LatchOwned, HolderLatched, Quit
<1>2. SingleSpawn'
  BY DEF SingleSpawn, Quit, Live, Holding
<1> QED
  BY <1>1, <1>2 DEF Inv

LEMMA CallInv ==
    ASSUME Inv, NEW c \in Callers, Call(c) \/ Deadline(c) \/ Press(c)
    PROVE  Inv'
<1>0. c \in Launching <=> pc[c] \in {"start", "poll", "nap"}
  BY DEF Launching
<1>1. CASE Probe(c)
  <2>1. CASE UNCHANGED pc
    BY <1>1, <2>1 DEF Probe, Inv, Types, OrphansThere, LatchOwned, HolderLatched, SingleSpawn,
                      Launching, Live, Holding
  <2>2. CASE pc[c] = "nap" /\ pc' = [pc EXCEPT ![c] = "poll"]
    BY <1>1, <2>2, CallerStep DEF Probe
  <2> QED
    BY <1>1, <2>1, <2>2 DEF Probe
<1>2. CASE AlreadyThere(c)
  <2>1. CASE Clear(c)
    BY <1>2, <2>1, CallerStep DEF AlreadyThere, Return, Await
  <2>2. CASE heard[c] = "silence" /\ ~Stopped(c) /\ Unlatched
    <3>1. handle # NoEngine
      BY <2>2 DEF Stopped, Unanswered
    <3> QED
      BY <1>2, <2>2, <3>1, CallerStep DEF AlreadyThere, Return, Await, Unlatched
  <2> QED
    BY <1>2, <2>1, <2>2 DEF AlreadyThere
<1>3. CASE Spawn(c)
  BY <1>3, SpawnInv
<1>4. CASE Polled(c)
  <2>1. CASE Clear(c) /\ Return(c)
    BY <1>4, <2>1, CallerStep DEF Polled, Return, Await
  <2>2. CASE Await(c, "nap") /\ Unlatched
    BY <1>4, <2>2, CallerStep DEF Polled, Await, Unlatched
  <2> QED
    BY <1>4, <2>1, <2>2 DEF Polled
<1>5. CASE ChildExit(c)
  BY <1>5, CallerStep DEF ChildExit, Return, Await
<1>6. CASE Deadline(c)
  <2>1. CASE Clear(c)
    BY <1>6, <2>1, CallerStep DEF Deadline, Return, Await
  <2>2. CASE pc[c] = "retire" /\ Unlatched
    BY <1>0, <1>6, <2>2, CallerStep DEF Deadline, Return, Await, Unlatched
  <2> QED
    BY <1>6, <2>1, <2>2 DEF Deadline
<1>7. CASE Start(c)
  BY <1>7, StartInv
<1>8. CASE Stop(c)
  BY <1>8, StopInv
<1>9. CASE StopUnmanaged(c)
  BY <1>0, <1>9, CallerStep DEF StopUnmanaged, Await
<1>10. CASE Retire(c)
  BY <1>0, <1>10, CallerStep DEF Retire, Return, Await
<1>11. CASE Post(c)
  BY <1>0, <1>11, CallerStep DEF Post, Await
<1>12. CASE Retired(c)
  BY <1>0, <1>12, CallerStep DEF Retired, Return, Await
<1> QED
  BY <1>1, <1>2, <1>3, <1>4, <1>5, <1>6, <1>7, <1>8, <1>9, <1>10, <1>11, <1>12 DEF Call, Press

LEMMA NextInv ==
    ASSUME Inv, [Next]_vars
    PROVE  Inv'
<1>1. ASSUME NEW c \in Callers, Call(c) \/ Deadline(c) \/ Press(c) PROVE Inv'
  BY <1>1, CallInv
<1>2. ASSUME NEW k \in Engines, Boot(k) \/ Ends(k) \/ Crash(k) PROVE Inv'
  <2>1. at[k] \in {"booting", "up"} => at[k] # "gone" /\ k \in Live
    BY DEF Live, Holding
  <2>2. CASE Boot(k)
    BY <2>1, <2>2, ProcessStep DEF Boot
  <2>3. CASE Ends(k)
    BY <2>1, <2>3, ProcessStep DEF Ends
  <2>4. CASE Crash(k)
    BY <2>1, <2>4, ProcessStep DEF Crash
  <2> QED
    BY <1>2, <2>2, <2>3, <2>4
<1>3. ASSUME NEW k \in Engines, Exit(k) PROVE Inv'
  BY <1>3, ExitInv
<1>4. CASE ChangeMind
  BY <1>4 DEF ChangeMind, manager, Inv, Types, OrphansThere, LatchOwned, HolderLatched,
              SingleSpawn, Launching, Live, Holding
<1>5. CASE Quit
  BY <1>5, QuitInv
<1>6. CASE UNCHANGED vars
  BY <1>6 DEF vars, Inv, Types, OrphansThere, LatchOwned, HolderLatched, SingleSpawn,
              Launching, Live, Holding
<1> QED
  BY <1>1, <1>2, <1>3, <1>4, <1>5, <1>6 DEF Next, Process

-----------------------------------------------------------------------------
(* Types.                                                                   *)

LEMMA InitTypes == Init => TypeOK
<1> SUFFICES ASSUME Init PROVE TypeOK
  OBVIOUS
<1>1. events \in 0..MaxEvents
  BY EngineAssumption DEF Init
<1>2. \A c \in Callers : child[c] # NoEngine <=> pc[c] \in {"poll", "nap"}
  BY DEF Init
<1> QED
  BY <1>1, <1>2 DEF Init, TypeOK

LEMMA ManagerTypes ==
    ASSUME TypeOK, NEW c \in Callers, Call(c) \/ Deadline(c) \/ Press(c)
    PROVE  TypeOK'
<1>1. NoEngine \notin Children
  BY Distinct
<1>2. Event => events' \in 0..MaxEvents
  BY EngineAssumption DEF TypeOK, Event
<1>3. CASE Probe(c)
  <2>1. events' \in 0..MaxEvents /\ heard' \in [Callers -> {"nothing", "answer", "silence"}]
    BY <1>2, <1>3 DEF TypeOK, Probe
  <2> QED
    BY <1>3, <2>1 DEF TypeOK, Probe
<1>4. CASE AlreadyThere(c)
  BY <1>1, <1>4 DEF TypeOK, AlreadyThere, Clear, Unlatched, Return, Await
<1>5. CASE Spawn(c)
  <2>1. CASE /\ Free # {} /\ at' = [at EXCEPT ![NewEngine] = "booting"]
             /\ Polls(c, NewEngine) /\ UNCHANGED events
    <3>1. NewEngine \in Engines
      BY <2>1 DEF NewEngine, Free
    <3> QED
      BY <1>1, <1>5, <2>1, <3>1, Distinct DEF TypeOK, Spawn, Polls, Unlatched, Await
  <2>2. CASE Return(c) /\ Clear(c) /\ Event /\ UNCHANGED <<handle, at>>
    BY <1>1, <1>2, <1>5, <2>2 DEF TypeOK, Spawn, Clear, Return, Await
  <2>3. CASE Polls(c, NoProcess) /\ Event /\ UNCHANGED at
    BY <1>2, <1>5, <2>3, Distinct DEF TypeOK, Spawn, Polls, Unlatched, Await
  <2> QED
    BY <1>5, <2>1, <2>2, <2>3 DEF Spawn
<1>6. CASE Polled(c)
  BY <1>1, <1>6 DEF TypeOK, Polled, Clear, Unlatched, Return, Await
<1>7. CASE ChildExit(c)
  BY <1>1, <1>7 DEF TypeOK, ChildExit, Clear, Return, Await
<1>8. CASE Deadline(c)
  BY <1>1, <1>8 DEF TypeOK, Deadline, Clear, Unlatched, Return, Await
<1>9. CASE Start(c)
  BY <1>9 DEF TypeOK, Start, Await
<1>10. CASE Stop(c) \/ StopUnmanaged(c)
  BY <1>10 DEF TypeOK, Stop, StopUnmanaged, Clear, Await
<1>11. CASE Retire(c)
  BY <1>1, <1>11 DEF TypeOK, Retire, Return, Await
<1>12. CASE Post(c)
  BY <1>12 DEF TypeOK, Post, Await
<1>13. CASE Retired(c)
  BY <1>1, <1>13 DEF TypeOK, Retired, Return, Await
<1> QED
  BY <1>3, <1>4, <1>5, <1>6, <1>7, <1>8, <1>9, <1>10, <1>11, <1>12, <1>13 DEF Call, Press

LEMMA NextTypes ==
    ASSUME TypeOK, [Next]_vars
    PROVE  TypeOK'
<1>1. ASSUME NEW c \in Callers, Call(c) \/ Deadline(c) \/ Press(c) PROVE TypeOK'
  BY <1>1, ManagerTypes
<1>2. Event => events' \in 0..MaxEvents
  BY EngineAssumption DEF TypeOK, Event
<1>3. ASSUME NEW k \in Engines, Boot(k) \/ Ends(k) PROVE TypeOK'
  BY <1>3 DEF TypeOK, Boot, Ends, Becomes
<1>4. ASSUME NEW k \in Engines, Crash(k) PROVE TypeOK'
  BY <1>2, <1>4 DEF TypeOK, Crash, Becomes
<1>5. ASSUME NEW k \in Engines, Exit(k) PROVE TypeOK'
  BY <1>5 DEF TypeOK, Exit, Gone, Clear, Unlatched
<1>6. CASE ChangeMind
  BY <1>2, <1>6 DEF TypeOK, ChangeMind, manager
<1>7. CASE Quit
  BY <1>2, <1>7 DEF TypeOK, Quit
<1>8. CASE UNCHANGED vars
  BY <1>8 DEF TypeOK, vars
<1> QED
  BY <1>1, <1>3, <1>4, <1>5, <1>6, <1>7, <1>8 DEF Next, Process

-----------------------------------------------------------------------------

\* Every reachable state is well formed; a call polls for a process exactly while it has one.
THEOREM TypesHold == Spec => []TypeOK
BY InitTypes, NextTypes, PTL DEF Spec

\* However calls overlap, processes end and apps quit: a handle that names a process names
\* one of this app whose exit is still to be handled; and a latch that is held has a start()
\* under way or a handle behind it, of such a process or of a spawn that failed behind its
\* return.
THEOREM LatchIsOwned == Spec => []LatchOwned
<1>1. Inv => LatchOwned
  BY DEF Inv
<1> QED
  BY <1>1, InitInv, NextInv, PTL DEF Spec

\* As long as nobody cleared the latch under the start() that holds it, every process
\* that runs and was not told to end is the child that the manager holds.
THEOREM OneSpawn == Spec => []SingleSpawn
<1>1. Inv => SingleSpawn
  BY DEF Inv
<1> QED
  BY <1>1, InitInv, NextInv, PTL DEF Spec

=============================================================================
