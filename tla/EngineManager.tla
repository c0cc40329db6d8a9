--------------------------- MODULE EngineManager ---------------------------
(***************************************************************************)
(* How the desktop app runs the https filter's engine                      *)
(* (packages/electron-app/src/filterProxyManager.ts): start() and stop()   *)
(* calls that overlap, the latch and the handle they share, the processes  *)
(* spawned (packages/https-filter/src/main.ts), and an app that quits and  *)
(* is started again.                                                       *)
(*                                                                         *)
(* A call runs from await to await.  What it awaits is a probe of the      *)
(* control port: the answer is fixed in one step and the call goes on in   *)
(* a later one.  No capture service is installed.                          *)
(***************************************************************************)
EXTENDS Naturals

CONSTANTS
    Callers,    \* calls of the manager that may overlap
    Engines,    \* bound: processes that exist at one time
    NoEngine,
    NoProcess,  \* what a spawn() that fails behind its return leaves: a child of no process
    MaxEvents   \* bound: changes of mind, crashes, slow probes, quits, failed spawns

ASSUME EngineAssumption ==
    /\ NoEngine \notin Engines \cup Callers /\ NoProcess \notin Engines \cup {NoEngine}
    /\ MaxEvents \in Nat

VARIABLES
    starting,   \* the latch
    handle,     \* childProcess
    pc,         \* caller -> what it awaits
    heard,      \* caller -> what its probe said
    child,      \* caller -> the process its start() polls for
    at,         \* child -> where its process is
    told,       \* processes told to end: SIGTERM, or the shutdown route
    orphans,    \* processes whose app has quit
    wants,      \* what the user presses for: a running engine, or none
    overtaken,  \* history: the latch was cleared under a call that held it
    events      \* events so far, of MaxEvents

manager == <<starting, handle, pc, heard, child, overtaken>>
vars == <<starting, handle, pc, heard, child, at, told, orphans, wants, overtaken, events>>

Event == events < MaxEvents /\ events' = events + 1

Children == Engines \cup {NoProcess}

\* "lost" is gone as well, but without an exit code: of a signal.
Places == {"gone", "lost", "booting", "up", "closing", "dead", "killed"}
Absent == {"gone", "lost"}
Holding == {"up", "closing"}
Live == {k \in Engines : at[k] \in {"booting"} \cup Holding}
\* Both listeners are bound, the control port last, and it closes first.
Answering == \E k \in Engines : at[k] = "up"

Launching == {c \in Callers : pc[c] \in {"start", "poll", "nap"}}

TypeOK ==
    /\ starting \in BOOLEAN /\ handle \in Children \cup {NoEngine}
    /\ pc \in [Callers -> {"idle", "start", "poll", "nap", "stop", "post", "retire"}]
    /\ heard \in [Callers -> {"nothing", "answer", "silence"}]
    /\ child \in [Callers -> Children \cup {NoEngine}]
    /\ \A c \in Callers : child[c] # NoEngine <=> pc[c] \in {"poll", "nap"}
    /\ at \in [Children -> Places] /\ at[NoProcess] = "lost"
    /\ told \in SUBSET Engines /\ orphans \in SUBSET Engines
    /\ wants \in BOOLEAN /\ overtaken \in BOOLEAN
    /\ events \in 0..MaxEvents

Init ==
    /\ starting = FALSE /\ handle = NoEngine
    /\ pc = [c \in Callers |-> "idle"] /\ heard = [c \in Callers |-> "nothing"]
    /\ child = [c \in Callers |-> NoEngine]
    /\ at = [k \in Children |-> IF k = NoProcess THEN "lost" ELSE "gone"]
    /\ told = {} /\ orphans = {} /\ wants \in BOOLEAN /\ overtaken = FALSE
    /\ events = 0

-----------------------------------------------------------------------------
(* start() and stop().                                                      *)

Await(c, what) ==
    /\ pc' = [pc EXCEPT ![c] = what]
    /\ heard' = [heard EXCEPT ![c] = "nothing"]

Return(c) ==
    /\ Await(c, "idle")
    /\ child' = [child EXCEPT ![c] = NoEngine]

\* The latch is cleared; by is the caller that does it, or none.
Clear(by) ==
    /\ starting' = FALSE
    /\ overtaken' = (overtaken \/ \E c \in Callers \ {by} : pc[c] = "start")

Unlatched == UNCHANGED <<starting, overtaken>>

\* getStatus() of c: the answer, or none within 1500 ms.  A poll of start() begins
\* with a look for the child's exit code.
Probe(c) ==
    /\ heard[c] = "nothing"
    /\ \/ pc[c] \in {"start", "stop", "retire"} /\ UNCHANGED pc
       \/ /\ pc[c] = "nap" /\ at[child[c]] # "gone"
          /\ pc' = [pc EXCEPT ![c] = "poll"]
    /\ \/ /\ heard' = [heard EXCEPT ![c] = IF Answering THEN "answer" ELSE "silence"]
          /\ UNCHANGED events
       \/ Answering /\ heard' = [heard EXCEPT ![c] = "silence"] /\ Event
    /\ UNCHANGED <<starting, handle, child, at, told, orphans, wants, overtaken>>

\* Variant: nobody answers, nothing runs.
UnansweredStopped == "stopped"

\* What getStatus() reports of an engine that did not answer.
Unanswered == IF handle # NoEngine /\ starting THEN "starting" ELSE "stopped"

Stopped(c) == heard[c] = "silence" /\ Unanswered = "stopped"

\* start(): refused while the latch is held, otherwise the latch and then the probe.
Start(c) ==
    /\ wants /\ pc[c] = "idle" /\ ~starting
    /\ starting' = TRUE
    /\ Await(c, "start")
    /\ UNCHANGED <<handle, child, at, told, orphans, wants, overtaken, events>>

\* ... an engine answers, or the child that was spawned has yet to.
AlreadyThere(c) ==
    /\ pc[c] = "start"
    /\ \/ heard[c] = "answer" /\ Clear(c)
       \/ heard[c] = "silence" /\ ~Stopped(c) /\ Unlatched
    /\ Return(c)
    /\ UNCHANGED <<handle, at, told, orphans, wants, events>>

\* A process that no call has in hand: nothing tells the free ones apart.
Free == {k \in Engines : at[k] \in Absent /\ \A c \in Callers : child[c] # k}
NewEngine == CHOOSE k \in Free : TRUE

\* start() polls for the child k that spawn() returned.
Polls(c, k) ==
    /\ handle' = k /\ child' = [child EXCEPT ![c] = k]
    /\ Await(c, "nap") /\ Unlatched

\* ... or a process is spawned; or spawn() returns a child whose process could not be
\* made (EAGAIN, ENOENT: an 'error' event, which has no listener here, and no 'exit');
\* or something it needs is missing, or it throws.
Spawn(c) ==
    /\ pc[c] = "start" /\ Stopped(c)
    /\ \/ /\ Free # {} /\ at' = [at EXCEPT ![NewEngine] = "booting"]
          /\ Polls(c, NewEngine) /\ UNCHANGED events
       \/ Polls(c, NoProcess) /\ Event /\ UNCHANGED at
       \/ Return(c) /\ Clear(c) /\ Event /\ UNCHANGED <<handle, at>>
    /\ UNCHANGED <<told, orphans, wants>>

\* A poll of start() says that an engine answers, the child said that it listens,
\* or neither.
Polled(c) ==
    /\ pc[c] = "poll"
    /\ \/ /\ heard[c] = "answer" \/ at[child[c]] \in Holding
          /\ Clear(c) /\ Return(c)
       \/ heard[c] = "silence" /\ Await(c, "nap") /\ Unlatched /\ UNCHANGED child
    /\ UNCHANGED <<handle, at, told, orphans, wants, events>>

\* The child's exit code was seen.
ChildExit(c) ==
    /\ pc[c] = "nap" /\ at[child[c]] = "gone"
    /\ Clear(c) /\ Return(c)
    /\ UNCHANGED <<handle, at, told, orphans, wants, events>>

\* 30 s of start(), or 5 s of stop(), are over.
Deadline(c) ==
    /\ \/ pc[c] = "nap" /\ Clear(c)
       \/ pc[c] = "retire" /\ heard[c] # "nothing" /\ ~Stopped(c) /\ Unlatched
    /\ Return(c)
    /\ UNCHANGED <<handle, at, told, orphans, wants, events>>

\* stop() with a child: SIGTERM, and the manager is done with it.  A kill() that throws
\* ends the call and changes nothing.
Stop(c) ==
    /\ ~wants /\ pc[c] = "idle" /\ handle # NoEngine
    /\ told' = told \cup ({handle} \cap Engines) /\ handle' = NoEngine
    /\ Clear(c)
    /\ UNCHANGED <<pc, heard, child, at, orphans, wants, events>>

\* stop() without one probes for an engine it never spawned.
StopUnmanaged(c) ==
    /\ ~wants /\ pc[c] = "idle" /\ handle = NoEngine
    /\ Await(c, "stop")
    /\ UNCHANGED <<starting, handle, child, at, told, orphans, wants, overtaken, events>>

\* Variant: only a child of its own is stopped.
RetireNone(c) ==
    /\ pc[c] = "stop" /\ heard[c] # "nothing"
    /\ Return(c)
    /\ UNCHANGED <<starting, handle, at, told, orphans, wants, overtaken, events>>

\* ... ends when nothing runs, and otherwise asks what answers to shut down.
Retire(c) ==
    /\ pc[c] = "stop" /\ heard[c] # "nothing"
    /\ IF Stopped(c) THEN Return(c) ELSE Await(c, "post") /\ UNCHANGED child
    /\ UNCHANGED <<starting, handle, at, told, orphans, wants, overtaken, events>>

Post(c) ==
    /\ pc[c] = "post"
    /\ told' = told \cup {k \in Engines : at[k] = "up"}
    /\ Await(c, "retire")
    /\ UNCHANGED <<starting, handle, child, at, orphans, wants, overtaken, events>>

\* A poll of stop().
Retired(c) ==
    /\ pc[c] = "retire" /\ heard[c] # "nothing"
    /\ IF Stopped(c) THEN Return(c) ELSE Await(c, "retire") /\ UNCHANGED child
    /\ UNCHANGED <<starting, handle, at, told, orphans, wants, overtaken, events>>

-----------------------------------------------------------------------------
(* The engine's process.                                                    *)

Becomes(k, where) ==
    /\ at' = [at EXCEPT ![k] = where]
    /\ UNCHANGED <<starting, handle, pc, heard, child, told, orphans, wants, overtaken>>

\* startFilterProxy() binds the ports, or the process ends: they are taken, or its
\* app is gone already.
Boot(k) ==
    /\ at[k] = "booting"
    /\ \/ ~(\E j \in Engines : at[j] \in Holding) /\ Becomes(k, "up")
       \/ (\E j \in Engines : at[j] \in Holding) /\ Becomes(k, "dead")
       \/ k \in orphans /\ Becomes(k, "dead")
    /\ UNCHANGED events

\* SIGTERM before it listens, which nothing handles yet; the signal, the route or the
\* watchdog behind it; the teardown is through.
Ends(k) ==
    /\ \/ at[k] = "booting" /\ k \in told /\ Becomes(k, "killed")
       \/ at[k] = "up" /\ k \in told \cup orphans /\ Becomes(k, "closing")
       \/ at[k] = "closing" /\ Becomes(k, "dead")
    /\ UNCHANGED events

Crash(k) ==
    /\ at[k] \in {"booting", "up"} /\ (Becomes(k, "dead") \/ Becomes(k, "killed"))
    /\ Event

Gone(k) ==
    /\ \/ at[k] = "dead" /\ at' = [at EXCEPT ![k] = "gone"]
       \/ at[k] = "killed" /\ at' = [at EXCEPT ![k] = "lost"]
    /\ told' = told \ {k} /\ orphans' = orphans \ {k}

\* Variant: an exit that leaves the latch.
ExitKeepsLatch(k) ==
    /\ Gone(k)
    /\ handle' = IF handle = k THEN NoEngine ELSE handle
    /\ Unlatched
    /\ UNCHANGED <<pc, heard, child, wants, events>>

\* The exit handler; an orphan has none.
Exit(k) ==
    /\ Gone(k)
    /\ IF k \in orphans THEN Unlatched /\ UNCHANGED handle
       ELSE Clear(NoEngine) /\ handle' = IF handle = k THEN NoEngine ELSE handle
    /\ UNCHANGED <<pc, heard, child, wants, events>>

-----------------------------------------------------------------------------

ChangeMind ==
    /\ Event /\ wants' = ~wants
    /\ UNCHANGED <<manager, at, told, orphans>>

\* The app quits and is started again; what it spawned lives on.
Quit ==
    /\ Event
    /\ starting' = FALSE /\ handle' = NoEngine /\ overtaken' = FALSE
    /\ pc' = [c \in Callers |-> "idle"] /\ heard' = [c \in Callers |-> "nothing"]
    /\ child' = [c \in Callers |-> NoEngine]
    /\ orphans' = {k \in Engines : at[k] \notin Absent}
    /\ UNCHANGED <<at, told, wants>>

Call(c) ==
    \/ Probe(c) \/ AlreadyThere(c) \/ Spawn(c) \/ Polled(c) \/ ChildExit(c)
    \/ Retire(c) \/ Post(c) \/ Retired(c)

\* A call that begins takes an idle caller: nothing tells the idle ones apart.
IdleCaller == CHOOSE c \in Callers : pc[c] = "idle"

Press(c) ==
    /\ pc[c] = "idle" /\ c = IdleCaller
    /\ Start(c) \/ Stop(c) \/ StopUnmanaged(c)

Process(k) == Boot(k) \/ Ends(k) \/ Exit(k)

Next ==
    \/ \E c \in Callers : Call(c) \/ Deadline(c) \/ Press(c)
    \/ \E k \in Engines : Process(k) \/ Crash(k)
    \/ ChangeMind \/ Quit

Spec == Init /\ [][Next]_vars

\* Calls go on, processes boot and end, clocks run, and a user whose wish is not met
\* presses again.
FairSpec ==
    /\ Spec
    /\ \A c \in Callers : WF_vars(Call(c)) /\ SF_vars(Deadline(c))
    /\ SF_vars(\E c \in Callers : Press(c))
    /\ \A k \in Engines : WF_vars(Process(k))

-----------------------------------------------------------------------------

\* The handle names a process of this app whose exit has yet to be handled, or none that
\* ever was; and a latch that is held has somebody who clears it: a start() under way, or
\* that exit (the comment on the start() that returns latched). Only a spawn that failed
\* behind its return leaves a latch that nothing but a stop() clears.
LatchOwned ==
    /\ handle \in Engines => at[handle] \notin Absent /\ handle \notin orphans
    /\ starting /\ Launching = {} => handle \in Children

\* Unless the latch is cleared under a call that holds it, overlapping start() calls come
\* down to one spawn: what runs and was not told to end is the child that is held.
SingleSpawn == ~overtaken => Live \ (told \cup orphans) \subseteq {handle}

\* However calls, crashes, quits and slow probes fell, double spawns included: a user
\* who keeps pressing gets the engine to run, or every process of it to end. One who
\* wants it to run may be left with the handle of a spawn that failed, and must press
\* stop first.
Obeyed == <>[](IF wants THEN Answering \/ handle = NoProcess ELSE Live = {})

=============================================================================
