--------------------------- MODULE LeafForgeQueue ---------------------------
(***************************************************************************)
(* Admission control in front of the filtering proxy's synchronous key     *)
(* generation (packages/https-filter/src/ca/leafForgeQueue.ts): calls for  *)
(* one name share one forge, at most `limit` forges hold a slot, and a     *)
(* slot that passes on is granted in the check phase of a later loop turn. *)
(*                                                                         *)
(* Everything runs on Node's one event loop.  A callback runs to its end,  *)
(* then the microtasks it queued run, first in first out, and only then    *)
(* the next callback.  The loop polls for I/O, then runs the immediates    *)
(* that are queued by then.  A call can come from a callback or a          *)
(* microtask, so between any two steps.  A job is one promise chain that   *)
(* forge() starts.                                                         *)
(***************************************************************************)
EXTENDS Integers, Sequences, FiniteSets

CONSTANTS
    Names,       \* normalized server names
    Callers,     \* handshakes; each asks once
    Limit        \* limit

ASSUME LimitAssumption == Limit \in Nat \ {0}

VARIABLES
    running,     \* slots taken
    pending,     \* jobs waiting for a slot, oldest first
    inflight,    \* name -> its job, or None
    jobs,        \* the jobs started so far: name and stage
    micro,       \* microtasks: jobs whose next step is ready to run
    immediates,  \* jobs whose slot was granted with setImmediate
    asked,       \* caller -> the job whose promise it holds, or None
    due,         \* immediates left to the loop's check phase
    turnForges   \* forges of jobs that waited, since the loop last polled

vars == <<running, pending, inflight, jobs, micro, immediates, asked, due, turnForges>>

None == 0

\* "waiting" for a slot, "granted" one that setImmediate has yet to deliver, "ready"
\* to run in a microtask, "forged" or "failed" with its finally() due, "settled".
Stages == {"waiting", "granted", "ready", "forged", "failed", "settled"}

Jobs == DOMAIN jobs
InStage(s) == {j \in Jobs : jobs[j].stage = s}
Holders == InStage("granted") \cup InStage("ready")
Live == {j \in Jobs : jobs[j].stage # "settled"}

-----------------------------------------------------------------------------

Init ==
    /\ running = 0 /\ pending = <<>> /\ inflight = [n \in Names |-> None]
    /\ jobs = <<>> /\ micro = <<>> /\ immediates = <<>>
    /\ asked = [c \in Callers |-> None]
    /\ due = 0 /\ turnForges = 0

Job(n, s) == [name |-> n, stage |-> s, waited |-> s = "waiting"]

\* forge() of a name that has a job already.
Share(c, n) ==
    /\ asked[c] = None /\ inflight[n] # None
    /\ asked' = [asked EXCEPT ![c] = inflight[n]]
    /\ UNCHANGED <<running, pending, inflight, jobs, micro, immediates, due, turnForges>>

\* Variant: a slot is taken only when the forge runs.
AcquireLate(n) ==
    LET j == Len(jobs) + 1
    IN  IF running < Limit
        THEN /\ jobs' = Append(jobs, Job(n, "ready"))
             /\ micro' = Append(micro, j)
             /\ UNCHANGED <<running, pending>>
        ELSE /\ pending' = Append(pending, j)
             /\ jobs' = Append(jobs, Job(n, "waiting"))
             /\ UNCHANGED <<running, micro>>

\* acquire(), for the next job.
Acquire(n) ==
    LET j == Len(jobs) + 1
    IN  IF running < Limit
        THEN /\ running' = running + 1
             /\ jobs' = Append(jobs, Job(n, "ready"))
             /\ micro' = Append(micro, j)
             /\ UNCHANGED pending
        ELSE /\ pending' = Append(pending, j)
             /\ jobs' = Append(jobs, Job(n, "waiting"))
             /\ UNCHANGED <<running, micro>>

Start(c, n) ==
    /\ asked[c] = None /\ inflight[n] = None
    /\ Acquire(n)
    /\ inflight' = [inflight EXCEPT ![n] = Len(jobs) + 1]
    /\ asked' = [asked EXCEPT ![c] = Len(jobs) + 1]
    /\ UNCHANGED <<immediates, due, turnForges>>

\* Variant: the slot passes on in a microtask, within the same turn.
ReleaseInTurn(stage) ==
    IF pending = <<>>
    THEN /\ running' = running - 1
         /\ micro' = Append(Tail(micro), Head(micro))
         /\ jobs' = [jobs EXCEPT ![Head(micro)].stage = stage]
         /\ UNCHANGED <<pending, immediates>>
    ELSE /\ pending' = Tail(pending)
         /\ micro' = Tail(micro) \o <<Head(pending), Head(micro)>>
         /\ jobs' = [jobs EXCEPT ![Head(micro)].stage = stage,
                                 ![Head(pending)].stage = "ready"]
         /\ UNCHANGED <<running, immediates>>

\* Variant: a forge that throws keeps its slot.
ReleaseForged(stage) ==
    /\ micro' = Append(Tail(micro), Head(micro))
    /\ jobs' = [jobs EXCEPT ![Head(micro)].stage = stage,
                            ![IF stage = "forged" /\ pending # <<>>
                              THEN Head(pending) ELSE 0].stage = "granted"]
    /\ running' = IF stage = "forged" /\ pending = <<>> THEN running - 1 ELSE running
    /\ pending' = IF stage = "forged" /\ pending # <<>> THEN Tail(pending) ELSE pending
    /\ immediates' = IF stage = "forged" /\ pending # <<>>
                     THEN Append(immediates, Head(pending)) ELSE immediates

\* Variant: the slot passes to the waiter that came last.
ReleaseNewest(stage) ==
    /\ micro' = Append(Tail(micro), Head(micro))
    /\ IF pending = <<>>
       THEN /\ running' = running - 1
            /\ jobs' = [jobs EXCEPT ![Head(micro)].stage = stage]
            /\ UNCHANGED <<pending, immediates>>
       ELSE /\ pending' = SubSeq(pending, 1, Len(pending) - 1)
            /\ immediates' = Append(immediates, pending[Len(pending)])
            /\ jobs' = [jobs EXCEPT ![Head(micro)].stage = stage,
                                    ![pending[Len(pending)]].stage = "granted"]
            /\ UNCHANGED running

\* release(), by the job at the head of the microtasks, whose forge ended in `stage`
\* and whose finally() is queued behind the other microtasks.
Release(stage) ==
    /\ micro' = Append(Tail(micro), Head(micro))
    /\ IF pending = <<>>
       THEN /\ running' = running - 1
            /\ jobs' = [jobs EXCEPT ![Head(micro)].stage = stage]
            /\ UNCHANGED <<pending, immediates>>
       ELSE /\ pending' = Tail(pending)
            /\ immediates' = Append(immediates, Head(pending))
            /\ jobs' = [jobs EXCEPT ![Head(micro)].stage = stage,
                                    ![Head(pending)].stage = "granted"]
            /\ UNCHANGED running

\* The then() callback: forgeLeaf returns or throws, and the slot is released.
Forge ==
    /\ micro # <<>> /\ jobs[Head(micro)].stage = "ready"
    /\ \E stage \in {"forged", "failed"} : Release(stage)
    /\ turnForges' = IF jobs[Head(micro)].waited THEN turnForges + 1 ELSE turnForges
    /\ UNCHANGED <<inflight, asked, due>>

\* Variant: only a forge that succeeded leaves the dedupe map.
ForgetForged(j) ==
    IF jobs[j].stage = "forged" THEN [inflight EXCEPT ![jobs[j].name] = None] ELSE inflight

Forget(j) == [inflight EXCEPT ![jobs[j].name] = None]

\* The finally() callback; the promise the callers hold settles behind it.
Settle ==
    /\ micro # <<>> /\ jobs[Head(micro)].stage \in {"forged", "failed"}
    /\ micro' = Tail(micro)
    /\ inflight' = Forget(Head(micro))
    /\ jobs' = [jobs EXCEPT ![Head(micro)].stage = "settled"]
    /\ UNCHANGED <<running, pending, immediates, asked, due, turnForges>>

\* One immediate callback of the check phase resolves its waiter's promise.
Grant ==
    /\ micro = <<>> /\ due > 0 /\ due' = due - 1
    /\ immediates' = Tail(immediates)
    /\ micro' = <<Head(immediates)>>
    /\ jobs' = [jobs EXCEPT ![Head(immediates)].stage = "ready"]
    /\ UNCHANGED <<running, pending, inflight, asked, turnForges>>

\* The loop polls, and with it runs what else waits for it: relayed bytes, a control
\* call. Its next check phase is for the immediates there are by then.
Turn ==
    /\ micro = <<>> /\ due = 0 /\ (turnForges # 0 \/ immediates # <<>>)
    /\ due' = Len(immediates) /\ turnForges' = 0
    /\ UNCHANGED <<running, pending, inflight, jobs, micro, immediates, asked>>

Next ==
    \/ \E c \in Callers, n \in Names : Share(c, n) \/ Start(c, n)
    \/ Forge \/ Settle \/ Grant \/ Turn

Spec == Init /\ [][Next]_vars

\* The loop runs what is queued.
FairSpec ==
    Spec /\ WF_vars(Forge) /\ WF_vars(Settle) /\ WF_vars(Grant) /\ WF_vars(Turn)

-----------------------------------------------------------------------------

\* Slots are neither lost nor minted: the counter is the number of jobs that
\* hold one, never above the limit, and a job waits only while all are taken.
SlotsAccounted ==
    /\ running = Cardinality(Holders)
    /\ running <= Limit
    /\ InStage("waiting") # {} => running = Limit

\* N callers racing one name share one forge: no two unsettled jobs are for
\* the same name, and each name's entry in the dedupe map is its unsettled job.
OneForgePerName ==
    \A n \in Names :
        {j \in Live : jobs[j].name = n} = IF inflight[n] = None THEN {} ELSE {inflight[n]}

\* A queued burst yields the loop between its forges: however many jobs wait, the loop
\* polls for pending I/O after at most `limit` of their forges, one by default (release).
ForgesYield == turnForges <= Limit

\* Every call is answered, by a forge or by a rejection.
EveryCallAnswered ==
    \A c \in Callers : asked[c] # None ~> asked[c] # None /\ asked[c] \notin Live

-----------------------------------------------------------------------------

\* What a job's stage is to its callers.
Served(stage) ==
    CASE stage = "waiting" -> "queued"
      [] stage \in {"granted", "ready"} -> "served"
      [] stage \in {"forged", "failed"} -> "ended"
      [] stage = "settled" -> "answered"

Pool == INSTANCE ForgePool WITH
    requests <- [j \in DOMAIN jobs |-> [name |-> jobs[j].name, stage |-> Served(jobs[j].stage)]],
    holds <- asked

\* The queue implements the pool: the slot that a forge releases goes to the job that has
\* waited longest, a call is served at once only when nobody waits, and what the loop does
\* in between (setImmediate, microtasks) shows to no caller.
ImplementsPool == Pool!FairSpec

=============================================================================
