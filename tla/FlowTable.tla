------------------------------ MODULE FlowTable ------------------------------
(***************************************************************************)
(* The flow table of the on-device VPN's dispatchers (local-vpn,           *)
(* tcp/TcpDispatcher.kt; tcp/UdpDispatcher.kt keeps the same table by the  *)
(* same steps, and gives birth on any datagram).  Tun readers look up,     *)
(* evict, dial, insert and touch without a common lock while the ticker    *)
(* sweeps and close() tears down: each access to shared state is a step.   *)
(* A session is reduced to whether it is live; TcpSession models the rest. *)
(***************************************************************************)
EXTENDS Integers, FiniteSets, SequencesExt

None == 0

CONSTANTS
    Keys,           \* flow keys
    Readers,        \* threads in onPacket: a restart leaves the old reader running
    Ticker, Closer, \* the thread in onTick and the one in close
    MaxSessions,    \* maxSessions
    MaxBorn         \* bound of the model: dials that succeed

ASSUME BoundsAssumption ==
    /\ MaxSessions \in Nat \ {0} /\ MaxBorn \in Nat
    /\ IsFiniteSet(Readers) /\ IsFiniteSet(Keys) /\ None \notin Keys
ASSUME ThreadsAssumption == Ticker \notin Readers /\ Closer \notin Readers /\ Ticker # Closer

VARIABLES
    closed,         \* closed
    table,          \* sessions: key -> session, or None
    lru,            \* the touch log's keys, oldest first
    born, live,     \* sessions dialled are 1..born; those not terminated
    opened, gone,   \* flowsOpened, flowsClosed
    pc,             \* where each thread is; "idle" outside the dispatcher
    my,             \* its locals: a flow, a session, and the flow it evicts
    left            \* what the iterators of onTick and close have yet to visit

counters == <<opened, gone>>
vars == <<closed, table, lru, born, live, counters, pc, my, left>>

Sweepers == {Ticker, Closer}
Threads == Readers \cup Sweepers
NoLocals == [key |-> None, hand |-> None, prey |-> None]

\* A key is in the log at most once.
Without(q, k) ==
    IF \E i \in 1..Len(q) : q[i] = k THEN RemoveAt(q, CHOOSE i \in 1..Len(q) : q[i] = k) ELSE q

Present == {k \in Keys : table[k] # None}

Init ==
    /\ closed = FALSE /\ table = [k \in Keys |-> None] /\ lru = <<>>
    /\ born = 0 /\ live = {} /\ opened = 0 /\ gone = 0
    /\ pc = [t \in Threads |-> "idle"] /\ my = [t \in Threads |-> NoLocals]
    /\ left = [t \in Sweepers |-> {}]

\* Thread t goes to step p with locals m; on leaving the dispatcher it drops them.
Move(t, p, m) ==
    /\ pc' = [pc EXCEPT ![t] = p]
    /\ my' = [my EXCEPT ![t] = IF p \in {"idle", "sweep"} THEN NoLocals ELSE m]

Goto(t, p) == Move(t, p, my[t])

-----------------------------------------------------------------------------
(* onPacket *)

\* The packet's flow, and a dispatcher that is not closed yet.
Enter(r) ==
    /\ pc[r] = "idle"
    /\ ~closed /\ \E k \in Keys : Move(r, "lookup", [NoLocals EXCEPT !.key = k])
    /\ UNCHANGED <<closed, table, lru, born, live, counters, left>>

\* A known flow, or a segment that is no SYN and is answered with a RST, or a SYN.
Lookup(r) ==
    /\ pc[r] = "lookup"
    /\ LET s == table[my[r].key]
       IN  \/ s # None /\ Move(r, "touch", [my[r] EXCEPT !.hand = s])
           \/ s = None /\ Goto(r, "idle")
           \/ s = None /\ Goto(r, "evict")
    /\ UNCHANGED <<closed, table, lru, born, live, counters, left>>

\* Variant: the bound lets one flow too many in.
FullPastBound == Cardinality(Present) > MaxSessions

Full == Cardinality(Present) >= MaxSessions

EvictIfNeeded(r) ==
    /\ pc[r] = "evict"
    /\ Goto(r, IF Full THEN "pick" ELSE "dial")
    /\ UNCHANGED <<closed, table, lru, born, live, counters, left>>

\* Variant: the eldest key stays in the log.
PeekEldest(r) ==
    /\ pc[r] = "pick"
    /\ lru # <<>> /\ Move(r, "fetch", [my[r] EXCEPT !.prey = Head(lru)])
    /\ UNCHANGED <<closed, table, lru, born, live, counters, left>>

PickEldest(r) ==
    /\ pc[r] = "pick"
    /\ lru # <<>> /\ Move(r, "fetch", [my[r] EXCEPT !.prey = Head(lru)])
    /\ lru' = Tail(lru)
    /\ UNCHANGED <<closed, table, born, live, counters, left>>

LogIsEmpty(r) ==
    /\ pc[r] = "pick"
    /\ lru = <<>> /\ Goto(r, "pickAny")
    /\ UNCHANGED <<closed, table, lru, born, live, counters, left>>

\* Any key of the table, or no eviction if it has become empty.
PickAny(r) ==
    /\ pc[r] = "pickAny"
    /\ \/ \E k \in Present : Move(r, "fetch", [my[r] EXCEPT !.prey = k])
       \/ Present = {} /\ Goto(r, "dial")
    /\ UNCHANGED <<closed, table, lru, born, live, counters, left>>

Fetch(r) ==
    /\ pc[r] = "fetch"
    /\ LET s == table[my[r].prey]
       IN  Move(r, IF s = None THEN "evict" ELSE "claim",
                [my[r] EXCEPT !.hand = s])
    /\ UNCHANGED <<closed, table, lru, born, live, counters, left>>

\* Variant: the table's session of that key goes, whichever it is by now.
RemoveAny(k, s) == [table EXCEPT ![k] = None]

\* sessions.remove(k, s), which leaves another session of that key alone.
RemoveIf(k, s) == IF table[k] = s THEN [table EXCEPT ![k] = None] ELSE table

Claim(r) ==
    /\ pc[r] = "claim"
    /\ Goto(r, IF table[my[r].prey] = my[r].hand THEN "abortPrey" ELSE "evict")
    /\ table' = RemoveIf(my[r].prey, my[r].hand)
    /\ UNCHANGED <<closed, lru, born, live, counters, left>>

AbortPrey(r) ==
    /\ pc[r] = "abortPrey"
    /\ Move(r, "evict", [my[r] EXCEPT !.hand = None, !.prey = None])
    /\ live' = live \ {my[r].hand} /\ gone' = gone + 1
    /\ UNCHANGED <<closed, table, lru, born, opened, left>>

\* upstreamFactory and the session's constructor: a session, or a RST.
Dial(r) ==
    /\ pc[r] = "dial"
    /\ \/ /\ born < MaxBorn /\ born' = born + 1 /\ live' = live \cup {born'}
          /\ Move(r, "insert", [my[r] EXCEPT !.hand = born', !.prey = None])
       \/ Goto(r, "idle") /\ UNCHANGED <<born, live>>
    /\ UNCHANGED <<closed, table, lru, counters, left>>

\* putIfAbsent: in the table, or aborted in favour of the session already there.
Insert(r) ==
    /\ pc[r] = "insert"
    /\ LET prev == table[my[r].key]
       IN  \/ /\ prev = None /\ Goto(r, "recheck")
              /\ table' = [table EXCEPT ![my[r].key] = my[r].hand]
              /\ opened' = opened + 1
              /\ UNCHANGED live
           \/ /\ prev # None /\ Move(r, "touch", [my[r] EXCEPT !.hand = prev])
              /\ live' = live \ {my[r].hand}
              /\ UNCHANGED <<table, opened>>
    /\ UNCHANGED <<closed, lru, born, gone, left>>

\* Variant: close() is looked for on entry only.
RecheckNever(r) ==
    /\ pc[r] = "recheck"
    /\ Goto(r, "touch")
    /\ UNCHANGED <<closed, table, lru, born, live, counters, left>>

Recheck(r) ==
    /\ pc[r] = "recheck"
    /\ Goto(r, IF closed THEN "undo" ELSE "touch")
    /\ UNCHANGED <<closed, table, lru, born, live, counters, left>>

UndoAbort(r) ==
    /\ pc[r] = "undoAbort"
    /\ Goto(r, "idle") /\ live' = live \ {my[r].hand}
    /\ UNCHANGED <<closed, table, lru, born, counters, left>>

Touch(r) ==
    /\ pc[r] = "touch"
    /\ Goto(r, "deliver")
    /\ lru' = Append(Without(lru, my[r].key), my[r].key)
    /\ UNCHANGED <<closed, table, born, live, counters, left>>

\* session.onPacket, which may end the session, and the look at `terminated`.
Deliver(r) ==
    /\ pc[r] = "deliver"
    /\ live' \in {live, live \ {my[r].hand}}
    /\ Goto(r, IF my[r].hand \in live' THEN "idle" ELSE "remove")
    /\ UNCHANGED <<closed, table, lru, born, counters, left>>

-----------------------------------------------------------------------------
(* removeSession, by any thread; "undo" is the call that an abort follows *)

\* Variant: the count does not depend on who removed the session.
CountedAlways(k, s) == gone + 1

Counted(k, s) == IF table[k] = s THEN gone + 1 ELSE gone

After(t) == IF t \in Readers THEN "idle" ELSE "sweep"

RemoveSession(t) ==
    LET k == my[t].key
        s == my[t].hand
    IN  /\ \/ pc[t] = "remove" /\ Goto(t, IF table[k] = s THEN "unlog" ELSE After(t))
           \/ pc[t] = "undo" /\ Goto(t, IF table[k] = s THEN "undoUnlog" ELSE "undoAbort")
        /\ table' = RemoveIf(k, s) /\ gone' = Counted(k, s)
        /\ UNCHANGED <<closed, lru, born, live, opened, left>>

Unlog(t) ==
    /\ \/ pc[t] = "unlog" /\ Goto(t, After(t))
       \/ pc[t] = "undoUnlog" /\ Goto(t, "undoAbort")
    /\ lru' = Without(lru, my[t].key)
    /\ UNCHANGED <<closed, table, born, live, counters, left>>

-----------------------------------------------------------------------------
(* onTick and close *)

\* An iterator sees the entries it starts with; those inserted later, perhaps.
Iterate(t) == \E ks \in SUBSET Keys : Present \subseteq ks /\ left' = [left EXCEPT ![t] = ks]

\* The iterator's next entry: its session is ended, or passed over.
Visit(t, k, end) ==
    /\ pc[t] = "sweep"
    /\ left' = [left EXCEPT ![t] = left[t] \ {k}]
    /\ Move(t, IF end THEN "remove" ELSE "sweep",
            [NoLocals EXCEPT !.key = k, !.hand = table[k]])
    /\ live' = IF end THEN live \ {table[k]} ELSE live
    /\ UNCHANGED <<closed, table, lru, born, counters>>

TickStart ==
    /\ pc[Ticker] = "idle"
    /\ ~closed /\ Goto(Ticker, "sweep") /\ Iterate(Ticker)
    /\ UNCHANGED <<closed, table, lru, born, live, counters>>

\* Variant: only a session that this tick ends is removed.
TickedOut(s) == {FALSE, (s \in live)}

\* What the onTick of session s may return: TRUE if it has ended before.
Ended(s) == {TRUE, s \notin live}

TickVisit ==
    \E k \in left[Ticker] :
        \/ table[k] = None /\ Visit(Ticker, k, FALSE)
        \/ table[k] # None /\ \E end \in Ended(table[k]) : Visit(Ticker, k, end)

TickEnd ==
    /\ pc[Ticker] = "sweep"
    /\ left[Ticker] = {} /\ Goto(Ticker, "idle")
    /\ UNCHANGED <<closed, table, lru, born, live, counters, left>>

CloseStart ==
    /\ pc[Closer] = "idle"
    /\ ~closed /\ Goto(Closer, "closing")
    /\ closed' = TRUE
    /\ UNCHANGED <<table, lru, born, live, counters, left>>

CloseIterate ==
    /\ pc[Closer] = "closing"
    /\ Goto(Closer, "sweep") /\ Iterate(Closer)
    /\ UNCHANGED <<closed, table, lru, born, live, counters>>

CloseVisit == \E k \in left[Closer] : Visit(Closer, k, table[k] # None)

CloseEnd ==
    /\ pc[Closer] = "sweep"
    /\ left[Closer] = {} /\ Goto(Closer, "idle")
    /\ lru' = <<>>
    /\ UNCHANGED <<closed, table, born, live, counters, left>>

-----------------------------------------------------------------------------

\* A session's own upstream threads end it, in the table or not.
UpstreamFails ==
    /\ \E s \in live : live' = live \ {s}
    /\ UNCHANGED <<closed, table, lru, born, counters, pc, my, left>>

ReaderStep(r) ==
    \/ Lookup(r) \/ EvictIfNeeded(r) \/ PickEldest(r) \/ LogIsEmpty(r) \/ PickAny(r)
    \/ Fetch(r) \/ Claim(r) \/ AbortPrey(r) \/ Dial(r) \/ Insert(r) \/ Recheck(r)
    \/ UndoAbort(r) \/ Touch(r) \/ Deliver(r) \/ RemoveSession(r) \/ Unlog(r)

TickStep == TickStart \/ TickVisit \/ TickEnd \/ RemoveSession(Ticker) \/ Unlog(Ticker)

CloseStep == CloseIterate \/ CloseVisit \/ CloseEnd \/ RemoveSession(Closer) \/ Unlog(Closer)

Next ==
    \/ \E r \in Readers : Enter(r) \/ ReaderStep(r)
    \/ TickStep \/ CloseStart \/ CloseStep \/ UpstreamFails

Spec == Init /\ [][Next]_vars

\* Threads that have entered the dispatcher go on, and the ticker keeps ticking.
FairSpec ==
    /\ Spec
    /\ \A r \in Readers : WF_vars(ReaderStep(r))
    /\ WF_vars(TickStep) /\ WF_vars(CloseStep)

-----------------------------------------------------------------------------

ReadersAt(ps) == {r \in Readers : pc[r] \in ps}

\* No session leaks: a live one is in the table, where a sweep finds it, or in the
\* hand of a reader that has yet to put it there or is about to abort it.
NoLeak ==
    \A s \in live :
        \/ \E k \in Keys : table[k] = s
        \/ \E r \in ReadersAt({"insert", "abortPrey", "undo", "undoUnlog", "undoAbort"}) :
              my[r].hand = s

\* Once close() has returned and the readers have left, nothing of the dispatcher
\* lives on: neither a session nor an entry.
ClosedIsEmpty ==
    closed /\ (\A t \in Threads : pc[t] = "idle") => live = {} /\ Present = {}

\* Every birth and every end is counted once, whichever threads met on it.
CountersAgree == opened = gone + Cardinality(Present) + Cardinality(ReadersAt({"abortPrey"}))

\* The bound is checked without a lock: it can be passed by the readers that are
\* past the check together, and by no more.
TableBounded ==
    Cardinality(Present) + Cardinality(ReadersAt({"dial", "insert"}))
        <= MaxSessions + Cardinality(Readers) - 1

\* A session that has ended does not keep its flow's entry.
DeadFlowsLeave ==
    \A k \in Keys, s \in 1..MaxBorn : table[k] = s /\ s \notin live ~> table[k] # s

\* Eviction ends, though the log may hold keys without a session and the table
\* sessions without a key in the log.
EvictionEnds == \A r \in Readers : pc[r] = "evict" ~> pc[r] = "idle"

=============================================================================
