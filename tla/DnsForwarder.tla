----------------------------- MODULE DnsForwarder -----------------------------
(***************************************************************************)
(* The DNS relay of the on-device VPN (local-vpn, DnsForwarder.kt): one    *)
(* socket to the upstream resolver, its answers matched to waiting queries *)
(* by a rewritten transaction id and the question they repeat.             *)
(* The tun reader (VpnFilterService.kt, readLoop) forwards and closes, a   *)
(* receiver takes the answers, a timer per query takes back its slot, and  *)
(* a teardown of the tunnel cancels the scope those two run in.  They      *)
(* share pending and the eviction log without a common lock, so each       *)
(* access to either is a step.                                             *)
(***************************************************************************)
EXTENDS Integers, FiniteSets, SequencesExt

CONSTANTS
    Ids,            \* upstream transaction ids, 16 bits of them in the code
    Questions,      \* question sections
    MaxPending,     \* maxPending
    MaxQueries      \* bound of the model: queries forwarded

None == 0
ASSUME BoundsAssumption ==
    /\ MaxPending \in Nat \ {0} /\ MaxQueries \in Nat /\ None \notin Ids
    /\ IsFiniteSet(Ids) /\ Cardinality(Ids) >= MaxPending  \* allocUpstreamId finds a free id

VARIABLES
    closed,         \* closed
    active,         \* scope.isActive: timers and the receiver may go on
    pending,        \* pending: id -> query, or None
    lru,            \* the eviction log's ids, oldest first
    queries,        \* the queries forwarded, each with its upstream id and question
    timer,          \* where each query's timer coroutine is
    early,          \* history: queries whose timer ran before their slot was there
    sent,           \* what the upstream was asked, and may answer late and repeatedly
    emitted,        \* history: answers delivered, as <<query, question answered>>
    counts,         \* stats, and as history the slots given up for an answer or a failed send
    reader,         \* where the tun reader is in forward or close, and what it evicts
    receiver        \* where the receive loop is, its datagram, and the query it peeked

slots == <<pending, lru>>
history == <<early, emitted>>
vars == <<closed, active, slots, queries, timer, sent, history, counts, reader, receiver>>

Query == 1..Len(queries)
Newest == Len(queries)
Present == {id \in Ids : pending[id] # None}

Init ==
    /\ closed = FALSE /\ active = TRUE
    /\ pending = [id \in Ids |-> None] /\ lru = <<>> /\ queries = <<>>
    /\ timer = [q \in 1..MaxQueries |-> "off"] /\ early = {} /\ sent = {} /\ emitted = {}
    /\ counts = [timedOut |-> 0, evicted |-> 0, replied |-> 0, failed |-> 0]
    /\ reader = [pc |-> "idle", id |-> None, query |-> None]
    /\ receiver = [pc |-> "check", id |-> None, question |-> None, peeked |-> None]

\* An id is in the log at most once.
Without(q, id) ==
    IF \E i \in 1..Len(q) : q[i] = id THEN RemoveAt(q, CHOOSE i \in 1..Len(q) : q[i] = id) ELSE q

\* The two halves of removePending: the slot, then, in its own lock, the log.  What a
\* claimant does after the second half (its counter, the timer it cancels, the answer
\* it emits) nobody waits for, and joins that step.
Vacate(id) == pending' = [pending EXCEPT ![id] = None]
Unlog(id) == lru' = Without(lru, id)

\* Job.cancel: a timer that is past its delay has no further suspension point.
Cancelled(q) == [timer EXCEPT ![q] = IF @ = "armed" THEN "off" ELSE @]

Goto(p) == reader' = [reader EXCEPT !.pc = p]
Victim(id) == reader' = [reader EXCEPT !.pc = "victim", !.id = id]

-----------------------------------------------------------------------------
(* forward, on the tun reader *)

Enter ==
    /\ reader.pc = "idle"
    /\ ~closed /\ Len(queries) < MaxQueries
    /\ Goto("evict")
    /\ UNCHANGED <<closed, active, slots, queries, timer, sent, history, counts, receiver>>

\* Variant: the bound lets one query too many wait.
FullPastBound == Cardinality(Present) > MaxPending
Full == Cardinality(Present) >= MaxPending

\* evictIfNeeded: the eldest logged id is the victim, and leaves the log.
PickEldest ==
    /\ reader.pc = "evict" /\ Full /\ lru # <<>>
    /\ Victim(Head(lru))
    /\ lru' = Tail(lru)
    /\ UNCHANGED <<closed, active, pending, queries, timer, sent, history, counts, receiver>>

\* Variant: with nothing logged there is nothing to evict, and the loop goes on.
LookAgain ==
    /\ reader.pc = "evict" /\ Full /\ lru = <<>>
    /\ UNCHANGED vars

\* With nothing logged, whatever is pending; keys are read after the lock is left.
LogIsEmpty ==
    /\ reader.pc = "evict" /\ Full /\ lru = <<>>
    /\ Goto("any")
    /\ UNCHANGED <<closed, active, slots, queries, timer, sent, history, counts, receiver>>

PickAny ==
    /\ reader.pc = "any"
    /\ \/ \E id \in Present : Victim(id)
       \/ Present = {} /\ Goto("alloc")
    /\ UNCHANGED <<closed, active, slots, queries, timer, sent, history, counts, receiver>>

\* A victim that was claimed meanwhile evicts nobody; the bound is looked at again.
Evict ==
    /\ reader.pc = "victim"
    /\ LET q == pending[reader.id]
       IN  \/ q # None /\ reader' = [reader EXCEPT !.pc = "unlog", !.query = q]
           \/ q = None /\ Goto("evict")
    /\ Vacate(reader.id)
    /\ UNCHANGED <<closed, active, lru, queries, timer, sent, history, counts, receiver>>

Evicted ==
    /\ reader.pc = "unlog"
    /\ Unlog(reader.id)
    /\ timer' = Cancelled(reader.query)
    /\ counts' = [counts EXCEPT !.evicted = @ + 1]
    /\ Goto("evict")
    /\ UNCHANGED <<closed, active, pending, queries, sent, history, receiver>>

\* Variant: an id is drawn without asking whether a query waits under it.
AnyId == Ids
FreeIds == Ids \ Present

\* allocUpstreamId samples until it meets a free id; then the timer is launched,
\* which a cancelled scope never starts.
Alloc ==
    /\ \/ reader.pc = "evict" /\ ~Full
       \/ reader.pc = "alloc"
    /\ \E id \in FreeIds, question \in Questions :
         queries' = Append(queries, [id |-> id, question |-> question])
    /\ timer' = [timer EXCEPT ![Newest + 1] = IF active THEN "armed" ELSE "off"]
    /\ Goto("insert")
    /\ UNCHANGED <<closed, active, slots, sent, history, counts, receiver>>

Insert ==
    /\ reader.pc = "insert"
    /\ pending' = [pending EXCEPT ![queries[Newest].id] = Newest]
    /\ Goto("track")
    /\ UNCHANGED <<closed, active, lru, queries, timer, sent, history, counts, receiver>>

\* An answer or the timer may have taken the slot already: the id is logged all the same.
Track ==
    /\ reader.pc = "track"
    /\ lru' = Append(Without(lru, queries[Newest].id), queries[Newest].id)
    /\ Goto("send")
    /\ UNCHANGED <<closed, active, pending, queries, timer, sent, history, counts, receiver>>

Send ==
    /\ reader.pc = "send"
    /\ sent' = sent \cup {queries[Newest]}
    /\ Goto("idle")
    /\ UNCHANGED <<closed, active, slots, queries, timer, history, counts, receiver>>

\* The send throws: the slot is given back, if nobody else has taken it.
\* Variant: only the timer is cancelled.
SendThrowsTimerOnly ==
    /\ reader.pc = "send"
    /\ timer' = Cancelled(Newest)
    /\ Goto("idle")
    /\ UNCHANGED <<closed, active, slots, queries, sent, history, counts, receiver>>
SendThrows ==
    /\ reader.pc = "send"
    /\ Goto(IF pending[queries[Newest].id] # None THEN "unlogFailed" ELSE "idle")
    /\ Vacate(queries[Newest].id)
    /\ UNCHANGED <<closed, active, lru, queries, timer, sent, history, counts, receiver>>

Failed ==
    /\ reader.pc = "unlogFailed"
    /\ Unlog(queries[Newest].id)
    /\ timer' = Cancelled(Newest)
    /\ counts' = [counts EXCEPT !.failed = @ + 1]
    /\ Goto("idle")
    /\ UNCHANGED <<closed, active, pending, queries, sent, history, receiver>>

ForwardStep ==
    \/ PickEldest \/ LogIsEmpty \/ PickAny \/ Evict \/ Evicted
    \/ Alloc \/ Insert \/ Track \/ Send \/ SendThrows \/ Failed

(* close, on the tun reader, in the finally of its loop *)

CloseStart ==
    /\ reader.pc = "idle"
    /\ Goto("closing")
    /\ closed' = TRUE
    /\ UNCHANGED <<active, slots, queries, timer, sent, history, counts, receiver>>

NoneArmed == [q \in DOMAIN timer |-> IF timer[q] = "armed" THEN "off" ELSE timer[q]]

\* The socket closes and the scope is cancelled.
CloseSocket ==
    /\ reader.pc = "closing"
    /\ Goto("clear")
    /\ active' = FALSE /\ timer' = NoneArmed
    /\ UNCHANGED <<closed, slots, queries, sent, history, counts, receiver>>

CloseClear ==
    /\ reader.pc = "clear"
    /\ Goto("closed")
    /\ pending' = [id \in Ids |-> None] /\ lru' = <<>>
    /\ UNCHANGED <<closed, active, queries, timer, sent, history, counts, receiver>>

CloseStep == CloseSocket \/ CloseClear

\* teardownTunnel cancels the reader's job, the parent of scope: the reader goes on.
Teardown ==
    /\ active
    /\ active' = FALSE /\ timer' = NoneArmed
    /\ UNCHANGED <<closed, slots, queries, sent, history, counts, reader, receiver>>

-----------------------------------------------------------------------------
(* The per-query timer *)

TimerDue(q) ==
    /\ timer[q] = "armed"
    /\ timer' = [timer EXCEPT ![q] = "due"]
    /\ UNCHANGED <<closed, active, slots, queries, sent, history, counts, reader, receiver>>

\* It takes whatever waits under the query's id, if anything does.
TimerClaim(q) ==
    /\ timer[q] = "due"
    /\ timer' = [timer EXCEPT ![q] = IF pending[queries[q].id] # None THEN "unlog" ELSE "off"]
    /\ Vacate(queries[q].id)
    /\ early' = IF reader.pc = "insert" /\ q = Newest THEN early \cup {q} ELSE early
    /\ UNCHANGED <<closed, active, lru, queries, sent, emitted, counts, reader, receiver>>

TimedOut(q) ==
    /\ timer[q] = "unlog"
    /\ Unlog(queries[q].id)
    /\ timer' = [timer EXCEPT ![q] = "off"]
    /\ counts' = [counts EXCEPT !.timedOut = @ + 1]
    /\ UNCHANGED <<closed, active, pending, queries, sent, history, reader, receiver>>

TimerStep(q) == TimerDue(q) \/ TimerClaim(q) \/ TimedOut(q)

-----------------------------------------------------------------------------
(* receiveLoop *)

NoDatagram == [pc |-> "check", id |-> None, question |-> None, peeked |-> None]
ReceiverGoto(p) == receiver' = [NoDatagram EXCEPT !.pc = p]

Check ==
    /\ receiver.pc = "check"
    /\ ReceiverGoto(IF closed \/ ~active THEN "done" ELSE "receive")
    /\ UNCHANGED <<closed, active, slots, queries, timer, sent, history, counts, reader>>

SocketClosed == reader.pc \in {"clear", "closed"}

\* An answer to anything the upstream was asked, however late and however often.
Receive ==
    /\ receiver.pc = "receive" /\ ~SocketClosed
    /\ \E d \in sent :
         receiver' = [pc |-> "peek", id |-> d.id, question |-> d.question, peeked |-> None]
    /\ UNCHANGED <<closed, active, slots, queries, timer, sent, history, counts, reader>>

\* receive() throws: for good once the socket is closed, or for an ICMP error.
ReceiveThrows ==
    /\ receiver.pc = "receive"
    /\ ReceiverGoto(IF closed THEN "done" ELSE "backoff")
    /\ UNCHANGED <<closed, active, slots, queries, timer, sent, history, counts, reader>>

\* The delay of the backoff is where a cancelled scope ends the loop.
Backoff ==
    /\ receiver.pc = "backoff"
    /\ ReceiverGoto(IF active THEN "check" ELSE "done")
    /\ UNCHANGED <<closed, active, slots, queries, timer, sent, history, counts, reader>>

\* Variant: the id alone is trusted.
IdMatches(question, q) == TRUE
QuestionMatches(question, q) == queries[q].question = question

Peek ==
    /\ receiver.pc = "peek"
    /\ LET p == pending[receiver.id]
           answers == p # None /\ QuestionMatches(receiver.question, p)
       IN  \/ answers /\ receiver' = [receiver EXCEPT !.pc = "claim", !.peeked = p]
           \/ ~answers /\ ReceiverGoto("check")
    /\ UNCHANGED <<closed, active, slots, queries, timer, sent, history, counts, reader>>

\* Whatever waits under the id by now gives up its slot.
Claim ==
    /\ receiver.pc = "claim"
    /\ \/ pending[receiver.id] # None /\ receiver' = [receiver EXCEPT !.pc = "unlog"]
       \/ pending[receiver.id] = None /\ ReceiverGoto("check")
    /\ Vacate(receiver.id)
    /\ UNCHANGED <<closed, active, lru, queries, timer, sent, history, counts, reader>>

Deliver ==
    /\ receiver.pc = "unlog"
    /\ Unlog(receiver.id)
    /\ timer' = Cancelled(receiver.peeked)
    /\ emitted' = emitted \cup {<<receiver.peeked, receiver.question>>}
    /\ counts' = [counts EXCEPT !.replied = @ + 1]
    /\ ReceiverGoto("check")
    /\ UNCHANGED <<closed, active, pending, queries, sent, early, reader>>

ReceiverStep == Check \/ Backoff \/ Peek \/ Claim \/ Deliver

-----------------------------------------------------------------------------

Next ==
    \/ Enter \/ ForwardStep \/ CloseStart \/ CloseStep \/ Teardown
    \/ \E q \in Query : TimerStep(q)
    \/ Receive \/ ReceiveThrows \/ ReceiverStep

Spec == Init /\ [][Next]_vars

\* A cancelled tun reader leaves its loop (isActive, or a read of the closed fd) and
\* closes; inside forward or close it goes on; delays end, and timers then run.
Leave == ~active /\ CloseStart
FairSpec ==
    /\ Spec
    /\ WF_vars(ForwardStep \/ CloseStep \/ Leave)
    /\ \A q \in 1..MaxQueries : WF_vars(q \in Query /\ TimerStep(q))

-----------------------------------------------------------------------------

Is(b) == IF b THEN 1 ELSE 0

\* A client only ever gets the answer to the question it asked, and gets it once,
\* whatever ids are used again and however late the upstream answers.
RightAnswer ==
    /\ \A e \in emitted : queries[e[1]].question = e[2]
    /\ Cardinality(emitted) = counts.replied

\* Until close() clears them, every slot that was filled still waits, or was given
\* up once: to an answer, its timeout, an eviction or its failed send.
SlotsAccounted ==
    reader.pc # "closed" =>
        Newest - Is(reader.pc = "insert") =
            Cardinality(Present)
              + counts.timedOut + counts.evicted + counts.replied + counts.failed
              + Is(reader.pc \in {"unlog", "unlogFailed"}) + Is(receiver.pc = "unlog")
              + Cardinality({q \in Query : timer[q] = "unlog"})

\* The bound holds exactly: nobody but the reader fills slots.
PendingBounded == Cardinality(Present) + Is(reader.pc = "insert") <= MaxPending

\* While the scope lives, a waiting query has a timer that will yet take its slot,
\* unless that timer ran before the slot was there.
StillTimed ==
    active => \A id \in Present :
        timer[pending[id]] \in {"armed", "due"} \/ pending[id] \in early

\* The reader, which serves the whole device, gets out of every forward: eviction ends
\* although the log may name ids nobody waits under, and waiting ids be missing in it.
ForwardReturns == reader.pc = "evict" ~> reader.pc = "idle"

\* No query waits for ever, answered or not, torn down or not, unless its timer ran
\* before its slot was there.
Waits(q) == q \in Query /\ pending[queries[q].id] = q
WaitEnds == \A q \in 1..MaxQueries : Waits(q) /\ q \notin early ~> ~Waits(q)

=============================================================================
