----------------------------- MODULE TcpSession -----------------------------
(***************************************************************************)
(* One captured TCP flow of the Android VPN: the userspace endpoint that   *)
(* answers an on-device client in place of the server it dialled           *)
(* (packages/mobile/modules/local-vpn/android/.../tcp/TcpSession.kt) and   *)
(* relays its stream to an upstream socket.  Every public method runs      *)
(* under the session's monitor, so each is one action here: packets from   *)
(* the client, bytes / EOF / failure from the upstream, and the            *)
(* dispatcher's tick.                                                      *)
(*                                                                         *)
(* Bytes are named by their position in their stream, and a piece of       *)
(* payload is an interval of positions; the sequence number it travels     *)
(* under is separate, and wraps at SeqMod as the code's does at 2^32.      *)
(* Time is counted in ticks: an age is the time since the code's stamp.    *)
(***************************************************************************)
EXTENDS Integers, Sequences, FiniteSets

CONSTANTS
    SeqMod,          \* size of the sequence space (2^32 in the code)
    ClientIsn, Issn, \* initial sequence numbers of the client and of ours
    ClientBytes,     \* length of the client's stream; its FIN follows it
    ServerBytes,     \* length of the upstream's stream
    MaxSegment,      \* most bytes of a client segment, or of an upstream read
    SendMss,         \* sendMss
    Windows,         \* windows the client advertises
    ReasmCap, ReasmEntriesCap, SendCap,      \* REASM_CAP, ..., SEND_CAP
    Rto, MaxRetries, TimeWait, IdleTimeout,  \* RTO_MS, ..., in ticks
    UpstreamMayOverflow, \* the upstream's queue cap is within reach
    EarlyUpstream,   \* the upstream may call before the SYN is processed
    StrayPackets     \* packets a well-behaved client does not send

ASSUME SessionAssumption ==
    /\ SeqMod \in Nat /\ SeqMod > 1
    /\ ClientIsn \in 0..(SeqMod - 1) /\ Issn \in 0..(SeqMod - 1)
    /\ ClientBytes \in Nat /\ ServerBytes \in Nat
    /\ 2 * (ClientBytes + ServerBytes + 3) < SeqMod
    /\ MaxSegment \in Nat /\ SendMss \in Nat \ {0}
    /\ ReasmCap \in Nat /\ ReasmEntriesCap \in Nat /\ SendCap \in Nat
    /\ Rto \in Nat /\ MaxRetries \in Nat /\ TimeWait \in Nat /\ IdleTimeout \in Nat
    /\ Windows \subseteq Nat

VARIABLES
    state, terminated,
    sndUna, sndNxt, clientWnd, sendQ, sendQBytes, unacked,
    upstreamEof, ourFinSeq, finRetries,
    rcvNxt, clientFinSeq, clientFinDone, reassem, reassemBytes,
    finAge, timeWaitAge, idleAge,  \* ticks since finSentAtMs, timeWaitAt, lastActivityMs
    written,      \* upstream: the bytes write() was given, in order
    closeOuts,    \* upstream: closeOut() calls before abort()
    aborts,       \* upstream: abort() calls
    produced,     \* upstream: bytes of its stream handed to onUpstreamData
    reset         \* history: an RST ended the flow, and who sent it

ackVars == <<sndUna, clientWnd>>
queueVars == <<sndNxt, sendQ, sendQBytes, unacked, ourFinSeq>>
finVars == <<finRetries, finAge>>
rcvVars == <<rcvNxt, clientFinSeq, clientFinDone, reassem, reassemBytes>>
upVars == <<written, closeOuts, produced>>
vars == <<state, terminated, ackVars, queueVars, upstreamEof, finVars, rcvVars,
          timeWaitAge, idleAge, upVars, aborts, reset>>

States == {"CLOSED", "SYN_RECV", "ESTABLISHED", "FIN_WAIT_1", "FIN_WAIT_2",
           "CLOSE_WAIT", "LAST_ACK", "TIME_WAIT"}
None == -1

(***************************************************************************)
(* Wrap-aware sequence arithmetic, and pieces of payload.                  *)
(***************************************************************************)
SeqAdd(s, n) == (s + n) % SeqMod
SeqDiff(a, b) == LET d == (a - b) % SeqMod
                 IN  IF 2 * d >= SeqMod THEN d - SeqMod ELSE d
SeqGt(a, b) == SeqDiff(a, b) > 0
SeqGe(a, b) == SeqDiff(a, b) >= 0

AtMost(a, b) == IF a < b THEN a ELSE b

Piece(from, len) == [from |-> from, len |-> len]
Drop(d, n) == Piece(d.from + AtMost(n, d.len), d.len - AtMost(n, d.len))
Take(d, n) == Piece(d.from, n)
Positions(d) == [i \in 1..d.len |-> d.from + i - 1]
EndOf(e) == SeqAdd(e.seq, e.data.len)

-----------------------------------------------------------------------------
(***************************************************************************)
(* Receiving: processRcv, on a record `in` of what it works on.  `room` is *)
(* how many writes the upstream's queue still takes; past it, write()      *)
(* calls abortWithRst() on the session that is calling it.                 *)
(***************************************************************************)
Inbound(room) == [rcv |-> rcvNxt, buf |-> reassem, bytes |-> reassemBytes,
                  out |-> <<>>, room |-> room, aborted |-> FALSE, refused |-> FALSE]

\* A half-closed upstream's bytes are acknowledged and dropped.
AcceptInbound(in, data) ==
    LET got == [in EXCEPT !.rcv = SeqAdd(@, data.len)]
    IN  IF upstreamEof THEN got
        ELSE IF in.room = 0
        THEN [got EXCEPT !.aborted = TRUE, !.buf = {}, !.bytes = 0]
        ELSE [got EXCEPT !.out = @ \o Positions(data), !.room = @ - 1]

DrainOne(in) ==
    LET first == CHOOSE e \in in.buf : \A f \in in.buf : SeqGe(f.seq, e.seq)
        overlap == SeqDiff(in.rcv, first.seq)
        fresh == Drop(first.data, overlap)
        rest == [in EXCEPT !.buf = @ \ {first}, !.bytes = @ - first.data.len]
    IN  IF in.buf = {} \/ overlap < 0 THEN in
        ELSE IF fresh.len > 0 THEN AcceptInbound(rest, fresh) ELSE rest

DrainReassem(in) ==
    LET after[n \in 0..Cardinality(reassem)] ==
            IF n = 0 THEN in ELSE DrainOne(after[n - 1])
    IN  after[Cardinality(reassem)]

\* The buffered entry at or before s (set of none or one), and the one at or after.
FloorEntry(buf, s) == {e \in buf : /\ SeqGe(s, e.seq)
                                   /\ \A f \in buf : SeqGe(s, f.seq) => SeqGe(e.seq, f.seq)}
\* Variant: the tail that overlaps the next entry is not trimmed.
CeilingIgnored(buf, s) == {}

CeilingEntry(buf, s) == {e \in buf : /\ SeqGe(e.seq, s)
                                     /\ \A f \in buf : SeqGe(f.seq, s) => SeqGe(f.seq, e.seq)}

BufferSegment(in, seq, data) ==
    LET ahead == SeqDiff(seq, in.rcv)
        over == {SeqDiff(EndOf(e), seq) : e \in FloorEntry(in.buf, seq)}
        cover == IF \E n \in over : n > 0 THEN CHOOSE n \in over : TRUE ELSE 0
        s == SeqAdd(seq, cover)
        uncovered == Drop(data, cover)
        under == {SeqDiff(EndOf([seq |-> s, data |-> uncovered]), e.seq) :
                    e \in CeilingEntry(in.buf, s)}
        cut == IF \E n \in under : n > 0 THEN CHOOSE n \in under : TRUE ELSE 0
        d == Take(uncovered, uncovered.len - cut)
        others == {e \in in.buf : e.seq # s}
        replaced == {e.data.len : e \in in.buf \ others}
        freed == IF replaced = {} THEN 0 ELSE CHOOSE n \in replaced : TRUE
    IN  IF ahead <= 0 \/ ahead > ReasmCap THEN [in EXCEPT !.refused = TRUE]
        ELSE IF cover >= data.len \/ d.len = 0 THEN in
        ELSE IF \/ in.bytes + d.len > ReasmCap
                \/ others = in.buf /\ Cardinality(in.buf) >= ReasmEntriesCap
        THEN [in EXCEPT !.refused = TRUE]
        ELSE [in EXCEPT !.buf = others \cup {[seq |-> s, data |-> d]},
                        !.bytes = @ - freed + d.len]

\* Variant: a retransmission's consumed prefix is passed on again.
ReceiveDataAgain(seg, room) ==
    IF seg.data.len = 0 THEN Inbound(room)
    ELSE IF SeqDiff(rcvNxt, seg.seq) >= 0
    THEN DrainReassem(AcceptInbound(Inbound(room), seg.data))
    ELSE BufferSegment(Inbound(room), seg.seq, seg.data)

ReceiveData(seg, room) ==
    LET back == SeqDiff(rcvNxt, seg.seq)
        data == IF back > 0 THEN Drop(seg.data, back) ELSE seg.data
    IN  IF data.len = 0 THEN Inbound(room)
        ELSE IF back >= 0 THEN DrainReassem(AcceptInbound(Inbound(room), data))
        ELSE BufferSegment(Inbound(room), seg.seq, data)

\* Where the client's FIN is known to be once the segment's data is in.
FinSeqAfter(seg, rcv) ==
    LET at == SeqAdd(seg.seq, seg.data.len)
    IN  IF /\ seg.fin /\ SeqGe(at, rcv)
           /\ clientFinSeq = None \/ ~SeqGe(at, clientFinSeq)
        THEN at ELSE clientFinSeq

\* Variant: a FIN is consumed as soon as it is seen.
FinSeen(finSeq, rcv) == finSeq # None /\ ~clientFinDone

\* checkClientFin, whose guard holds for a FIN recorded before its gap filled.
FinReached(finSeq, rcv) == finSeq # None /\ ~clientFinDone /\ SeqGe(rcv, finSeq)

\* Variant: our own FIN need not be acknowledged first.
AfterClientFinEager(st, una) ==
    IF st = "ESTABLISHED" THEN "CLOSE_WAIT"
    ELSE IF st \in {"FIN_WAIT_1", "FIN_WAIT_2"} THEN "TIME_WAIT" ELSE st

\* The state consumeClientFin leaves.
AfterClientFin(st, una) ==
    IF st = "ESTABLISHED" THEN "CLOSE_WAIT"
    ELSE IF st = "FIN_WAIT_2" \/ (st = "FIN_WAIT_1" /\ SeqGt(una, ourFinSeq))
    THEN "TIME_WAIT" ELSE st

-----------------------------------------------------------------------------
(***************************************************************************)
(* Sending: pruneUnacked, flushSendQueue and maybeEmitFin.                 *)
(***************************************************************************)
\* The segments from the first that ends past una.
Unpruned(una) ==
    LET past == {i \in DOMAIN unacked : SeqGt(EndOf(unacked[i]), una)}
        first == CHOOSE i \in past : \A j \in past : i <= j
    IN  IF past = {} THEN <<>> ELSE SubSeq(unacked, first, Len(unacked))

\* Variant: a partially acknowledged segment is kept whole.
PrunedWhole(una) == Unpruned(una)

Pruned(una) ==
    LET left == Unpruned(una)
        cut == SeqDiff(una, left[1].seq)
    IN  IF left # <<>> /\ cut > 0
        THEN [left EXCEPT ![1].seq = una, ![1].data = Drop(@, cut)]
        ELSE left

Sent(seq, data) == [seq |-> seq, data |-> data, age |-> 0, retries |-> 0]

\* Variant: bytes in flight are not taken off the window.
WholeWindow(o, una, wnd) == wnd

Usable(o, una, wnd) == wnd - SeqDiff(o.nxt, una)

\* One turn of flushSendQueue's loop, on the queue o.q.
EmitOne(o, una, wnd) ==
    LET usable == Usable(o, una, wnd)
        n == AtMost(usable, AtMost(SendMss, o.q[1].len))
    IN  IF o.q = <<>> \/ usable <= 0 THEN o
        ELSE [q |-> IF n = o.q[1].len THEN Tail(o.q) ELSE [o.q EXCEPT ![1] = Drop(@, n)],
              bytes |-> o.bytes - n,
              nxt |-> SeqAdd(o.nxt, n),
              unacked |-> Append(o.unacked, Sent(o.nxt, Take(o.q[1], n)))]

Flushed(st, una, wnd, o) ==
    LET after[n \in 0..o.bytes] == IF n = 0 THEN o ELSE EmitOne(after[n - 1], una, wnd)
    IN  IF st \in {"ESTABLISHED", "CLOSE_WAIT"} /\ ourFinSeq = None
        THEN after[o.bytes] ELSE o

Outbound(q, bytes, un) == [q |-> q, bytes |-> bytes, nxt |-> sndNxt, unacked |-> un]

\* Variant: the FIN does not wait for the queue to drain.
FinReadyEarly(st, eof, q) ==
    eof /\ ourFinSeq = None /\ st \in {"ESTABLISHED", "CLOSE_WAIT"}

FinReady(st, eof, q) ==
    eof /\ ourFinSeq = None /\ q = <<>> /\ st \in {"ESTABLISHED", "CLOSE_WAIT"}

\* flushSendQueue then maybeEmitFin, from state st.
SendPhase(st, una, wnd, eof, o) ==
    LET f == Flushed(st, una, wnd, o)
        fin == FinReady(st, eof, f.q)
    IN  /\ sendQ' = f.q /\ sendQBytes' = f.bytes /\ unacked' = f.unacked
        /\ sndNxt' = IF fin THEN SeqAdd(f.nxt, 1) ELSE f.nxt
        /\ ourFinSeq' = IF fin THEN f.nxt ELSE ourFinSeq
        /\ finAge' = IF fin THEN 0 ELSE finAge
        /\ state' = IF ~fin THEN st
                    ELSE IF st = "ESTABLISHED" THEN "FIN_WAIT_1" ELSE "LAST_ACK"

-----------------------------------------------------------------------------
(***************************************************************************)
(* The end of a flow: terminate() clears the buffers and aborts the        *)
(* upstream.  `how` tells whether an RST ended it.                         *)
(***************************************************************************)
Terminate(how) ==
    /\ state' = "CLOSED" /\ terminated' = TRUE
    /\ reassem' = {} /\ reassemBytes' = 0
    /\ sendQ' = <<>> /\ sendQBytes' = 0 /\ unacked' = <<>>
    /\ aborts' = aborts + 1
    /\ reset' = how
    /\ UNCHANGED <<sndNxt, ourFinSeq, upstreamEof, finVars, timeWaitAge, produced>>

TerminateNow(how) ==
    /\ Terminate(how)
    /\ UNCHANGED <<ackVars, rcvNxt, clientFinSeq, clientFinDone, written, closeOuts>>

Live == UNCHANGED <<terminated, aborts, reset>>

-----------------------------------------------------------------------------
(***************************************************************************)
(* Packets of the client.                                                  *)
(***************************************************************************)

\* An RST that does not sit exactly on rcvNxt is answered with a challenge ACK.
OnReset(seg) ==
    \/ seg.seq = rcvNxt /\ TerminateNow("received")
    \/ /\ seg.seq # rcvNxt /\ Live
       /\ UNCHANGED <<state, ackVars, queueVars, upstreamEof, finVars, rcvVars,
                      timeWaitAge, upVars>>

\* The dispatcher opens a session for a bare SYN and hands it that SYN, unless another
\* reader has found the session in the table by then and hands over its packet first.
OnSyn(seg) ==
    \/ ~seg.syn /\ TerminateNow("sent")
    \/ /\ seg.syn
       /\ rcvNxt' = SeqAdd(seg.seq, 1)
       /\ clientWnd' = seg.window
       /\ sndUna' = Issn /\ sndNxt' = SeqAdd(Issn, 1)
       /\ state' = "SYN_RECV"
       /\ Live
       /\ UNCHANGED <<sendQ, sendQBytes, unacked, upstreamEof, ourFinSeq, finVars,
                      clientFinSeq, clientFinDone, reassem, reassemBytes, timeWaitAge,
                      upVars>>

\* What processRcv leaves when the upstream's overflow ended the flow inside it.
AbortedReceive(in, una, wnd, finSeq, consumed) ==
    /\ Terminate("sent")
    /\ sndUna' = una /\ clientWnd' = wnd
    /\ rcvNxt' = IF consumed THEN SeqAdd(in.rcv, 1) ELSE in.rcv
    /\ clientFinSeq' = finSeq /\ clientFinDone' = (clientFinDone \/ consumed)
    /\ written' = written \o in.out
    /\ UNCHANGED closeOuts

\* The rest of a handler after its ACK was processed, with the state, sndUna and
\* unacked that left: processRcv, then the send queue.
ReceiveThenSend(seg, room, st, una, un) ==
    LET in == ReceiveData(seg, room)
        finSeq == FinSeqAfter(seg, in.rcv)
        consumed == FinReached(finSeq, in.rcv)
        st2 == IF consumed THEN AfterClientFin(st, una) ELSE st
    IN  \/ /\ in.refused
           /\ Terminate("sent")
           /\ sndUna' = una /\ clientWnd' = seg.window
           /\ UNCHANGED <<rcvNxt, clientFinSeq, clientFinDone, written, closeOuts>>
        \/ in.aborted /\ AbortedReceive(in, una, seg.window, finSeq, consumed)
        \/ /\ ~in.refused /\ ~in.aborted /\ Live
           /\ sndUna' = una /\ clientWnd' = seg.window
           /\ rcvNxt' = IF consumed THEN SeqAdd(in.rcv, 1) ELSE in.rcv
           /\ clientFinSeq' = finSeq /\ clientFinDone' = (clientFinDone \/ consumed)
           /\ reassem' = in.buf /\ reassemBytes' = in.bytes
           /\ written' = written \o in.out
           /\ closeOuts' = IF consumed THEN closeOuts + 1 ELSE closeOuts
           /\ timeWaitAge' = IF st2 = "TIME_WAIT" THEN 0 ELSE timeWaitAge
           /\ SendPhase(st2, una, seg.window, upstreamEof, Outbound(sendQ, sendQBytes, un))
           /\ UNCHANGED <<upstreamEof, finRetries, produced>>

\* A segment without payload or FIN only carries an ACK and a window.
AckThenSend(seg, st, una, un) ==
    /\ Live
    /\ sndUna' = una /\ clientWnd' = seg.window
    /\ timeWaitAge' = IF st = "TIME_WAIT" THEN 0 ELSE timeWaitAge
    /\ SendPhase(st, una, seg.window, upstreamEof, Outbound(sendQ, sendQBytes, un))
    /\ UNCHANGED <<upstreamEof, finRetries, rcvVars, upVars>>

Carries(seg) == seg.data.len > 0 \/ seg.fin

HandshakeAck(seg) == seg.ack /\ seg.ackNo = sndNxt /\ seg.seq = rcvNxt

OnSynRecv(seg, room) ==
    \/ /\ seg.syn /\ seg.seq = ClientIsn /\ Live  \* the SYN-ACK is emitted again
       /\ UNCHANGED <<state, ackVars, queueVars, upstreamEof, finVars, rcvVars,
                      timeWaitAge, upVars>>
    \/ seg.syn /\ seg.seq # ClientIsn /\ TerminateNow("sent")
    \/ ~seg.syn /\ ~HandshakeAck(seg) /\ TerminateNow("sent")
    \/ /\ ~seg.syn /\ HandshakeAck(seg)
       /\ IF Carries(seg)
          THEN ReceiveThenSend(seg, room, "ESTABLISHED", seg.ackNo, unacked)
          ELSE AckThenSend(seg, "ESTABLISHED", seg.ackNo, unacked)

Advances(seg) == seg.ack /\ SeqGt(seg.ackNo, sndUna)
AcksOurFin(seg) == Advances(seg) /\ ourFinSeq # None /\ SeqGt(seg.ackNo, ourFinSeq)

\* Variant: the client's FIN, consumed before ours was acknowledged, is forgotten.
AfterOurFinPlain == IF state = "FIN_WAIT_1" THEN "FIN_WAIT_2" ELSE state

\* The state onOurFinAcked leaves a flow that goes on.
AfterOurFin == IF state = "FIN_WAIT_1"
               THEN IF clientFinDone THEN "TIME_WAIT" ELSE "FIN_WAIT_2"
               ELSE state

BeyondClientFin(seg) == /\ clientFinDone /\ seg.data.len > 0
                        /\ SeqGt(SeqAdd(seg.seq, seg.data.len), rcvNxt)

OnDataSegment(seg, room) ==
    LET una == IF Advances(seg) THEN seg.ackNo ELSE sndUna
        un == IF Advances(seg) THEN Pruned(una) ELSE unacked
        st == IF AcksOurFin(seg) THEN AfterOurFin ELSE state
    IN  \/ seg.ack /\ SeqGt(seg.ackNo, sndNxt) /\ TerminateNow("sent")
        \/ /\ ~(seg.ack /\ SeqGt(seg.ackNo, sndNxt))
           /\ \/ /\ AcksOurFin(seg) /\ state = "LAST_ACK"
                 /\ Terminate(reset)
                 /\ sndUna' = una
                 /\ UNCHANGED <<clientWnd, rcvNxt, clientFinSeq, clientFinDone,
                                written, closeOuts>>
              \/ /\ ~(AcksOurFin(seg) /\ state = "LAST_ACK")
                 /\ \/ /\ BeyondClientFin(seg)
                       /\ Terminate("sent")
                       /\ sndUna' = una /\ clientWnd' = seg.window
                       /\ UNCHANGED <<rcvNxt, clientFinSeq, clientFinDone,
                                      written, closeOuts>>
                    \/ /\ ~BeyondClientFin(seg) /\ Carries(seg)
                       /\ ReceiveThenSend(seg, room, st, una, un)
                    \/ /\ ~BeyondClientFin(seg) /\ ~Carries(seg)
                       /\ AckThenSend(seg, st, una, un)

\* A FIN is acknowledged once more; nothing else happens.
OnTimeWait == /\ Live
              /\ UNCHANGED <<state, ackVars, queueVars, upstreamEof, finVars, rcvVars,
                             timeWaitAge, upVars>>

OnPacket(seg, room) ==
    /\ ~terminated
    /\ idleAge' = 0
    /\ \/ seg.rst /\ state # "CLOSED" /\ OnReset(seg)
       \/ ~seg.rst /\ state = "CLOSED" /\ OnSyn(seg)
       \/ ~seg.rst /\ state = "SYN_RECV" /\ OnSynRecv(seg, room)
       \/ ~seg.rst /\ state = "TIME_WAIT" /\ OnTimeWait
       \/ /\ ~seg.rst /\ state \notin {"CLOSED", "SYN_RECV", "TIME_WAIT"}
          /\ OnDataSegment(seg, room)

-----------------------------------------------------------------------------
(***************************************************************************)
(* The upstream's reader thread.                                           *)
(***************************************************************************)
UpstreamTalks == ~terminated /\ (EarlyUpstream \/ state # "CLOSED")

OnUpstreamData(n) ==
    /\ UpstreamTalks /\ ~upstreamEof /\ produced + n <= ServerBytes
    /\ idleAge' = 0
    /\ produced' = produced + n
    /\ LET data == Piece(produced + 1, n)
       IN  \/ /\ ourFinSeq # None \/ state \in {"TIME_WAIT", "CLOSED"}
              /\ Live
              /\ UNCHANGED <<state, queueVars, finAge>>
           \/ /\ ourFinSeq = None /\ state \notin {"TIME_WAIT", "CLOSED"}
              /\ sendQBytes + n <= SendCap
              /\ Live
              /\ SendPhase(state, sndUna, clientWnd, upstreamEof,
                           Outbound(Append(sendQ, data), sendQBytes + n, unacked))
    /\ UNCHANGED <<ackVars, upstreamEof, finRetries, rcvVars, timeWaitAge,
                   written, closeOuts>>

\* The client keeps its window shut while the upstream pushes past SEND_CAP.
OnUpstreamOverrun(n) ==
    /\ UpstreamTalks /\ ~upstreamEof /\ produced + n <= ServerBytes
    /\ ourFinSeq = None /\ state \notin {"TIME_WAIT", "CLOSED"}
    /\ sendQBytes + n > SendCap
    /\ idleAge' = 0
    /\ TerminateNow("sent")

OnUpstreamEof ==
    /\ UpstreamTalks /\ ~upstreamEof
    /\ idleAge' = 0
    /\ upstreamEof' = TRUE
    /\ Live
    /\ SendPhase(state, sndUna, clientWnd, TRUE, Outbound(sendQ, sendQBytes, unacked))
    /\ UNCHANGED <<ackVars, finRetries, rcvVars, timeWaitAge, upVars>>

\* onUpstreamError, and the dispatcher's eviction and close, which also call
\* abortWithRst: an RST goes out unless no SYN was processed yet.
AbortWithRst ==
    /\ ~terminated /\ (EarlyUpstream \/ state # "CLOSED")
    /\ TerminateNow(IF state = "CLOSED" THEN reset ELSE "sent")
    /\ UNCHANGED idleAge

-----------------------------------------------------------------------------
(***************************************************************************)
(* onTick: idle reap, end of TIME_WAIT, retransmission.                    *)
(***************************************************************************)
Older(age) == AtMost(age + 1, Rto)

\* Entries the retransmission scan reaches: it stops at the first fresh one.
Due == {i \in DOMAIN unacked : \A j \in 1..i : unacked[j].age + 1 >= Rto}

FinDue == /\ ourFinSeq # None /\ SeqGe(ourFinSeq, sndUna)
          /\ finAge + 1 >= Rto

\* Variant: one retransmission too many.
GivesUpLate == \/ \E i \in Due : unacked[i].retries > MaxRetries
               \/ FinDue /\ finRetries > MaxRetries

GivesUp == \/ \E i \in Due : unacked[i].retries >= MaxRetries
           \/ FinDue /\ finRetries >= MaxRetries

\* Variant: the retransmissions of data are not counted.
ResentUncounted(e) == [e EXCEPT !.age = 0]

Resent(e) == [e EXCEPT !.age = 0, !.retries = @ + 1]

Retransmit ==
    /\ unacked' = [i \in DOMAIN unacked |->
                     IF i \in Due THEN Resent(unacked[i])
                     ELSE [unacked[i] EXCEPT !.age = Older(@)]]
    /\ finAge' = IF FinDue THEN 0 ELSE IF ourFinSeq = None THEN finAge ELSE Older(finAge)
    /\ finRetries' = IF FinDue THEN finRetries + 1 ELSE finRetries

\* Variant: only established flows are reaped.
IdleEstablished == state = "ESTABLISHED" /\ idleAge + 1 > IdleTimeout

Idle == idleAge + 1 > IdleTimeout
TimeWaitOver == state = "TIME_WAIT" /\ timeWaitAge + 1 > TimeWait

OnTick ==
    /\ ~terminated /\ state # "CLOSED"
    /\ idleAge' = AtMost(idleAge + 1, IdleTimeout)
    /\ \/ Idle /\ TerminateNow("sent")
       \/ ~Idle /\ TimeWaitOver /\ TerminateNow(reset)
       \/ ~Idle /\ ~TimeWaitOver /\ GivesUp /\ TerminateNow("sent")
       \/ /\ ~Idle /\ ~TimeWaitOver /\ ~GivesUp
          /\ Retransmit
          /\ timeWaitAge' = IF state = "TIME_WAIT" THEN timeWaitAge + 1 ELSE timeWaitAge
          /\ Live
          /\ UNCHANGED <<state, ackVars, sndNxt, sendQ, sendQBytes, ourFinSeq,
                         upstreamEof, rcvVars, upVars>>

-----------------------------------------------------------------------------
(***************************************************************************)
(* The client and its network.  A client that keeps to its stream may send *)
(* any part of it at any time, acknowledge anything emitted so far, shut   *)
(* and open its window, and reset; the tun queue may lose, repeat and      *)
(* reorder, so any such packet can be the next one.                        *)
(***************************************************************************)
ClientSeq(n) == SeqAdd(ClientIsn, n + 1)   \* sequence number of byte n + 1

Segment(syn, rst, ack, fin, seq, ackNo, window, data) ==
    [syn |-> syn, rst |-> rst, ack |-> ack, fin |-> fin, seq |-> seq,
     ackNo |-> ackNo, window |-> window, data |-> data]

AckNos == {SeqAdd(Issn, k) : k \in 1..SeqDiff(sndNxt, Issn)}

SynPackets == {Segment(TRUE, FALSE, FALSE, FALSE, ClientIsn, 0, w, Piece(1, 0)) : w \in Windows}

DataPackets ==
    {Segment(FALSE, FALSE, TRUE, f, ClientSeq(lo), a, w, Piece(lo + 1, n)) :
        f \in BOOLEAN, lo \in 0..ClientBytes, a \in AckNos, w \in Windows,
        n \in 0..MaxSegment}

InStream(seg) == LET end == seg.data.from + seg.data.len - 1
                 IN  end <= ClientBytes /\ (seg.fin => end = ClientBytes)

RstPackets == {Segment(FALSE, TRUE, FALSE, FALSE, ClientSeq(n), 0, 0, Piece(1, 0)) :
                n \in 0..(ClientBytes + 1)}

\* A SYN of another incarnation, an acknowledgement of what was never sent, a
\* segment without ACK, data after the FIN.
Strays ==
    {Segment(TRUE, FALSE, FALSE, FALSE, SeqAdd(ClientIsn, 1), 0, w, Piece(1, 0)) :
        w \in Windows}
    \cup {Segment(FALSE, FALSE, TRUE, FALSE, rcvNxt, SeqAdd(sndNxt, 1), w, Piece(1, 0)) :
            w \in Windows}
    \cup {Segment(FALSE, FALSE, FALSE, FALSE, rcvNxt, 0, w, Piece(1, 0)) : w \in Windows}
    \cup (IF clientFinDone
          THEN {Segment(FALSE, FALSE, TRUE, FALSE, rcvNxt, sndUna, w,
                        Piece(ClientBytes + 1, 1)) : w \in Windows}
          ELSE {})

\* What another reader hands over ahead of the SYN.
Overtaking == {Segment(FALSE, FALSE, TRUE, FALSE, ClientSeq(0), 0, w, Piece(1, 0)) :
                w \in Windows}

ClientPackets ==
    IF state = "CLOSED" THEN SynPackets \cup (IF StrayPackets THEN Overtaking ELSE {})
    ELSE SynPackets \cup {seg \in DataPackets : InStream(seg)} \cup RstPackets
         \cup (IF StrayPackets THEN Strays ELSE {})

\* Writes the upstream's queue takes during one packet; a packet makes at most
\* one per reassembly entry and one of its own.
Rooms == IF UpstreamMayOverflow THEN 0..(ReasmEntriesCap + 1) ELSE {ReasmEntriesCap + 1}

-----------------------------------------------------------------------------

Init ==
    /\ state = "CLOSED" /\ terminated = FALSE
    /\ sndUna = 0 /\ sndNxt = 0 /\ clientWnd = 0
    /\ sendQ = <<>> /\ sendQBytes = 0 /\ unacked = <<>>
    /\ upstreamEof = FALSE /\ ourFinSeq = None /\ finRetries = 0 /\ finAge = 0
    /\ rcvNxt = 0 /\ clientFinSeq = None /\ clientFinDone = FALSE
    /\ reassem = {} /\ reassemBytes = 0
    /\ timeWaitAge = 0 /\ idleAge = 0
    /\ written = <<>> /\ closeOuts = 0 /\ aborts = 0 /\ produced = 0
    /\ reset = "none"

\* The dispatcher has dropped the session.
Gone == terminated /\ UNCHANGED vars

Next ==
    \/ \E seg \in ClientPackets, room \in Rooms : OnPacket(seg, room)
    \/ \E n \in 1..MaxSegment : OnUpstreamData(n) \/ OnUpstreamOverrun(n)
    \/ OnUpstreamEof
    \/ AbortWithRst
    \/ OnTick
    \/ Gone

Spec == Init /\ [][Next]_vars

\* The dispatcher's ticker (VpnFilterService, every 100 ms) keeps running;
\* nothing is assumed of the client or of the upstream.
FairSpec == Spec /\ WF_vars(OnTick)

-----------------------------------------------------------------------------
Pieces == [from : 1..(ClientBytes + ServerBytes + 1), len : 0..(ClientBytes + ServerBytes)]
SeqNos == 0..(SeqMod - 1)

TypeOK ==
    /\ state \in States /\ terminated \in BOOLEAN
    /\ sndUna \in SeqNos /\ sndNxt \in SeqNos /\ rcvNxt \in SeqNos
    /\ clientWnd \in Windows \cup {0}
    /\ ourFinSeq \in SeqNos \cup {None} /\ clientFinSeq \in SeqNos \cup {None}
    /\ sendQ \in Seq(Pieces) /\ sendQBytes \in 0..SendCap
    /\ unacked \in Seq([seq : SeqNos, data : Pieces, age : 0..Rto, retries : 0..MaxRetries])
    /\ reassem \subseteq [seq : SeqNos, data : Pieces]
    /\ reassemBytes \in 0..ReasmCap /\ Cardinality(reassem) <= ReasmEntriesCap
    /\ upstreamEof \in BOOLEAN /\ clientFinDone \in BOOLEAN
    /\ finRetries \in 0..MaxRetries /\ finAge \in 0..Rto
    /\ timeWaitAge \in 0..TimeWait /\ idleAge \in 0..IdleTimeout
    /\ written \in Seq(1..ClientBytes) /\ closeOuts \in Nat /\ aborts \in Nat
    /\ produced \in 0..ServerBytes
    /\ reset \in {"none", "sent", "received"}

\* The upstream is given the client's stream in order, without a gap or a
\* repeat, however segments arrive; and rcvNxt, which tells the client what it
\* need not send again, never runs ahead of what the upstream was given.
UpstreamStream ==
    /\ written = [i \in 1..Len(written) |-> i]
    /\ state # "CLOSED" /\ ~upstreamEof =>
          rcvNxt = SeqAdd(ClientSeq(Len(written)), IF clientFinDone THEN 1 ELSE 0)

\* Reassembly holds bytes under the sequence numbers they have in the stream,
\* each once, all still ahead of rcvNxt, and counts exactly the bytes it holds.
ReassemblySound ==
    /\ \A e \in reassem : /\ e.data.len > 0 /\ SeqGt(e.seq, rcvNxt)
                          /\ e.seq = ClientSeq(e.data.from - 1)
    /\ reassemBytes = Cardinality(UNION {{SeqAdd(e.seq, k) : k \in 0..(e.data.len - 1)} :
                                            e \in reassem})

\* Unacknowledged segments and the send queue are one unbroken run of the
\* upstream's stream, from the byte sndUna names to the last byte read, each
\* segment under its own sequence number: what is sent, or sent again, is the
\* stream, and the byte counters agree.
SendBuffer ==
    state # "CLOSED" =>
        LET run == [i \in DOMAIN unacked |-> unacked[i].data] \o sendQ
            finAcked == ourFinSeq # None /\ SeqGt(sndUna, ourFinSeq)
            una == IF state = "SYN_RECV" THEN 1
                   ELSE SeqDiff(sndUna, Issn) - (IF finAcked THEN 1 ELSE 0)
        IN  /\ \A i \in DOMAIN run :
                  /\ run[i].len > 0
                  /\ run[i].from = IF i = 1 THEN una ELSE run[i - 1].from + run[i - 1].len
            /\ produced + 1 = IF run = <<>> THEN una
                              ELSE run[Len(run)].from + run[Len(run)].len
            /\ \A i \in DOMAIN unacked : unacked[i].seq = SeqAdd(Issn, unacked[i].data.from)
            /\ sendQBytes = Cardinality(UNION {{sendQ[i].from + k : k \in 0..(sendQ[i].len - 1)} :
                                                  i \in DOMAIN sendQ})

\* Our FIN takes the sequence number after the last byte the upstream sent, so
\* no byte is cut off by it, and it is out in every state that says so.
FinAfterData ==
    /\ state \in {"FIN_WAIT_1", "FIN_WAIT_2", "LAST_ACK", "TIME_WAIT"} => ourFinSeq # None
    /\ ourFinSeq # None => /\ upstreamEof
                           /\ ourFinSeq = SeqAdd(Issn, produced + 1)
                           /\ sendQ = <<>>

\* New data leaves only inside the window the client advertised last.
WindowRespected ==
    [][LET nxt == IF ourFinSeq' # None THEN ourFinSeq' ELSE sndNxt'
       IN  state # "CLOSED" /\ SeqGt(nxt, sndNxt) => SeqDiff(nxt, sndUna') <= clientWnd']_vars

\* The state names which sides have closed: with our FIN out the upstream has
\* ended and nothing is queued behind the FIN, and the CLOSE_WAIT side knows the
\* client's FIN was consumed; a terminated session is CLOSED, empty, and aborted its
\* upstream exactly once.
StatePairing ==
    /\ state \in {"FIN_WAIT_1", "FIN_WAIT_2", "LAST_ACK", "TIME_WAIT"} =>
          upstreamEof /\ sendQ = <<>>
    /\ state \in {"SYN_RECV", "ESTABLISHED", "CLOSE_WAIT"} => ourFinSeq = None
    /\ state \in {"CLOSE_WAIT", "LAST_ACK", "TIME_WAIT"} => clientFinDone
    /\ state \in {"SYN_RECV", "ESTABLISHED", "FIN_WAIT_2"} => ~clientFinDone
    /\ aborts = IF terminated THEN 1 ELSE 0
    /\ terminated => state = "CLOSED" /\ sendQ = <<>> /\ unacked = <<>> /\ reassem = {}

\* A flow ends with an RST one side has seen, or after both FINs were exchanged
\* and ours was acknowledged: the client is never left with a silent end.
EndsHonestly ==
    terminated => \/ reset # "none"
                  \/ clientFinDone /\ ourFinSeq # None /\ SeqGt(sndUna, ourFinSeq)

\* Once client and upstream fall silent, ticks alone end the flow.
SilentFlowEnds == (<>[][OnTick]_vars) => <>[](state = "CLOSED")

\* Bytes in flight, and our FIN, are acknowledged or given up on, however much
\* the client and the upstream keep talking meanwhile.
FlightResolved ==
    \A k \in SeqNos :
        []<>~(state # "CLOSED" /\ sndUna = k /\ (unacked # <<>> \/ ourFinSeq = k))

-----------------------------------------------------------------------------
(***************************************************************************)
(* What the session promises: two reliable streams (StreamRelay).          *)
(***************************************************************************)
Relay == INSTANCE StreamRelay WITH
    given <- written,
    shut <- closeOuts = 1,
    acked <- IF state = "CLOSED" THEN 0 ELSE SeqDiff(rcvNxt, ClientSeq(0)),
    taken <- produced,
    eof <- upstreamEof,
    confirmed <- IF state = "CLOSED" /\ ~(terminated /\ reset = "none")
                 THEN 0 ELSE SeqDiff(sndUna, Issn),
    end <- IF ~terminated THEN "open" ELSE IF reset = "none" THEN "clean" ELSE "reset"

\* Whatever the packets, every step of the session is one the two ends of a
\* reliable relay may see.
ImplementsRelay == Relay!Spec

=============================================================================
