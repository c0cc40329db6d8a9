-------------------------- MODULE TcpSessionProofs --------------------------
(***************************************************************************)
(* TLAPS proofs about the sending half of a TCP session, for every stream, *)
(* window, cap, timeout and size of the sequence space: the queues hold    *)
(* the upstream's stream without a gap, the FIN comes behind its last      *)
(* byte, no byte leaves outside the window, no end is silent, the session  *)
(* implements a relay of two reliable streams, and its states agree with   *)
(* what the two sides have closed.                                         *)
(*                                                                         *)
(* All but the last hold while the upstream does not call before the SYN   *)
(* (~EarlyUpstream): run tcp_early shows what such a call loses.           *)
(***************************************************************************)
EXTENDS TcpReceiveProofs

\* A session whose SYN was not processed yet has no FIN on record.
Unborn == state = "CLOSED" /\ ~terminated => ourFinSeq = None /\ ~clientFinDone

Flags == clientFinDone \in BOOLEAN /\ upstreamEof \in BOOLEAN

IndInv == StatePairing /\ Unborn /\ Flags

\* What StatePairing asks of a live session, of the values a handler passes on.
Paired(st, finSeq, finDone, eof, q) ==
    /\ st \in {"FIN_WAIT_1", "FIN_WAIT_2", "LAST_ACK", "TIME_WAIT"} => eof /\ q = <<>>
    /\ st \in {"SYN_RECV", "ESTABLISHED", "CLOSE_WAIT", "CLOSED"} => finSeq = None
    /\ st \in {"CLOSE_WAIT", "LAST_ACK", "TIME_WAIT"} => finDone
    /\ st \in {"SYN_RECV", "ESTABLISHED", "FIN_WAIT_2", "CLOSED"} => ~finDone

LEMMA LivePaired ==
    ~terminated => (IndInv <=> /\ aborts = 0
                               /\ Paired(state, ourFinSeq, clientFinDone, upstreamEof, sendQ)
                               /\ Flags)
BY DEF IndInv, StatePairing, Unborn, Paired

\* A session that ends is CLOSED and empty, and its one abort() has been made.
LEMMA TerminateInd ==
    ASSUME IndInv, ~terminated, NEW how, Terminate(how), clientFinDone' \in BOOLEAN
    PROVE  IndInv'
BY DEF IndInv, StatePairing, Unborn, Flags, Terminate

\* flushSendQueue and maybeEmitFin keep paired values paired.
LEMMA SendPhaseInd ==
    ASSUME NEW st, NEW una, NEW wnd, NEW eof \in BOOLEAN, NEW o,
           SendPhase(st, una, wnd, eof, o), upstreamEof' = eof,
           Paired(st, ourFinSeq, clientFinDone', eof, o.q), clientFinDone' \in BOOLEAN,
           ~terminated, terminated' = terminated, aborts = 0, aborts' = aborts
    PROVE  IndInv'
<1> DEFINE f == Flushed(st, una, wnd, o)
           fin == FinReady(st, eof, f.q)
<1>1. /\ sendQ' = f.q /\ ourFinSeq' = (IF fin THEN f.nxt ELSE ourFinSeq)
      /\ state' = IF ~fin THEN st
                  ELSE IF st = "ESTABLISHED" THEN "FIN_WAIT_1" ELSE "LAST_ACK"
  BY DEF SendPhase
<1>2. st \notin {"ESTABLISHED", "CLOSE_WAIT"} => f = o
  BY DEF Flushed
<1>3. fin => /\ eof /\ f.q = <<>> /\ st \in {"ESTABLISHED", "CLOSE_WAIT"}
  BY DEF FinReady
<1> HIDE DEF f
<1> HIDE DEF fin
<1>4. Paired(state', ourFinSeq', clientFinDone', upstreamEof', sendQ')
  <2>1. CASE fin
    BY <1>1, <1>3, <2>1 DEF Paired
  <2>2. CASE ~fin /\ st \in {"ESTABLISHED", "CLOSE_WAIT"}
    BY <1>1, <2>2 DEF Paired
  <2>3. CASE ~fin /\ st \notin {"ESTABLISHED", "CLOSE_WAIT"}
    BY <1>1, <1>2, <2>3 DEF Paired
  <2> QED
    BY <2>1, <2>2, <2>3
<1> QED
  BY <1>4 DEF IndInv, StatePairing, Unborn, Flags, Paired

\* The states consumeClientFin and onOurFinAcked lead to are paired.
LEMMA AfterClientFinPaired ==
    ASSUME NEW st, NEW una, NEW finDone, NEW q,
           Paired(st, ourFinSeq, finDone, upstreamEof, q), st # "CLOSED", st # "SYN_RECV"
    PROVE  Paired(AfterClientFin(st, una), ourFinSeq, TRUE, upstreamEof, q)
BY DEF Paired, AfterClientFin

LEMMA AfterOurFinPaired ==
    ASSUME IndInv, ~terminated
    PROVE  Paired(AfterOurFin, ourFinSeq, clientFinDone, upstreamEof, sendQ)
BY DEF IndInv, StatePairing, Unborn, Flags, Paired, AfterOurFin

-----------------------------------------------------------------------------

\* The end of a handler, with the state its ACK left.
LEMMA ReceiveThenSendInd ==
    ASSUME IndInv, ~terminated, NEW seg, NEW room, NEW st, NEW una, NEW un,
           Paired(st, ourFinSeq, clientFinDone, upstreamEof, sendQ),
           st # "CLOSED", st # "SYN_RECV", ReceiveThenSend(seg, room, st, una, un)
    PROVE  IndInv'
<1> DEFINE in == ReceiveData(seg, room)
           finSeq == FinSeqAfter(seg, in.rcv)
           consumed == FinReached(finSeq, in.rcv)
           st2 == IF consumed THEN AfterClientFin(st, una) ELSE st
           o == Outbound(sendQ, sendQBytes, un)
<1>1. consumed \in BOOLEAN
  BY DEF FinReached
<1>2. o.q = sendQ
  BY DEF Outbound
<1>3. CASE in.refused /\ Terminate("sent") /\ UNCHANGED clientFinDone
  BY <1>3, TerminateInd DEF IndInv, Flags
<1>4. CASE AbortedReceive(in, una, seg.window, finSeq, consumed)
  <2>1. Terminate("sent") /\ clientFinDone' = (clientFinDone \/ consumed)
    BY <1>4 DEF AbortedReceive
  <2> QED
    BY <1>1, <2>1, TerminateInd DEF IndInv, Flags
<1>5. ASSUME Live, clientFinDone' = (clientFinDone \/ consumed),
             SendPhase(st2, una, seg.window, upstreamEof, o), UNCHANGED upstreamEof
      PROVE  IndInv'
  <2>1. clientFinDone' \in BOOLEAN /\ upstreamEof \in BOOLEAN /\ aborts = 0
    BY <1>1, <1>5 DEF IndInv, Flags, StatePairing
  <2>2. Paired(st2, ourFinSeq, clientFinDone', upstreamEof, sendQ)
    <3>1. CASE consumed
      <4>1. Paired(AfterClientFin(st, una), ourFinSeq, TRUE, upstreamEof, sendQ)
        BY AfterClientFinPaired
      <4> QED
        BY <1>5, <3>1, <4>1 DEF Paired
    <3>2. CASE ~consumed
      BY <1>5, <2>1, <3>2 DEF IndInv, Flags, Paired
    <3> QED
      BY <3>1, <3>2
  <2>3. terminated' = terminated /\ aborts' = aborts
    BY <1>5 DEF Live
  <2> HIDE DEF st2
  <2> HIDE DEF o
  <2> QED
    BY <1>2, <1>5, <2>1, <2>2, <2>3, SendPhaseInd
<1> QED
  BY <1>3, <1>4, <1>5 DEF ReceiveThenSend

LEMMA AckThenSendInd ==
    ASSUME IndInv, ~terminated, NEW seg, NEW st, NEW una, NEW un,
           Paired(st, ourFinSeq, clientFinDone, upstreamEof, sendQ),
           AckThenSend(seg, st, una, un)
    PROVE  IndInv'
<1> DEFINE o == Outbound(sendQ, sendQBytes, un)
<1>1. /\ SendPhase(st, una, seg.window, upstreamEof, o)
      /\ UNCHANGED <<upstreamEof, clientFinDone, terminated, aborts>>
  BY DEF AckThenSend, Live, rcvVars
<1>2. o.q = sendQ
  BY DEF Outbound
<1>3. clientFinDone' \in BOOLEAN /\ upstreamEof \in BOOLEAN /\ aborts = 0
  BY <1>1 DEF IndInv, Flags, StatePairing
<1> HIDE DEF o
<1> QED
  BY <1>1, <1>2, <1>3, SendPhaseInd

\* A step that leaves every variable the invariant reads, or ends the session.
Untouched == UNCHANGED <<state, terminated, sendQ, unacked, upstreamEof, ourFinSeq,
                         clientFinDone, reassem, aborts>>

LEMMA UntouchedInd == IndInv /\ Untouched => IndInv'
BY DEF IndInv, StatePairing, Unborn, Flags, Untouched

LEMMA TerminateNowInd ==
    ASSUME IndInv, ~terminated, NEW how, TerminateNow(how)
    PROVE  IndInv'
BY TerminateInd DEF TerminateNow, IndInv, Flags

LEMMA OnPacketInd ==
    ASSUME IndInv, NEW seg, NEW room, OnPacket(seg, room)
    PROVE  IndInv'
<1>1. ~terminated /\ aborts = 0
  BY DEF OnPacket, IndInv, StatePairing
<1>2. CASE OnReset(seg)
  <2>1. CASE TerminateNow("received")
    BY <1>1, <2>1, TerminateNowInd
  <2>2. CASE Untouched
    BY <2>2, UntouchedInd
  <2> QED
    BY <1>2, <2>1, <2>2 DEF OnReset, Untouched, Live, queueVars, rcvVars
<1>3. CASE state = "CLOSED" /\ OnSyn(seg)
  <2>1. CASE ~seg.syn /\ TerminateNow("sent")
    BY <1>1, <2>1, TerminateNowInd
  <2>2. CASE seg.syn
    BY <1>1, <1>3, <2>2 DEF OnSyn, Live, finVars, IndInv, StatePairing, Unborn, Flags
  <2> QED
    BY <1>3, <2>1, <2>2 DEF OnSyn
<1>4. CASE state = "SYN_RECV" /\ OnSynRecv(seg, room)
  <2>1. CASE TerminateNow("sent")
    BY <1>1, <2>1, TerminateNowInd
  <2>2. CASE Untouched
    BY <2>2, UntouchedInd
  <2>3. Paired("ESTABLISHED", ourFinSeq, clientFinDone, upstreamEof, sendQ)
    BY <1>4 DEF IndInv, StatePairing, Paired
  <2>4. CASE ReceiveThenSend(seg, room, "ESTABLISHED", seg.ackNo, unacked)
    BY <1>1, <2>3, <2>4, ReceiveThenSendInd
  <2>5. CASE AckThenSend(seg, "ESTABLISHED", seg.ackNo, unacked)
    BY <1>1, <2>3, <2>5, AckThenSendInd
  <2> QED
    BY <1>4, <2>1, <2>2, <2>4, <2>5
       DEF OnSynRecv, Untouched, Live, queueVars, rcvVars
<1>5. CASE OnTimeWait
  BY <1>5, UntouchedInd DEF OnTimeWait, Untouched, Live, queueVars, rcvVars
<1>6. CASE state \notin {"CLOSED", "SYN_RECV", "TIME_WAIT"} /\ OnDataSegment(seg, room)
  <2> DEFINE una == IF Advances(seg) THEN seg.ackNo ELSE sndUna
             un == IF Advances(seg) THEN Pruned(una) ELSE unacked
             st == IF AcksOurFin(seg) THEN AfterOurFin ELSE state
  <2>1. CASE TerminateNow("sent")
    BY <1>1, <2>1, TerminateNowInd
  <2>2. CASE Terminate(reset) /\ UNCHANGED clientFinDone
    BY <1>1, <2>2, TerminateInd DEF IndInv, Flags
  <2>3. CASE Terminate("sent") /\ UNCHANGED clientFinDone
    BY <1>1, <2>3, TerminateInd DEF IndInv, Flags
  <2>4. Paired(st, ourFinSeq, clientFinDone, upstreamEof, sendQ)
    BY <1>1, AfterOurFinPaired, LivePaired
  <2>5. st # "CLOSED" /\ st # "SYN_RECV"
    BY <1>6 DEF AfterOurFin
  <2>6. CASE ReceiveThenSend(seg, room, st, una, un)
    BY <1>1, <2>4, <2>5, <2>6, ReceiveThenSendInd
  <2>7. CASE AckThenSend(seg, st, una, un)
    BY <1>1, <2>4, <2>7, AckThenSendInd
  <2> QED
    BY <1>6, <2>1, <2>2, <2>3, <2>6, <2>7 DEF OnDataSegment
<1> QED
  BY <1>2, <1>3, <1>4, <1>5, <1>6 DEF OnPacket

LEMMA OnUpstreamDataInd ==
    ASSUME IndInv, NEW n, OnUpstreamData(n)
    PROVE  IndInv'
<1> DEFINE o == Outbound(Append(sendQ, Piece(produced + 1, n)), sendQBytes + n, unacked)
<1>1. ~terminated /\ ~upstreamEof /\ UNCHANGED <<upstreamEof, clientFinDone, reassem>>
  BY DEF OnUpstreamData, UpstreamTalks, rcvVars
<1>2. CASE Live /\ UNCHANGED <<state, queueVars, finAge>>
  BY <1>1, <1>2, UntouchedInd DEF Untouched, Live, queueVars
<1>3. CASE Live /\ SendPhase(state, sndUna, clientWnd, upstreamEof, o)
  <2>1. Paired(state, ourFinSeq, clientFinDone', upstreamEof, o.q)
    BY <1>1 DEF IndInv, StatePairing, Unborn, Paired
  <2>2. clientFinDone' \in BOOLEAN /\ upstreamEof \in BOOLEAN /\ aborts = 0
        /\ terminated' = terminated /\ aborts' = aborts
    BY <1>1, <1>3 DEF IndInv, StatePairing, Flags, Live
  <2> HIDE DEF o
  <2> QED
    BY <1>1, <1>3, <2>1, <2>2, SendPhaseInd
<1> QED
  BY <1>2, <1>3 DEF OnUpstreamData

LEMMA OnUpstreamEofInd == IndInv /\ OnUpstreamEof => IndInv'
<1> SUFFICES ASSUME IndInv, OnUpstreamEof PROVE IndInv'
  OBVIOUS
<1> DEFINE o == Outbound(sendQ, sendQBytes, unacked)
<1>1. /\ ~terminated /\ ~upstreamEof /\ upstreamEof' = TRUE /\ Live
      /\ SendPhase(state, sndUna, clientWnd, TRUE, o) /\ UNCHANGED clientFinDone
  BY DEF OnUpstreamEof, UpstreamTalks, rcvVars
<1>2. o.q = sendQ
  BY DEF Outbound
<1>3. Paired(state, ourFinSeq, clientFinDone', TRUE, sendQ)
  BY <1>1 DEF IndInv, StatePairing, Unborn, Paired
<1>4. /\ clientFinDone' \in BOOLEAN /\ aborts = 0
      /\ terminated' = terminated /\ aborts' = aborts
  BY <1>1 DEF IndInv, StatePairing, Flags, Live
<1> HIDE DEF o
<1> QED
  BY <1>1, <1>2, <1>3, <1>4, SendPhaseInd

LEMMA OnTickInd == IndInv /\ OnTick => IndInv'
<1> SUFFICES ASSUME IndInv, OnTick PROVE IndInv'
  OBVIOUS
<1>1. ~terminated
  BY DEF OnTick
<1>2. ASSUME NEW how, TerminateNow(how) PROVE IndInv'
  BY <1>1, <1>2, TerminateNowInd
<1>3. CASE /\ UNCHANGED <<state, terminated, sendQ, upstreamEof, ourFinSeq,
                         clientFinDone, reassem, aborts>>
  BY <1>1, <1>3 DEF IndInv, StatePairing, Unborn, Flags
<1> QED
  BY <1>2, <1>3 DEF OnTick, Live, rcvVars

LEMMA NextInd == IndInv /\ [Next]_vars => IndInv'
<1> SUFFICES ASSUME IndInv, [Next]_vars PROVE IndInv'
  OBVIOUS
<1>1. ASSUME NEW seg, NEW room, OnPacket(seg, room) PROVE IndInv'
  BY <1>1, OnPacketInd
<1>2. ASSUME NEW n, OnUpstreamData(n) PROVE IndInv'
  BY <1>2, OnUpstreamDataInd
<1>3. ASSUME NEW n, OnUpstreamOverrun(n) PROVE IndInv'
  BY <1>3, TerminateNowInd DEF OnUpstreamOverrun, UpstreamTalks
<1>4. CASE OnUpstreamEof
  BY <1>4, OnUpstreamEofInd
<1>5. CASE AbortWithRst
  BY <1>5, TerminateNowInd DEF AbortWithRst
<1>6. CASE OnTick
  BY <1>6, OnTickInd
<1>7. CASE UNCHANGED vars
  BY <1>7, UntouchedInd DEF vars, queueVars, rcvVars, Untouched
<1> QED
  BY <1>1, <1>2, <1>3, <1>4, <1>5, <1>6, <1>7 DEF Next, Gone

\* TcpSession.kt: whatever the client, the network and the upstream do, the
\* state agrees with the FINs exchanged, and a session that ends is empty and
\* has aborted its upstream exactly once.
THEOREM StatesPaired == Spec => []StatePairing
<1>1. Init => IndInv
  BY DEF Init, IndInv, StatePairing, Unborn, Flags
<1>2. IndInv /\ [Next]_vars => IndInv'
  BY NextInd
<1>3. IndInv => StatePairing
  BY DEF IndInv
<1> QED
  BY <1>1, <1>2, <1>3, PTL DEF Spec

-----------------------------------------------------------------------------
(***************************************************************************)
(* The send side, when the upstream does not call before the SYN: what is  *)
(* in flight and what waits are one unbroken run of the upstream's stream. *)
(* Again the proofs argue about positions; byte i of the upstream's stream *)
(* travels under ServerSeq(i), the SYN before it under ServerSeq(0).       *)
(***************************************************************************)
ServerSeq(k) == SeqAdd(Issn, k)

LEMMA ServerSeqs ==
    /\ ServerSeq(0) = Issn
    /\ \A i \in 0..(ServerBytes + 3) : ServerSeq(i) \in SeqNos
    /\ \A i, j \in 0..(ServerBytes + 3) :
          /\ SeqDiff(ServerSeq(i), ServerSeq(j)) = i - j
          /\ SeqGt(ServerSeq(i), ServerSeq(j)) <=> i > j
          /\ SeqGe(ServerSeq(i), ServerSeq(j)) <=> i >= j
          /\ ServerSeq(i) = ServerSeq(j) => i = j
    /\ \A i \in 0..(ServerBytes + 3), n \in Nat :
          i + n <= ServerBytes + 3 => SeqAdd(ServerSeq(i), n) = ServerSeq(i + n)
<1>1. /\ SeqMod \in Nat /\ ServerBytes \in Nat /\ Issn \in SeqNos
      /\ 2 * (ServerBytes + 3) < SeqMod
  BY SessionAssumption DEF SeqNos
<1>2. ASSUME NEW i \in 0..(ServerBytes + 3), NEW j \in 0..(ServerBytes + 3)
      PROVE  /\ ServerSeq(i) \in SeqNos
             /\ SeqDiff(ServerSeq(i), ServerSeq(j)) = i - j
             /\ SeqDiff(ServerSeq(j), ServerSeq(j)) = 0
  <2>1. i \in 0..(SeqMod - 1) /\ j \in 0..(SeqMod - 1)
        /\ 2 * (i - j) < SeqMod /\ 2 * (j - i) < SeqMod /\ 2 * (j - j) < SeqMod
    BY <1>1
  <2>2. /\ SeqDiff(ServerSeq(i), ServerSeq(j)) = i - j
        /\ SeqDiff(ServerSeq(j), ServerSeq(j)) = j - j
    BY <1>1, <2>1, SeqDiffAt DEF ServerSeq
  <2> QED
    BY <1>1, <2>1, <2>2, SeqAddAt DEF ServerSeq
<1>3. ASSUME NEW i \in 0..(ServerBytes + 3), NEW n \in Nat, i + n <= ServerBytes + 3
      PROVE  SeqAdd(ServerSeq(i), n) = ServerSeq(i + n)
  <2>1. i \in Nat /\ i + n < SeqMod
    BY <1>1, <1>3
  <2> QED
    BY <1>1, <2>1, SeqAddTwice DEF ServerSeq
<1>4. \A i, j \in 0..(ServerBytes + 3) :
          /\ SeqGt(ServerSeq(i), ServerSeq(j)) <=> i > j
          /\ SeqGe(ServerSeq(i), ServerSeq(j)) <=> i >= j
          /\ ServerSeq(i) = ServerSeq(j) => i = j
  BY <1>2 DEF SeqGt, SeqGe
<1>5. ServerSeq(0) = Issn
  <2>1. 0 \in 0..(SeqMod - 1) /\ Issn + 0 = Issn /\ Issn < SeqMod
    BY <1>1 DEF SeqNos
  <2> QED
    BY <1>1, <2>1, SeqAddAt DEF ServerSeq
<1> QED
  BY <1>2, <1>3, <1>4, <1>5

PieceEnd(d) == d.from + d.len

\* A queue of pieces that are one run of the upstream's first n bytes, from byte a up to b.
Queue(q, a, b, n) ==
    /\ q \in Seq(Pieces)
    /\ \A i \in 1..Len(q) : q[i].len > 0 /\ PieceEnd(q[i]) <= n + 1
    /\ \A i \in 1..Len(q) : q[i].from = IF i = 1 THEN a ELSE PieceEnd(q[i - 1])
    /\ b = IF q = <<>> THEN a ELSE PieceEnd(q[Len(q)])

Segments == [seq : SeqNos, data : Pieces, age : 0..Rto, retries : 0..MaxRetries]

\* The same of the segments in flight, each under its own sequence number.
Flight(un, a, b, n) ==
    /\ un \in Seq(Segments)
    /\ \A i \in 1..Len(un) : /\ un[i].data.len > 0 /\ PieceEnd(un[i].data) <= n + 1
                            /\ un[i].seq = ServerSeq(un[i].data.from)
    /\ \A i \in 1..Len(un) : un[i].data.from = IF i = 1 THEN a ELSE PieceEnd(un[i - 1].data)
    /\ b = IF un = <<>> THEN a ELSE PieceEnd(un[Len(un)].data)

LEMMA PieceType ==
    ASSUME NEW from \in Nat \ {0}, NEW len \in Nat, from + len <= ServerBytes + 1
    PROVE  /\ Piece(from, len) \in Pieces
           /\ Piece(from, len).from = from /\ Piece(from, len).len = len
           /\ PieceEnd(Piece(from, len)) = from + len
BY SessionAssumption DEF Piece, Pieces, PieceEnd

LEMMA PieceNats ==
    ASSUME NEW d \in Pieces
    PROVE  d.from \in Nat \ {0} /\ d.len \in Nat /\ PieceEnd(d) \in Nat
BY SessionAssumption DEF Pieces, PieceEnd

\* The head of a queue lies at its start, and the rest is a queue behind it.
LEMMA QueueHead ==
    ASSUME NEW q, NEW a, NEW b, NEW n \in 0..ServerBytes, Queue(q, a, b, n), q # <<>>
    PROVE  /\ q[1] \in Pieces /\ q[1].from = a /\ q[1].len > 0 /\ a + q[1].len <= n + 1
           /\ a \in Nat \ {0} /\ q[1].len \in Nat
           /\ Queue(Tail(q), a + q[1].len, b, n)
<1>1. q \in Seq(Pieces) /\ Len(q) \in Nat /\ Len(q) > 0 /\ 1 \in 1..Len(q)
  BY DEF Queue
<1>2. /\ q[1] \in Pieces /\ q[1].from = a /\ q[1].len > 0 /\ PieceEnd(q[1]) <= n + 1
      /\ PieceEnd(q[1]) = a + q[1].len
  BY <1>1 DEF Queue, PieceEnd
<1>3. a \in Nat \ {0} /\ q[1].len \in Nat
  BY <1>2, PieceNats
<1> DEFINE t == Tail(q)
<1>4. t \in Seq(Pieces) /\ Len(t) = Len(q) - 1 /\ \A i \in 1..Len(t) : t[i] = q[i + 1]
  BY <1>1
<1> HIDE DEF t
<1>5. ASSUME NEW i \in 1..Len(t)
      PROVE  t[i].len > 0 /\ PieceEnd(t[i]) <= n + 1
  <2>1. i + 1 \in 1..Len(q) /\ t[i] = q[i + 1]
    BY <1>1, <1>4
  <2> QED
    BY <2>1 DEF Queue
<1>6. ASSUME NEW i \in 1..Len(t)
      PROVE  t[i].from = IF i = 1 THEN a + q[1].len ELSE PieceEnd(t[i - 1])
  <2>1. i + 1 \in 1..Len(q) /\ i + 1 # 1 /\ i + 1 - 1 = i /\ t[i] = q[i + 1]
    BY <1>1, <1>4
  <2>2. t[i].from = PieceEnd(q[i])
    BY <2>1 DEF Queue
  <2>3. CASE i = 1
    BY <1>2, <2>2, <2>3
  <2>4. CASE i # 1
    <3>1. i - 1 \in 1..Len(t) /\ i - 1 + 1 = i
      BY <1>1, <1>4, <2>4
    <3> QED
      BY <1>4, <2>2, <2>4, <3>1
  <2> QED
    BY <2>3, <2>4
<1>7. b = IF t = <<>> THEN a + q[1].len ELSE PieceEnd(t[Len(t)])
  <2>1. CASE t = <<>>
    <3>1. Len(q) = 1
      BY <1>1, <1>4, <2>1
    <3> QED
      BY <1>2, <2>1, <3>1 DEF Queue
  <2>2. CASE t # <<>>
    <3>1. Len(t) \in 1..Len(t) /\ Len(t) + 1 = Len(q)
      BY <1>1, <1>4, <2>2
    <3>2. t[Len(t)] = q[Len(q)]
      BY <1>4, <3>1
    <3> QED
      BY <2>2, <3>2 DEF Queue
  <2> QED
    BY <2>1, <2>2
<1> QED
  BY <1>2, <1>3, <1>4, <1>5, <1>6, <1>7 DEF Queue, t

\* The head of a queue may be sent in part.
LEMMA QueueCut ==
    ASSUME NEW q, NEW a, NEW b, NEW n \in 0..ServerBytes, Queue(q, a, b, n), q # <<>>,
           NEW m \in Nat, m < q[1].len
    PROVE  Queue([q EXCEPT ![1] = Drop(@, m)], a + m, b, n)
<1> DEFINE r == [q EXCEPT ![1] = Drop(@, m)]
           d == Piece(a + m, q[1].len - m)
<1>1. q \in Seq(Pieces) /\ Len(q) \in Nat /\ Len(q) > 0 /\ 1 \in 1..Len(q)
  BY DEF Queue
<1>2. /\ q[1] \in Pieces /\ q[1].from = a /\ q[1].len > 0 /\ a + q[1].len <= n + 1
      /\ a \in Nat \ {0} /\ q[1].len \in Nat /\ n <= ServerBytes
  BY QueueHead
<1>3. Drop(q[1], m) = d
  BY <1>2 DEF Drop, AtMost
<1>4. d \in Pieces /\ d.from = a + m /\ d.len = q[1].len - m /\ PieceEnd(d) = a + q[1].len
  <2>1. /\ a + m \in Nat \ {0} /\ q[1].len - m \in Nat
        /\ a + m + (q[1].len - m) = a + q[1].len /\ a + q[1].len <= ServerBytes + 1
    <3>1. \A k \in Nat : m < k =>
            a + m \in Nat \ {0} /\ k - m \in Nat /\ a + m + (k - m) = a + k
      BY <1>2
    <3>2. a + q[1].len <= ServerBytes + 1
      BY <1>2, SessionAssumption
    <3> QED
      BY <1>2, <3>1, <3>2
  <2> QED
    BY <2>1, PieceType
<1> HIDE DEF d
<1>5. /\ r \in Seq(Pieces) /\ Len(r) = Len(q) /\ r # <<>> /\ r[1] = d
      /\ \A i \in 1..Len(q) : i # 1 => r[i] = q[i]
  BY <1>1, <1>3, <1>4
<1> HIDE DEF r
<1>6. PieceEnd(r[1]) = PieceEnd(q[1])
  BY <1>2, <1>4, <1>5 DEF PieceEnd
<1>7. \A i \in 1..Len(r) : PieceEnd(r[i]) = PieceEnd(q[i]) /\ r[i].len > 0
  BY <1>2, <1>4, <1>5, <1>6 DEF Queue
<1>8. ASSUME NEW i \in 1..Len(r)
      PROVE  r[i].from = IF i = 1 THEN a + m ELSE PieceEnd(r[i - 1])
  <2>1. CASE i = 1
    BY <1>4, <1>5, <2>1
  <2>2. CASE i # 1
    <3>1. i - 1 \in 1..Len(r) /\ i \in 1..Len(q)
      BY <1>1, <1>5, <2>2
    <3> QED
      BY <1>5, <1>7, <2>2, <3>1 DEF Queue
  <2> QED
    BY <2>1, <2>2
<1>9. \A i \in 1..Len(r) : PieceEnd(r[i]) <= n + 1
  BY <1>5, <1>7 DEF Queue
<1>10. b = IF r = <<>> THEN a + m ELSE PieceEnd(r[Len(r)])
  <2>1. Len(r) \in 1..Len(r)
    BY <1>1, <1>5
  <2> QED
    BY <1>5, <1>7, <2>1 DEF Queue
<1>11. Queue(r, a + m, b, n)
  BY <1>5, <1>7, <1>8, <1>9, <1>10 DEF Queue
<1> QED
  BY <1>11 DEF r

\* What the upstream hands over next is queued behind the rest.
LEMMA QueueAppend ==
    ASSUME NEW q, NEW a, NEW n \in 0..ServerBytes, Queue(q, a, n + 1, n),
           NEW len \in Nat \ {0}, n + len <= ServerBytes
    PROVE  Queue(Append(q, Piece(n + 1, len)), a, n + len + 1, n + len)
<1> DEFINE d == Piece(n + 1, len)
           r == Append(q, d)
<1>1. q \in Seq(Pieces) /\ Len(q) \in Nat /\ ServerBytes \in Nat
  BY SessionAssumption DEF Queue
<1>2. d \in Pieces /\ d.from = n + 1 /\ d.len = len /\ PieceEnd(d) = n + 1 + len
  <2>1. n + 1 \in Nat \ {0} /\ len \in Nat /\ n + 1 + len <= ServerBytes + 1
    BY <1>1
  <2> QED
    BY <2>1, PieceType
<1> HIDE DEF d
<1>3. /\ r \in Seq(Pieces) /\ Len(r) = Len(q) + 1 /\ r # <<>> /\ r[Len(q) + 1] = d
      /\ \A i \in 1..Len(q) : r[i] = q[i]
  BY <1>1, <1>2
<1> HIDE DEF r
<1>4. ASSUME NEW i \in 1..Len(r)
      PROVE  /\ r[i].len > 0 /\ PieceEnd(r[i]) <= n + len + 1
             /\ r[i].from = IF i = 1 THEN a ELSE PieceEnd(r[i - 1])
  <2>1. CASE i \in 1..Len(q)
    <3>1. r[i] = q[i] /\ (i # 1 => i - 1 \in 1..Len(q) /\ r[i - 1] = q[i - 1])
      BY <1>1, <1>3, <2>1
    <3>2. PieceEnd(q[i]) \in Nat /\ PieceEnd(q[i]) <= n + 1
      <4>1. q[i] \in Pieces
        BY <1>1, <2>1
      <4> QED
        BY <2>1, <4>1, PieceNats DEF Queue
    <3> QED
      BY <1>1, <2>1, <3>1, <3>2 DEF Queue
  <2>2. CASE i = Len(q) + 1 /\ q = <<>>
    <3>1. i = 1 /\ a = n + 1
      BY <2>2 DEF Queue
    <3> QED
      BY <1>1, <1>2, <1>3, <2>2, <3>1
  <2>3. CASE i = Len(q) + 1 /\ q # <<>>
    <3>1. i # 1 /\ i - 1 = Len(q) /\ Len(q) \in 1..Len(q)
      BY <1>1, <2>3
    <3>2. PieceEnd(r[i - 1]) = n + 1
      BY <1>3, <2>3, <3>1 DEF Queue
    <3> QED
      BY <1>1, <1>2, <1>3, <2>3, <3>1, <3>2
  <2> QED
    BY <1>1, <1>3, <2>1, <2>2, <2>3
<1>5. n + len + 1 = IF r = <<>> THEN a ELSE PieceEnd(r[Len(r)])
  BY <1>1, <1>2, <1>3
<1>6. Queue(r, a, n + len + 1, n + len)
  BY <1>3, <1>4, <1>5 DEF Queue
<1> QED
  BY <1>6 DEF r, d

LEMMA FlightAppend ==
    ASSUME NEW un, NEW a, NEW b \in Nat \ {0}, NEW n \in 0..ServerBytes, Flight(un, a, b, n),
           NEW len \in Nat \ {0}, b + len <= n + 1
    PROVE  Flight(Append(un, Sent(ServerSeq(b), Piece(b, len))), a, b + len, n)
<1> DEFINE e == Sent(ServerSeq(b), Piece(b, len))
           r == Append(un, e)
<1>1. un \in Seq(Segments) /\ Len(un) \in Nat /\ ServerBytes \in Nat
  BY SessionAssumption DEF Flight
<1>2. /\ e \in Segments /\ e.data.from = b /\ e.data.len = len /\ PieceEnd(e.data) = b + len
      /\ e.seq = ServerSeq(b)
  <2>1. b + len <= ServerBytes + 1 /\ b \in 0..(ServerBytes + 3)
    BY <1>1
  <2>2. Piece(b, len) \in Pieces /\ ServerSeq(b) \in SeqNos /\ 0 \in 0..Rto /\ 0 \in 0..MaxRetries
    BY <2>1, PieceType, ServerSeqs, SessionAssumption
  <2> QED
    BY <2>1, <2>2, PieceType DEF Sent, Segments
<1> HIDE DEF e
<1>3. /\ r \in Seq(Segments) /\ Len(r) = Len(un) + 1 /\ r # <<>> /\ r[Len(un) + 1] = e
      /\ \A i \in 1..Len(un) : r[i] = un[i]
  BY <1>1, <1>2
<1> HIDE DEF r
<1>4. ASSUME NEW i \in 1..Len(r)
      PROVE  /\ r[i].data.len > 0 /\ PieceEnd(r[i].data) <= n + 1
             /\ r[i].seq = ServerSeq(r[i].data.from)
             /\ r[i].data.from = IF i = 1 THEN a ELSE PieceEnd(r[i - 1].data)
  <2>1. CASE i \in 1..Len(un)
    <3>1. r[i] = un[i] /\ (i # 1 => i - 1 \in 1..Len(un) /\ r[i - 1] = un[i - 1])
      BY <1>1, <1>3, <2>1
    <3> QED
      BY <1>1, <2>1, <3>1 DEF Flight
  <2>2. CASE i = Len(un) + 1 /\ un = <<>>
    <3>1. i = 1 /\ a = b
      BY <2>2 DEF Flight
    <3> QED
      BY <1>1, <1>2, <1>3, <2>2, <3>1
  <2>3. CASE i = Len(un) + 1 /\ un # <<>>
    <3>1. i # 1 /\ i - 1 = Len(un) /\ Len(un) \in 1..Len(un)
      BY <1>1, <2>3
    <3>2. PieceEnd(r[i - 1].data) = b
      BY <1>3, <2>3, <3>1 DEF Flight
    <3> QED
      BY <1>1, <1>2, <1>3, <2>3, <3>1, <3>2
  <2> QED
    BY <1>1, <1>3, <2>1, <2>2, <2>3
<1>5. b + len = IF r = <<>> THEN a ELSE PieceEnd(r[Len(r)].data)
  BY <1>1, <1>2, <1>3
<1>6. Flight(r, a, b + len, n)
  BY <1>3, <1>4, <1>5 DEF Flight
<1> QED
  BY <1>6 DEF r, e

\* More of the stream read leaves the flight as it is.
LEMMA FlightGrows ==
    ASSUME NEW un, NEW a, NEW b, NEW n \in Nat, NEW n2 \in Nat, n <= n2, Flight(un, a, b, n)
    PROVE  Flight(un, a, b, n2)
<1>1. ASSUME NEW i \in 1..Len(un) PROVE PieceEnd(un[i].data) <= n2 + 1
  <2>1. un[i] \in Segments /\ PieceEnd(un[i].data) <= n + 1
    BY DEF Flight
  <2>2. PieceEnd(un[i].data) \in Nat
    BY <2>1, PieceNats DEF Segments
  <2> QED
    BY <2>1, <2>2
<1> QED
  BY <1>1 DEF Flight

\* Dropping the first segments leaves a flight that starts where the next one does.
LEMMA FlightSuffix ==
    ASSUME NEW un, NEW a, NEW b, NEW n \in 0..ServerBytes, Flight(un, a, b, n),
           NEW f \in 1..Len(un)
    PROVE  /\ Flight(SubSeq(un, f, Len(un)), un[f].data.from, b, n)
           /\ SubSeq(un, f, Len(un)) # <<>> /\ SubSeq(un, f, Len(un))[1] = un[f]
<1> DEFINE r == SubSeq(un, f, Len(un))
<1>1. un \in Seq(Segments) /\ Len(un) \in Nat /\ f \in Nat /\ f > 0 /\ f <= Len(un)
  BY DEF Flight
<1>2. /\ r \in Seq(Segments) /\ Len(r) = Len(un) - f + 1
      /\ \A i \in 1..Len(r) : r[i] = un[i + f - 1]
  BY <1>1
<1> HIDE DEF r
<1>3. Len(r) \in Nat /\ Len(r) > 0 /\ r # <<>>
  BY <1>1, <1>2
<1>4. r[1] = un[f]
  <2>1. 1 \in 1..Len(r) /\ 1 + f - 1 = f
    BY <1>1, <1>3
  <2> QED
    BY <1>2, <2>1
<1>5. ASSUME NEW i \in 1..Len(r)
      PROVE  /\ r[i].data.len > 0 /\ PieceEnd(r[i].data) <= n + 1
             /\ r[i].seq = ServerSeq(r[i].data.from)
             /\ r[i].data.from = IF i = 1 THEN un[f].data.from ELSE PieceEnd(r[i - 1].data)
  <2>1. i + f - 1 \in 1..Len(un) /\ r[i] = un[i + f - 1]
    BY <1>1, <1>2
  <2>2. CASE i = 1
    BY <1>4, <2>1, <2>2 DEF Flight
  <2>3. CASE i # 1
    <3>1. /\ i - 1 \in 1..Len(r) /\ i - 1 + f - 1 = i + f - 1 - 1 /\ i + f - 1 # 1
      BY <1>1, <1>2, <2>3
    <3>2. r[i - 1] = un[i + f - 1 - 1]
      BY <1>2, <3>1
    <3> QED
      BY <2>1, <2>3, <3>1, <3>2 DEF Flight
  <2> QED
    BY <2>2, <2>3
<1>6. b = IF r = <<>> THEN un[f].data.from ELSE PieceEnd(r[Len(r)].data)
  <2>1. Len(r) \in 1..Len(r) /\ Len(r) + f - 1 = Len(un) /\ un # <<>>
    BY <1>1, <1>2, <1>3
  <2>2. r[Len(r)] = un[Len(un)]
    BY <1>2, <2>1
  <2> QED
    BY <1>3, <2>1, <2>2 DEF Flight
<1>7. Flight(r, un[f].data.from, b, n)
  BY <1>2, <1>5, <1>6 DEF Flight
<1> QED
  BY <1>3, <1>4, <1>7 DEF r

LEMMA SegmentType ==
    ASSUME NEW e \in Segments
    PROVE  /\ e.data \in Pieces /\ e.seq \in SeqNos /\ e.age \in 0..Rto /\ e.retries \in 0..MaxRetries
           /\ e.data.from \in Nat \ {0} /\ e.data.len \in Nat
           /\ PieceEnd(e.data) = e.data.from + e.data.len
<1>1. /\ e.data \in Pieces /\ e.seq \in SeqNos /\ e.age \in 0..Rto /\ e.retries \in 0..MaxRetries
  BY DEF Segments
<1> QED
  BY <1>1, PieceNats DEF PieceEnd

LEMMA CutSums ==
    ASSUME NEW n \in 0..ServerBytes, NEW a \in Nat \ {0}, NEW k \in Nat, a + k <= n + 1,
           NEW m \in Nat, m < k
    PROVE  /\ a + m \in Nat \ {0} /\ k - m \in Nat \ {0} /\ a + m + (k - m) = a + k
           /\ a + k <= ServerBytes + 1 /\ a + m \in 0..(ServerBytes + 3)
BY SessionAssumption

LEMMA FlightAt ==
    ASSUME NEW un, NEW a, NEW b, NEW n \in 0..ServerBytes, Flight(un, a, b, n),
           NEW i \in 1..Len(un)
    PROVE  /\ un[i] \in Segments /\ un[i].data \in Pieces
           /\ un[i].data.from \in 1..n /\ un[i].data.len \in Nat \ {0}
           /\ PieceEnd(un[i].data) = un[i].data.from + un[i].data.len
           /\ PieceEnd(un[i].data) \in 1..(n + 1)
           /\ un[i].seq = ServerSeq(un[i].data.from)
           /\ EndOf(un[i]) = ServerSeq(PieceEnd(un[i].data))
<1>1. /\ un \in Seq(Segments) /\ un[i].data.len > 0 /\ PieceEnd(un[i].data) <= n + 1
      /\ un[i].seq = ServerSeq(un[i].data.from)
  BY DEF Flight
<1>2. un[i] \in Segments
  BY <1>1
<1> DEFINE f == un[i].data.from
           k == un[i].data.len
<1>3. /\ un[i].data \in Pieces /\ f \in Nat \ {0} /\ k \in Nat /\ k > 0
      /\ PieceEnd(un[i].data) = f + k /\ f + k <= n + 1 /\ un[i].seq = ServerSeq(f)
      /\ EndOf(un[i]) = SeqAdd(un[i].seq, k)
  BY <1>1, <1>2, SegmentType DEF EndOf
<1> HIDE DEF f, k
<1>4. /\ f \in 1..n /\ k \in Nat \ {0} /\ f + k \in 1..(n + 1)
      /\ f \in 0..(ServerBytes + 3) /\ f + k <= ServerBytes + 3
  BY <1>3, SessionAssumption
<1>5. SeqAdd(ServerSeq(f), k) = ServerSeq(f + k)
  BY <1>3, <1>4, ServerSeqs
<1> QED
  BY <1>2, <1>3, <1>4, <1>5 DEF f, k

\* The first of some segments, given another number and other data.
LEMMA HeadReplaced ==
    ASSUME NEW un \in Seq(Segments), un # <<>>, NEW s \in SeqNos, NEW d \in Pieces,
           NEW r, r = [un EXCEPT ![1].seq = s, ![1].data = d]
    PROVE  /\ r \in Seq(Segments) /\ Len(r) = Len(un) /\ r # <<>>
           /\ r[1].seq = s /\ r[1].data = d
           /\ \A i \in 1..Len(un) : i # 1 => r[i] = un[i]
<1>1. Len(un) \in Nat /\ Len(un) > 0 /\ 1 \in 1..Len(un)
  OBVIOUS
<1>2. PICK x : r = [un EXCEPT ![1] = x] /\ x = [un[1] EXCEPT !.seq = s, !.data = d]
  BY <1>1
<1>3. un[1] \in Segments
  BY <1>1
<1>4. x \in Segments /\ x.seq = s /\ x.data = d
  BY <1>2, <1>3 DEF Segments
<1> DEFINE Headed(q, y) == /\ q \in Seq(Segments) /\ Len(q) = Len(un) /\ q # <<>> /\ q[1] = y
                           /\ \A i \in 1..Len(un) : i # 1 => q[i] = un[i]
<1>5. ASSUME NEW y \in Segments PROVE Headed([un EXCEPT ![1] = y], y)
  BY <1>1
<1> HIDE DEF Headed
<1>6. Headed(r, x)
  BY <1>2, <1>4, <1>5
<1> QED
  BY <1>4, <1>6 DEF Headed

\* The first segment in flight may be acknowledged in part.
LEMMA FlightCut ==
    ASSUME NEW un, NEW a, NEW b, NEW n \in 0..ServerBytes, Flight(un, a, b, n), un # <<>>,
           NEW m \in Nat, m < un[1].data.len
    PROVE  Flight([un EXCEPT ![1].seq = ServerSeq(a + m), ![1].data = Drop(@, m)], a + m, b, n)
<1> DEFINE r == [un EXCEPT ![1].seq = ServerSeq(a + m), ![1].data = Drop(@, m)]
           d == Piece(a + m, un[1].data.len - m)
<1>1. un \in Seq(Segments) /\ Len(un) \in Nat /\ Len(un) > 0 /\ 1 \in 1..Len(un)
  BY DEF Flight
<1> DEFINE k == un[1].data.len
<1>2. /\ un[1].data.from = a /\ a \in Nat \ {0} /\ k \in Nat \ {0} /\ a + k <= n + 1
      /\ PieceEnd(un[1].data) = a + k
  <2>1. un[1].data.from = a
    BY <1>1 DEF Flight
  <2> QED
    BY <1>1, <2>1, FlightAt
<1>3. Drop(un[1].data, m) = d
  BY <1>2 DEF Drop, AtMost
<1> HIDE DEF k, d, r
<1>0. a \in Nat \ {0} /\ k \in Nat /\ a + k <= n + 1 /\ m < k
  BY <1>2 DEF k
<1>4. /\ a + m \in Nat \ {0} /\ k - m \in Nat \ {0} /\ a + m + (k - m) = a + k
      /\ a + k <= ServerBytes + 1 /\ a + m \in 0..(ServerBytes + 3)
  BY <1>0, CutSums
<1>5. /\ d \in Pieces /\ d.from = a + m /\ d.len = k - m /\ PieceEnd(d) = a + k
  BY <1>4, PieceType DEF k, d
<1>6. ServerSeq(a + m) \in SeqNos
  BY <1>4, ServerSeqs
<1>7. /\ r \in Seq(Segments) /\ Len(r) = Len(un) /\ r # <<>>
      /\ r[1].data = d /\ r[1].seq = ServerSeq(a + m)
      /\ \A i \in 1..Len(un) : i # 1 => r[i] = un[i]
  <2>1. r = [un EXCEPT ![1].seq = ServerSeq(a + m), ![1].data = d]
    BY <1>3 DEF r
  <2> QED
    BY <1>1, <1>5, <1>6, <2>1, HeadReplaced
<1>8. PieceEnd(r[1].data) = PieceEnd(un[1].data) /\ r[1].data.len > 0
  BY <1>2, <1>4, <1>5, <1>7
<1>9. ASSUME NEW i \in 1..Len(r)
      PROVE  PieceEnd(r[i].data) = PieceEnd(un[i].data) /\ r[i].data.len > 0
  BY <1>7, <1>8 DEF Flight
<1>10. ASSUME NEW i \in 1..Len(r)
       PROVE  /\ r[i].data.from = IF i = 1 THEN a + m ELSE PieceEnd(r[i - 1].data)
              /\ r[i].seq = ServerSeq(r[i].data.from)
  <2>1. CASE i = 1
    BY <1>4, <1>5, <1>7, <2>1
  <2>2. CASE i # 1
    <3>1. i - 1 \in 1..Len(r) /\ i \in 1..Len(un)
      BY <1>1, <1>7, <2>2
    <3> QED
      BY <1>7, <1>9, <2>2, <3>1 DEF Flight
  <2> QED
    BY <2>1, <2>2
<1>11. \A i \in 1..Len(r) : PieceEnd(r[i].data) <= n + 1
  BY <1>7, <1>9 DEF Flight
<1>12. b = IF r = <<>> THEN a + m ELSE PieceEnd(r[Len(r)].data)
  <2>1. Len(r) \in 1..Len(r)
    BY <1>1, <1>7
  <2> QED
    BY <1>7, <1>9, <2>1 DEF Flight
<1>13. Flight(r, a + m, b, n)
  BY <1>7, <1>9, <1>10, <1>11, <1>12 DEF Flight
<1> QED
  BY <1>13 DEF r

\* pruneUnacked: an acknowledgement up to byte u leaves the flight from u on.
LEMMA PrunedSound ==
    ASSUME NEW n \in 0..ServerBytes, NEW a \in 1..(n + 1), NEW b \in a..(n + 1),
           Flight(unacked, a, b, n), NEW u \in (a + 1)..(n + 2), u <= b \/ b = n + 1
    PROVE  Flight(Pruned(ServerSeq(u)), AtMost(u, b), b, n)
<1> DEFINE past == {i \in DOMAIN unacked : SeqGt(EndOf(unacked[i]), ServerSeq(u))}
           first == CHOOSE i \in past : \A j \in past : i <= j
<1>1. /\ unacked \in Seq(Segments) /\ Len(unacked) \in Nat /\ DOMAIN unacked = 1..Len(unacked)
      /\ ServerBytes \in Nat /\ u \in 0..(ServerBytes + 3) /\ n <= ServerBytes
  BY SessionAssumption DEF Flight
<1>2. ASSUME NEW i \in 1..Len(unacked)
      PROVE  /\ PieceEnd(unacked[i].data) \in 1..(n + 1) /\ unacked[i].data.from \in 1..n
             /\ EndOf(unacked[i]) = ServerSeq(PieceEnd(unacked[i].data))
             /\ i \in past <=> PieceEnd(unacked[i].data) > u
  <2>1. /\ PieceEnd(unacked[i].data) \in 1..(n + 1) /\ unacked[i].data.from \in 1..n
        /\ EndOf(unacked[i]) = ServerSeq(PieceEnd(unacked[i].data))
    BY FlightAt
  <2>2. PieceEnd(unacked[i].data) \in 0..(ServerBytes + 3)
    BY <1>1, <2>1
  <2>3. SeqGt(EndOf(unacked[i]), ServerSeq(u)) <=> PieceEnd(unacked[i].data) > u
    BY <1>1, <2>1, <2>2, ServerSeqs
  <2> QED
    BY <1>1, <2>1, <2>3
<1>3. Unpruned(ServerSeq(u)) = IF past = {} THEN <<>> ELSE SubSeq(unacked, first, Len(unacked))
  BY DEF Unpruned
<1>4. past \subseteq 1..Len(unacked)
  BY <1>1
<1> HIDE DEF past
<1>5. CASE past = {}
  <2>1. Pruned(ServerSeq(u)) = <<>>
    BY <1>3, <1>5 DEF Pruned
  <2>2. b <= u
    <3>1. CASE unacked = <<>>
      BY <3>1 DEF Flight
    <3>2. CASE unacked # <<>>
      <4>1. Len(unacked) \in 1..Len(unacked) /\ b = PieceEnd(unacked[Len(unacked)].data)
        BY <1>1, <3>2 DEF Flight
      <4> QED
        BY <1>1, <1>2, <1>5, <4>1
    <3> QED
      BY <3>1, <3>2
  <2>3. AtMost(u, b) = b
    BY <2>2 DEF AtMost
  <2>4. Flight(<<>>, b, b, n)
    BY DEF Flight
  <2> QED
    BY <2>1, <2>3, <2>4
<1>6. CASE past # {}
  <2>1. first \in past /\ \A j \in past : first <= j
    <3>1. past \in SUBSET Nat
      BY <1>4
    <3>2. \E i \in past : \A j \in past : i <= j
      BY <1>6, <3>1, Least
    <3> QED
      BY <3>2
  <2> HIDE DEF first
  <2>2. first \in 1..Len(unacked) /\ PieceEnd(unacked[first].data) > u
    BY <1>2, <1>4, <2>1
  <2> DEFINE left == SubSeq(unacked, first, Len(unacked))
             from == unacked[first].data.from
             cut == u - from
  <2>3. Flight(left, from, b, n) /\ left # <<>> /\ left[1] = unacked[first]
    BY <2>2, FlightSuffix
  <2>4. from \in 1..u
    <3>1. CASE first = 1
      BY <1>2, <2>2, <3>1 DEF Flight
    <3>2. CASE first # 1
      <4>1. first - 1 \in 1..Len(unacked) /\ first - 1 \notin past
        BY <1>1, <1>4, <2>1, <2>2, <3>2
      <4>2. PieceEnd(unacked[first - 1].data) <= u
        BY <1>1, <1>2, <4>1
      <4>3. from = PieceEnd(unacked[first - 1].data)
        BY <2>2, <3>2 DEF Flight
      <4> QED
        BY <1>2, <4>1, <4>2, <4>3
    <3> QED
      BY <3>1, <3>2
  <2>5. u <= b
    BY <1>2, <2>2
  <2>6. unacked[first].seq = ServerSeq(from)
    BY <2>2 DEF Flight
  <2>7. /\ Pruned(ServerSeq(u)) = IF cut > 0 THEN [left EXCEPT ![1].seq = ServerSeq(u),
                                                              ![1].data = Drop(@, cut)]
                                 ELSE left
    <3>1. SeqDiff(ServerSeq(u), left[1].seq) = cut
      <4>1. left[1].seq = ServerSeq(from)
        BY <2>3, <2>6
      <4> HIDE DEF from, left
      <4>2. from \in 0..(ServerBytes + 3)
        BY <1>1, <2>4
      <4> QED
        BY <1>1, <4>1, <4>2, ServerSeqs
    <3>2. Unpruned(ServerSeq(u)) = left
      BY <1>3, <1>6
    <3> HIDE DEF left, cut
    <3> QED
      BY <2>3, <3>1, <3>2 DEF Pruned
  <2>8. AtMost(u, b) = u
    BY <1>1, <2>5 DEF AtMost
  <2>9. cut \in Nat /\ from + cut = u /\ cut < left[1].data.len
    <3>1. /\ PieceEnd(unacked[first].data) = from + left[1].data.len
          /\ left[1].data.len \in Nat
      BY <2>2, <2>3, FlightAt
    <3> HIDE DEF left, from
    <3> QED
      BY <1>1, <2>2, <2>4, <3>1
  <2> HIDE DEF left, from, cut
  <2>10. CASE cut > 0
    <3>1. Flight([left EXCEPT ![1].seq = ServerSeq(from + cut), ![1].data = Drop(@, cut)],
                 from + cut, b, n)
      BY <2>3, <2>9, FlightCut
    <3> QED
      BY <2>7, <2>8, <2>9, <2>10, <3>1
  <2>11. CASE ~(cut > 0)
    <3>1. from = u
      BY <2>4, <2>9, <2>11
    <3> QED
      BY <2>3, <2>7, <2>8, <2>11, <3>1
  <2> QED
    BY <2>10, <2>11
<1> QED
  BY <1>5, <1>6

\* What flushSendQueue works on: with n bytes read, those from x on wait, and those from
\* a on are in flight.
Batch(q, bytes, nxt, un) == [q |-> q, bytes |-> bytes, nxt |-> nxt, unacked |-> un]

BatchSound(o, a, x, n) ==
    /\ x \in a..(n + 1)
    /\ \E q, un : /\ o = Batch(q, n + 1 - x, ServerSeq(x), un)
                  /\ Queue(q, x, n + 1, n) /\ Flight(un, a, x, n)

\* What is emitted stays inside the window: at most wnd bytes from byte u on.
Within(x, x2, u, wnd) == x2 = x \/ x2 - u <= wnd

LEMMA EmitOneSound ==
    ASSUME NEW n \in 0..ServerBytes, NEW a \in 1..(n + 1), NEW x, NEW o,
           BatchSound(o, a, x, n), NEW u \in 1..(n + 1), NEW wnd \in Nat
    PROVE  \E x2 \in x..(n + 1) : /\ BatchSound(EmitOne(o, ServerSeq(u), wnd), a, x2, n)
                                  /\ Within(x, x2, u, wnd)
<1> DEFINE una == ServerSeq(u)
<1>1. PICK q, un : /\ o = Batch(q, n + 1 - x, ServerSeq(x), un)
                   /\ Queue(q, x, n + 1, n) /\ Flight(un, a, x, n)
  BY DEF BatchSound
<1>2. /\ x \in 1..(n + 1) /\ x \in a..(n + 1) /\ ServerBytes \in Nat /\ n <= ServerBytes
      /\ x \in 0..(ServerBytes + 3) /\ u \in 0..(ServerBytes + 3) /\ SendMss \in Nat \ {0}
  BY SessionAssumption DEF BatchSound
<1> DEFINE bytes == n + 1 - x
           nxt == ServerSeq(x)
<1>3. o.q = q /\ o.bytes = bytes /\ o.nxt = nxt /\ o.unacked = un
  BY <1>1 DEF Batch
<1> DEFINE usable == wnd - (x - u)
           m == AtMost(usable, AtMost(SendMss, q[1].len))
<1>4. Usable(o, una, wnd) = usable
  BY <1>2, <1>3, ServerSeqs DEF Usable
<1> HIDE DEF una
<1>5. CASE q = <<>> \/ usable <= 0
  <2>1. EmitOne(o, una, wnd) = o
    BY <1>3, <1>4, <1>5 DEF EmitOne
  <2> QED
    BY <1>2, <2>1 DEF Within, una
<1>6. CASE q # <<>> /\ ~(usable <= 0)
  <2>1. /\ q[1] \in Pieces /\ q[1].from = x /\ q[1].len > 0 /\ x + q[1].len <= n + 1
        /\ q[1].len \in Nat /\ Queue(Tail(q), x + q[1].len, n + 1, n)
    BY <1>1, <1>6, QueueHead
  <2> DEFINE k == q[1].len
  <2>2. /\ m \in Nat \ {0} /\ m <= k /\ m <= usable /\ x + m - u <= wnd
        /\ x + m \in x..(n + 1) /\ x + m \in a..(n + 1) /\ x \in Nat \ {0} /\ x + m <= n + 1
        /\ x + m <= ServerBytes + 3
    <3>1. k \in Nat /\ k > 0 /\ x + k <= n + 1 /\ usable > 0 /\ usable \in Int
      BY <1>2, <1>6, <2>1
    <3> HIDE DEF k
    <3>2. \E j \in Nat \ {0} : j = AtMost(SendMss, k) /\ j <= k
      BY <1>2, <3>1 DEF AtMost
    <3>3. m \in Nat \ {0} /\ m <= k /\ m <= usable
      BY <3>1, <3>2 DEF AtMost, k
    <3> HIDE DEF m
    <3> QED
      BY <1>2, <3>1, <3>3
  <2> HIDE DEF m, k, usable
  <2> DEFINE q2 == IF m = k THEN Tail(q) ELSE [q EXCEPT ![1] = Drop(@, m)]
             un2 == Append(un, Sent(nxt, Take(q[1], m)))
  <2>3. EmitOne(o, una, wnd) = Batch(q2, bytes - m, SeqAdd(nxt, m), un2)
    <3>1. AtMost(Usable(o, una, wnd), AtMost(SendMss, o.q[1].len)) = m
      BY <1>3, <1>4 DEF m, usable
    <3> QED
      BY <1>3, <1>4, <1>6, <3>1 DEF EmitOne, Batch, k, usable
  <2>4. Queue(q2, x + m, n + 1, n)
    <3>1. CASE m = k
      BY <2>1, <3>1 DEF k
    <3>2. CASE m # k
      <4>1. m < q[1].len /\ m \in Nat
        BY <2>1, <2>2, <3>2 DEF k
      <4>2. Queue([q EXCEPT ![1] = Drop(@, m)], x + m, n + 1, n)
        BY <1>1, <1>6, <4>1, QueueCut
      <4> QED
        BY <3>2, <4>2
    <3> QED
      BY <3>1, <3>2
  <2>5. Flight(un2, a, x + m, n)
    <3>1. Take(q[1], m) = Piece(x, m)
      BY <2>1 DEF Take
    <3>2. Flight(Append(un, Sent(ServerSeq(x), Piece(x, m))), a, x + m, n)
      BY <1>1, <2>2, FlightAppend
    <3> QED
      BY <3>1, <3>2
  <2>6. SeqAdd(nxt, m) = ServerSeq(x + m) /\ bytes - m = n + 1 - (x + m)
    BY <1>2, <2>2, ServerSeqs
  <2> HIDE DEF q2, un2, nxt, bytes
  <2>7. EmitOne(o, una, wnd) = Batch(q2, n + 1 - (x + m), ServerSeq(x + m), un2)
    BY <2>3, <2>6
  <2>8. BatchSound(EmitOne(o, una, wnd), a, x + m, n)
    BY <2>2, <2>4, <2>5, <2>7 DEF BatchSound
  <2> QED
    BY <2>2, <2>8 DEF Within, una
<1> QED
  BY <1>5, <1>6

\* g gives what each of k turns of flushSendQueue's loop leaves.
Emitting(g, k, o, una, wnd) ==
    g = [n \in 0..k |-> IF n = 0 THEN o ELSE EmitOne(g[n - 1], una, wnd)]

LEMMA EmitTurns ==
    ASSUME NEW k \in Nat, NEW o, NEW una, NEW wnd
    PROVE  \E g : Emitting(g, k, o, una, wnd)
<1> DEFINE E(x) == EmitOne(x, una, wnd)
           S == {m \in Nat : \E g : g = [n \in 0..m |-> IF n = 0 THEN o ELSE E(g[n - 1])]}
<1> HIDE DEF E
<1>1. 0 \in S
  <2> DEFINE g == [n \in 0..0 |-> o]
  <2>1. g = [n \in 0..0 |-> IF n = 0 THEN o ELSE E(g[n - 1])]
    OBVIOUS
  <2> HIDE DEF g
  <2> QED
    BY <2>1
<1>2. ASSUME NEW m \in S PROVE m + 1 \in S
  <2>1. m \in Nat
    OBVIOUS
  <2>2. PICK g : g = [n \in 0..m |-> IF n = 0 THEN o ELSE E(g[n - 1])]
    OBVIOUS
  <2> DEFINE h == [n \in 0..(m + 1) |-> IF n = m + 1 THEN E(g[m]) ELSE g[n]]
  <2>3. ASSUME NEW n \in 0..(m + 1)
        PROVE  h[n] = IF n = 0 THEN o ELSE E(h[n - 1])
    <3>1. CASE n = m + 1
      <4>1. n # 0 /\ n - 1 = m /\ m \in 0..(m + 1) /\ m # m + 1
        BY <2>1, <3>1
      <4> QED
        BY <3>1, <4>1
    <3>2. CASE n # m + 1
      <4>1. n \in 0..m /\ (n # 0 => n - 1 \in 0..(m + 1) /\ n - 1 # m + 1)
        BY <2>1, <3>2
      <4>2. h[n] = g[n] /\ (n # 0 => h[n - 1] = g[n - 1])
        BY <3>2, <4>1
      <4> HIDE DEF h
      <4> QED
        BY <2>2, <4>1, <4>2
    <3> QED
      BY <3>1, <3>2
  <2>4. h = [n \in 0..(m + 1) |-> h[n]]
    OBVIOUS
  <2> HIDE DEF h
  <2>5. h = [n \in 0..(m + 1) |-> IF n = 0 THEN o ELSE E(h[n - 1])]
    BY <2>3, <2>4
  <2> QED
    BY <2>1, <2>5
<1> HIDE DEF S
<1>3. S \in SUBSET Nat
  BY DEF S
<1>4. k \in S
  BY <1>1, <1>2, <1>3, SetInduction
<1> QED
  BY <1>4 DEF S, E, Emitting

\* flushSendQueue, after any number of turns of its loop.
LEMMA FlushedSound ==
    ASSUME NEW st, NEW n \in 0..ServerBytes, NEW a \in 1..(n + 1), NEW x, NEW o,
           BatchSound(o, a, x, n), NEW u \in 1..(n + 1), NEW wnd \in Nat
    PROVE  \E x2 \in x..(n + 1) : /\ BatchSound(Flushed(st, ServerSeq(u), wnd, o), a, x2, n)
                                  /\ Within(x, x2, u, wnd)
<1> DEFINE una == ServerSeq(u)
           k == o.bytes
           after == CHOOSE g : g = [i \in 0..k |-> IF i = 0 THEN o ELSE EmitOne(g[i - 1], una, wnd)]
<1>1. Flushed(st, una, wnd, o) = IF st \in {"ESTABLISHED", "CLOSE_WAIT"} /\ ourFinSeq = None
                                 THEN after[k] ELSE o
  BY DEF Flushed
<1>2. x \in 1..(n + 1) /\ k = n + 1 - x /\ k \in Nat
  <2>1. \E q, un : o = Batch(q, n + 1 - x, ServerSeq(x), un)
    BY DEF BatchSound
  <2> QED
    BY <2>1 DEF BatchSound, Batch
<1> HIDE DEF k, una
<1>3. after = [i \in 0..k |-> IF i = 0 THEN o ELSE EmitOne(after[i - 1], una, wnd)]
  <2>1. \E g : Emitting(g, k, o, una, wnd)
    BY <1>2, EmitTurns
  <2> QED
    BY <2>1 DEF Emitting
<1> HIDE DEF after
<1> DEFINE Good(i) == \E x2 \in x..(n + 1) : /\ BatchSound(after[i], a, x2, n)
                                             /\ Within(x, x2, u, wnd)
           S == {i \in Nat : i <= k => Good(i)}
<1>4. x \in x..(n + 1) /\ Within(x, x, u, wnd)
  BY <1>2 DEF Within
<1>5. 0 \in S
  <2>1. after[0] = o
    BY <1>2, <1>3
  <2> QED
    BY <1>4, <2>1
<1>6. ASSUME NEW i \in S PROVE i + 1 \in S
  <2> SUFFICES ASSUME i + 1 <= k PROVE Good(i + 1)
    OBVIOUS
  <2>1. i \in Nat /\ i + 1 \in 0..k /\ i + 1 # 0 /\ i + 1 - 1 = i /\ Good(i)
    BY <1>2
  <2>2. after[i + 1] = EmitOne(after[i], una, wnd)
    <3>1. \A m \in 0..k : after[m] = IF m = 0 THEN o ELSE EmitOne(after[m - 1], una, wnd)
      BY <1>3, Zenon
    <3> QED
      BY <2>1, <3>1
  <2>3. PICK x2 \in x..(n + 1) : BatchSound(after[i], a, x2, n) /\ Within(x, x2, u, wnd)
    BY <2>1
  <2>4. PICK x3 \in x2..(n + 1) : BatchSound(after[i + 1], a, x3, n) /\ Within(x2, x3, u, wnd)
    BY <2>2, <2>3, EmitOneSound DEF una
  <2>5. x3 \in x..(n + 1) /\ Within(x, x3, u, wnd)
    BY <1>2, <2>3, <2>4 DEF Within
  <2> QED
    BY <2>4, <2>5
<1> HIDE DEF S
<1>7. S \in SUBSET Nat
  BY DEF S
<1>8. k \in S
  BY <1>2, <1>5, <1>6, <1>7, SetInduction
<1>9. Good(k)
  BY <1>2, <1>8 DEF S
<1> QED
  BY <1>1, <1>4, <1>9 DEF una

\* The bytes of a queue are as many as it spans.
BytesOf(q) == UNION {{q[i].from + k : k \in 0..(q[i].len - 1)} : i \in DOMAIN q}

LEMMA QueueHolds ==
    ASSUME NEW q, NEW a \in Nat, NEW b, NEW n \in 0..ServerBytes, Queue(q, a, b, n)
    PROVE  Cardinality(BytesOf(q)) = b - a /\ b - a \in Nat
<1> DEFINE Front(m) == UNION {{q[i].from + k : k \in 0..(q[i].len - 1)} : i \in 1..m}
           Edge(m) == IF m = 0 THEN a ELSE PieceEnd(q[m])
           Good(m) == Edge(m) \in Nat /\ Edge(m) >= a /\ Front(m) = a..(Edge(m) - 1)
           S == {m \in Nat : m <= Len(q) => Good(m)}
<1>1. q \in Seq(Pieces) /\ Len(q) \in Nat /\ DOMAIN q = 1..Len(q)
  BY DEF Queue
<1>2. 0 \in S
  BY <1>1
<1>3. ASSUME NEW m \in S PROVE m + 1 \in S
  <2> SUFFICES ASSUME m + 1 <= Len(q) PROVE Good(m + 1)
    OBVIOUS
  <2>0. m \in Nat /\ (m <= Len(q) => Good(m))
    OBVIOUS
  <2> HIDE DEF Good
  <2>1. m \in Nat /\ m + 1 \in 1..Len(q) /\ m + 1 # 0 /\ m + 1 - 1 = m /\ Good(m)
    BY <1>1, <2>0
  <2> DEFINE d == q[m + 1]
  <2>2. d \in Pieces /\ d.len \in Nat \ {0} /\ d.from \in Nat /\ PieceEnd(d) = d.from + d.len
    <3>1. d \in Pieces /\ d.len > 0
      BY <1>1, <2>1 DEF Queue
    <3> QED
      BY <3>1, PieceNats DEF PieceEnd
  <2>3. d.from = Edge(m)
    <3>1. CASE m = 0
      BY <2>1, <3>1 DEF Queue
    <3>2. CASE m # 0
      BY <2>1, <3>2 DEF Queue
    <3> QED
      BY <3>1, <3>2
  <2>4. Front(m + 1) = Front(m) \cup {d.from + k : k \in 0..(d.len - 1)}
    <3>1. 1..(m + 1) = 1..m \cup {m + 1}
      BY <2>1
    <3> QED
      BY <3>1
  <2>5. Edge(m + 1) = d.from + d.len
    BY <2>1, <2>2
  <2>6. {d.from + k : k \in 0..(d.len - 1)} = d.from..(d.from + d.len - 1)
    <3> DEFINE f == d.from
               l == d.len
    <3>1. f \in Nat /\ l \in Nat
      BY <2>2
    <3> HIDE DEF f, l
    <3>2. ASSUME NEW j \in f..(f + l - 1) PROVE \E k \in 0..(l - 1) : j = f + k
      <4>1. j - f \in 0..(l - 1) /\ j = f + (j - f)
        BY <3>1
      <4> QED
        BY <4>1
    <3>3. \A k \in 0..(l - 1) : f + k \in f..(f + l - 1)
      BY <3>1
    <3>4. {f + k : k \in 0..(l - 1)} = f..(f + l - 1)
      BY <3>2, <3>3
    <3> QED
      BY <3>4 DEF f, l
  <2> DEFINE e == Edge(m)
             l == d.len
  <2>7. /\ e \in Nat /\ e >= a /\ l \in Nat \ {0} /\ Front(m) = a..(e - 1)
        /\ Front(m + 1) = Front(m) \cup e..(e + l - 1) /\ Edge(m + 1) = e + l
    BY <2>1, <2>2, <2>3, <2>4, <2>5, <2>6 DEF Good
  <2> HIDE DEF e, l, Front, Edge
  <2>8. (a..(e - 1)) \cup (e..(e + l - 1)) = a..(e + l - 1)
    BY <2>7
  <2>9. Front(m + 1) = a..(e + l - 1)
    BY <2>7, <2>8
  <2>10. Edge(m + 1) \in Nat /\ Edge(m + 1) >= a /\ Front(m + 1) = a..(Edge(m + 1) - 1)
    BY <2>7, <2>9
  <2> QED
    BY <2>10 DEF Good
<1> HIDE DEF S, Front, Edge
<1>4. S \in SUBSET Nat
  BY DEF S
<1>5. Len(q) \in S
  BY <1>1, <1>2, <1>3, <1>4, SetInduction
<1>6. Good(Len(q))
  BY <1>1, <1>5 DEF S
<1>7. Edge(Len(q)) = b
  <2>1. q = <<>> <=> Len(q) = 0
    BY <1>1
  <2> QED
    BY <2>1 DEF Edge, Queue
<1>8. BytesOf(q) = a..(b - 1) /\ b \in Nat /\ b >= a
  BY <1>1, <1>6, <1>7 DEF BytesOf, Front
<1>9. Cardinality(a..(b - 1)) = IF a > b - 1 THEN 0 ELSE b - 1 - a + 1
  BY <1>8, FS_Interval
<1> QED
  BY <1>8, <1>9

-----------------------------------------------------------------------------
(* The inductive invariant of the send side *)

\* Before our FIN: u is the first byte not acknowledged, x the first not sent.
Sending(st, una, un, u, x) ==
    /\ st \in {"SYN_RECV", "ESTABLISHED", "CLOSE_WAIT"} /\ ourFinSeq = None
    /\ u \in 1..x /\ x \in 1..(produced + 1)
    /\ una = ServerSeq(IF st = "SYN_RECV" THEN 0 ELSE u) /\ sndNxt = ServerSeq(x)
    /\ st = "SYN_RECV" => x = 1
    /\ sendQBytes = produced + 1 - x
    /\ Queue(sendQ, x, produced + 1, produced) /\ Flight(un, u, x, produced)

\* After it: the FIN comes behind the last byte, and is acknowledged when u has passed it.
Finished(st, una, un, u) ==
    /\ st \in {"FIN_WAIT_1", "FIN_WAIT_2", "LAST_ACK", "TIME_WAIT"}
    /\ u \in 1..(produced + 2) /\ una = ServerSeq(u)
    /\ st \in {"FIN_WAIT_2", "TIME_WAIT"} => u = produced + 2
    /\ ourFinSeq = ServerSeq(produced + 1) /\ sndNxt = ServerSeq(produced + 2)
    /\ upstreamEof /\ sendQ = <<>> /\ sendQBytes = 0
    /\ Flight(un, AtMost(u, produced + 1), produced + 1, produced)

Transmitting(st, una, un) ==
    \/ \E u, x \in 1..(produced + 1) : Sending(st, una, un, u, x)
    \/ \E u \in 1..(produced + 2) : Finished(st, una, un, u)

\* A session that ended had sent its FIN last, and ended honestly; one that did not begin
\* has nothing.
SndInv ==
    /\ produced \in 0..ServerBytes /\ clientWnd \in Windows \cup {0}
    /\ sendQBytes \in 0..SendCap /\ reset \in {"none", "sent", "received"}
    /\ terminated => /\ state = "CLOSED" /\ EndsHonestly
                     /\ ourFinSeq # None => upstreamEof /\ ourFinSeq = ServerSeq(produced + 1)
    /\ state = "CLOSED" => /\ sendQ = <<>> /\ sendQBytes = 0 /\ unacked = <<>>
                           /\ sndUna \in SeqNos /\ sndNxt \in SeqNos
                           /\ ourFinSeq \in SeqNos \cup {None}
    /\ state = "CLOSED" /\ ~terminated => produced = 0 /\ ~upstreamEof /\ ourFinSeq = None
    /\ state # "CLOSED" => Transmitting(state, sndUna, unacked)

\* One step's part of WindowRespected.
InWindow ==
    LET nxt == IF ourFinSeq' # None THEN ourFinSeq' ELSE sndNxt'
    IN  state # "CLOSED" /\ SeqGt(nxt, sndNxt) => SeqDiff(nxt, sndUna') <= clientWnd'

LEMMA SndInit == Init => SndInv
<1> SUFFICES ASSUME Init PROVE SndInv
  OBVIOUS
<1>1. /\ produced \in 0..ServerBytes /\ clientWnd \in Windows \cup {0} /\ sendQBytes \in 0..SendCap
      /\ sndUna \in SeqNos /\ sndNxt \in SeqNos
  BY SessionAssumption DEF Init, SeqNos
<1> QED
  BY <1>1 DEF Init, SndInv

\* Where a live session stands in the sequence space.
LEMMA Places ==
    ASSUME NEW st, NEW una, NEW un, Transmitting(st, una, un), produced \in 0..ServerBytes
    PROVE  /\ \E v \in 1..(ServerBytes + 2) : sndNxt = ServerSeq(v)
           /\ una \in SeqNos /\ sndNxt \in SeqNos /\ ourFinSeq \in SeqNos \cup {None}
           /\ ourFinSeq # None =>
                 /\ upstreamEof /\ ourFinSeq = ServerSeq(produced + 1) /\ sendQ = <<>>
                 /\ sndNxt = ServerSeq(produced + 2)
           /\ st # "CLOSED"
<1>0. ServerBytes \in Nat
  BY SessionAssumption
<1>1. CASE \E u, x \in 1..(produced + 1) : Sending(st, una, un, u, x)
  <2>1. PICK u \in 1..(produced + 1), x \in 1..(produced + 1) : Sending(st, una, un, u, x)
    BY <1>1
  <2>2. /\ x \in 1..(ServerBytes + 2) /\ x \in 0..(ServerBytes + 3)
        /\ (IF st = "SYN_RECV" THEN 0 ELSE u) \in 0..(ServerBytes + 3)
    BY <1>0
  <2>3. /\ sndNxt = ServerSeq(x) /\ una = ServerSeq(IF st = "SYN_RECV" THEN 0 ELSE u)
        /\ ourFinSeq = None /\ st # "CLOSED"
    BY <2>1 DEF Sending
  <2> QED
    BY <2>2, <2>3, ServerSeqs
<1>2. CASE \E u \in 1..(produced + 2) : Finished(st, una, un, u)
  <2>1. PICK u \in 1..(produced + 2) : Finished(st, una, un, u)
    BY <1>2
  <2>2. /\ u \in 0..(ServerBytes + 3) /\ produced + 2 \in 1..(ServerBytes + 2)
        /\ produced + 1 \in 0..(ServerBytes + 3) /\ produced + 2 \in 0..(ServerBytes + 3)
    BY <1>0
  <2>3. /\ sndNxt = ServerSeq(produced + 2) /\ una = ServerSeq(u)
        /\ ourFinSeq = ServerSeq(produced + 1) /\ upstreamEof /\ sendQ = <<>> /\ st # "CLOSED"
    BY <2>1 DEF Finished
  <2> QED
    BY <2>2, <2>3, ServerSeqs
<1> QED
  BY <1>1, <1>2 DEF Transmitting

\* A step that sends nothing new stays in the window.
LEMMA NothingNew ==
    ASSUME SndInv, UNCHANGED <<sndNxt, ourFinSeq>>
    PROVE  InWindow
<1> SUFFICES ASSUME state # "CLOSED"
             PROVE  ~SeqGt(IF ourFinSeq # None THEN ourFinSeq ELSE sndNxt, sndNxt)
  BY DEF InWindow
<1>1. produced \in 0..ServerBytes /\ Transmitting(state, sndUna, unacked) /\ ServerBytes \in Nat
  BY SessionAssumption DEF SndInv
<1>2. PICK v \in 1..(ServerBytes + 2) : sndNxt = ServerSeq(v)
  BY <1>1, Places
<1>3. ~SeqGt(sndNxt, sndNxt)
  <2>1. v \in 0..(ServerBytes + 3) /\ ~(v > v)
    BY <1>1
  <2> QED
    BY <1>2, <2>1, ServerSeqs
<1>4. ASSUME ourFinSeq # None PROVE ~SeqGt(ourFinSeq, sndNxt)
  <2>1. ourFinSeq = ServerSeq(produced + 1) /\ sndNxt = ServerSeq(produced + 2)
    BY <1>1, <1>4, Places
  <2>2. /\ produced + 1 \in 0..(ServerBytes + 3) /\ produced + 2 \in 0..(ServerBytes + 3)
        /\ ~(produced + 1 > produced + 2)
    BY <1>1
  <2> QED
    BY <2>1, <2>2, ServerSeqs
<1> QED
  BY <1>3, <1>4

\* A step that leaves the send side alone, or only repeats what is in flight.
LEMMA SndKept ==
    ASSUME SndInv, state # "CLOSED",
           UNCHANGED <<state, sndUna, sndNxt, clientWnd, sendQ, sendQBytes, upstreamEof,
                       ourFinSeq, produced, reset, terminated>>,
           \A a, b, n : Flight(unacked, a, b, n) => Flight(unacked', a, b, n)
    PROVE  SndInv' /\ InWindow
<1>1. InWindow
  BY NothingNew
<1>2. \A u, x : Sending(state, sndUna, unacked, u, x) => Sending(state, sndUna, unacked, u, x)'
  BY DEF Sending
<1>3. \A u : Finished(state, sndUna, unacked, u) => Finished(state, sndUna, unacked, u)'
  BY DEF Finished
<1>4. Transmitting(state, sndUna, unacked)'
  <2>1. Transmitting(state, sndUna, unacked) /\ produced' = produced
    BY DEF SndInv
  <2> QED
    BY <1>2, <1>3, <2>1 DEF Transmitting
<1>5. SndInv'
  BY <1>4 DEF SndInv
<1> QED
  BY <1>1, <1>5

\* The end of a live session.
LEMMA SndEnded ==
    ASSUME SndInv, state # "CLOSED", NEW how, Terminate(how),
           sndUna' \in SeqNos, clientWnd' \in Windows \cup {0},
           \/ how \in {"sent", "received"}
           \/ /\ how = reset /\ clientFinDone' /\ ourFinSeq # None
              /\ SeqGt(sndUna', ourFinSeq)
    PROVE  SndInv' /\ InWindow
<1>1. InWindow
  BY NothingNew DEF Terminate
<1>2. /\ produced \in 0..ServerBytes /\ sndNxt \in SeqNos /\ ourFinSeq \in SeqNos \cup {None}
      /\ ourFinSeq # None => upstreamEof /\ ourFinSeq = ServerSeq(produced + 1)
  BY Places DEF SndInv
<1>3. /\ state' = "CLOSED" /\ terminated' = TRUE /\ sendQ' = <<>> /\ sendQBytes' = 0
      /\ unacked' = <<>> /\ reset' = how
      /\ UNCHANGED <<sndNxt, ourFinSeq, upstreamEof, produced>>
  BY DEF Terminate
<1>4. EndsHonestly'
  BY <1>3 DEF EndsHonestly
<1>5. 0 \in 0..SendCap /\ reset' \in {"none", "sent", "received"}
  BY <1>3, SessionAssumption DEF SndInv
<1>6. SndInv'
  BY <1>2, <1>3, <1>4, <1>5 DEF SndInv
<1> QED
  BY <1>1, <1>6

LEMMA SndEndedNow ==
    ASSUME SndInv, state # "CLOSED", NEW how \in {"sent", "received"}, TerminateNow(how)
    PROVE  SndInv' /\ InWindow
<1>1. sndUna' \in SeqNos /\ clientWnd' \in Windows \cup {0}
  BY Places DEF SndInv, TerminateNow, ackVars
<1> QED
  BY <1>1, SndEnded DEF TerminateNow

\* flushSendQueue and maybeEmitFin before our FIN, with n bytes read.
LEMMA SendBefore ==
    ASSUME NEW st \in {"SYN_RECV", "ESTABLISHED", "CLOSE_WAIT"}, ourFinSeq = None,
           NEW n \in 0..ServerBytes, NEW x \in 1..(n + 1), NEW u \in 1..x,
           NEW una, una = ServerSeq(IF st = "SYN_RECV" THEN 0 ELSE u), sndNxt = ServerSeq(x),
           st = "SYN_RECV" => x = 1,
           NEW wnd \in Nat, NEW eof \in BOOLEAN, NEW q, NEW un, n + 1 - x <= SendCap,
           Queue(q, x, n + 1, n), Flight(un, u, x, n),
           SendPhase(st, una, wnd, eof, Outbound(q, n + 1 - x, un)),
           sndUna' = una, clientWnd' = wnd, upstreamEof' = eof, produced' = n
    PROVE  Transmitting(state, sndUna, unacked)' /\ sendQBytes' \in 0..SendCap /\ InWindow
<1> DEFINE o == Outbound(q, n + 1 - x, un)
           f == Flushed(st, una, wnd, o)
           fin == FinReady(st, eof, f.q)
<1>1. /\ sendQ' = f.q /\ sendQBytes' = f.bytes /\ unacked' = f.unacked
      /\ sndNxt' = (IF fin THEN SeqAdd(f.nxt, 1) ELSE f.nxt)
      /\ ourFinSeq' = (IF fin THEN f.nxt ELSE ourFinSeq)
      /\ state' = IF ~fin THEN st ELSE IF st = "ESTABLISHED" THEN "FIN_WAIT_1" ELSE "LAST_ACK"
  BY DEF SendPhase
<1>2. fin => eof /\ f.q = <<>> /\ st \in {"ESTABLISHED", "CLOSE_WAIT"}
  BY DEF FinReady
<1>3. /\ ServerBytes \in Nat /\ n \in Nat /\ n <= ServerBytes /\ x \in Nat /\ u \in Nat
      /\ u \in 1..(n + 1) /\ SendCap \in Nat /\ x \in 0..(ServerBytes + 3)
      /\ u \in 0..(ServerBytes + 3)
  BY SessionAssumption
<1>4. o = Batch(q, n + 1 - x, ServerSeq(x), un) /\ BatchSound(o, u, x, n)
  <2>1. o = Batch(q, n + 1 - x, ServerSeq(x), un)
    BY DEF Outbound, Batch
  <2>2. x \in u..(n + 1)
    BY <1>3
  <2> HIDE DEF o
  <2> QED
    BY <2>1, <2>2 DEF BatchSound
<1> HIDE DEF o
<1>5. \E x2 \in x..(n + 1) : /\ BatchSound(f, u, x2, n) /\ Within(x, x2, u, wnd)
                             /\ st = "SYN_RECV" => x2 = x
  <2>1. CASE st = "SYN_RECV"
    <3>1. f = o
      BY <2>1 DEF Flushed
    <3>2. x \in x..(n + 1)
      BY <1>3
    <3> QED
      BY <1>4, <3>1, <3>2 DEF Within
  <2>2. CASE st # "SYN_RECV"
    BY <1>3, <1>4, <2>2, FlushedSound
  <2> QED
    BY <2>1, <2>2
<1> HIDE DEF f, fin
<1>6. PICK x2 \in x..(n + 1) : /\ BatchSound(f, u, x2, n) /\ Within(x, x2, u, wnd)
                               /\ st = "SYN_RECV" => x2 = x
  BY <1>5
<1>7. PICK q2, un2 : /\ f = Batch(q2, n + 1 - x2, ServerSeq(x2), un2)
                     /\ Queue(q2, x2, n + 1, n) /\ Flight(un2, u, x2, n)
  BY <1>6 DEF BatchSound
<1>8. f.q = q2 /\ f.bytes = n + 1 - x2 /\ f.nxt = ServerSeq(x2) /\ f.unacked = un2
  BY <1>7 DEF Batch
<1>9. /\ x2 \in 1..(n + 1) /\ u \in 1..x2 /\ x2 >= x /\ n + 1 - x2 \in 0..SendCap
      /\ x2 \in 0..(ServerBytes + 3) /\ x2 + 1 \in 0..(ServerBytes + 3) /\ x2 \in Nat
      /\ x2 + 1 <= ServerBytes + 3
  BY <1>3
<1>10. ServerSeq(x2) # None /\ SeqAdd(ServerSeq(x2), 1) = ServerSeq(x2 + 1)
  <2>1. ServerSeq(x2) \in SeqNos
    BY <1>9, ServerSeqs
  <2> QED
    BY <1>9, <2>1, ServerSeqs, SessionAssumption DEF SeqNos, None
<1>11. InWindow
  <2> DEFINE nxt == IF ourFinSeq' # None THEN ourFinSeq' ELSE sndNxt'
  <2>1. nxt = ServerSeq(x2)
    BY <1>1, <1>8, <1>10
  <2> HIDE DEF nxt
  <2>2. SeqGt(nxt, sndNxt) => x2 > x
    BY <1>3, <1>9, <2>1, ServerSeqs
  <2>3. ASSUME x2 > x PROVE SeqDiff(nxt, sndUna') <= clientWnd'
    <3>1. st # "SYN_RECV" /\ x2 - u <= wnd
      BY <1>3, <1>6, <1>9, <2>3 DEF Within
    <3>2. SeqDiff(ServerSeq(x2), ServerSeq(u)) = x2 - u
      BY <1>3, <1>9, ServerSeqs
    <3> QED
      BY <2>1, <3>1, <3>2
  <2> QED
    BY <2>2, <2>3 DEF InWindow, nxt
<1>12. CASE ~fin
  <2>1. /\ sendQ' = q2 /\ sendQBytes' = n + 1 - x2 /\ unacked' = un2 /\ sndNxt' = ServerSeq(x2)
        /\ ourFinSeq' = None /\ state' = st /\ produced' = n
    BY <1>1, <1>8, <1>12
  <2>2. Sending(state, sndUna, unacked, u, x2)'
    BY <1>6, <1>7, <1>9, <2>1 DEF Sending
  <2>3. u \in 1..(produced' + 1) /\ x2 \in 1..(produced' + 1)
    BY <1>3, <1>9
  <2> QED
    BY <1>9, <1>11, <2>1, <2>2, <2>3 DEF Transmitting
<1>13. CASE fin
  <2>1. q2 = <<>> /\ eof /\ st \in {"ESTABLISHED", "CLOSE_WAIT"}
    BY <1>2, <1>8, <1>13
  <2>2. x2 = n + 1
    BY <1>7, <2>1 DEF Queue
  <2>3. n + 1 - x2 = 0 /\ AtMost(u, n + 1) = u /\ x2 + 1 = n + 2 /\ u \in 1..(n + 2)
    <3>1. u = n + 1 \/ u < n + 1
      BY <1>3
    <3> QED
      BY <1>3, <2>2, <3>1 DEF AtMost
  <2>4. /\ sendQ' = <<>> /\ sendQBytes' = 0 /\ unacked' = un2
        /\ sndNxt' = ServerSeq(n + 2) /\ ourFinSeq' = ServerSeq(n + 1)
        /\ state' \in {"FIN_WAIT_1", "LAST_ACK"} /\ upstreamEof' /\ produced' = n
        /\ sndUna' = ServerSeq(u)
    BY <1>1, <1>8, <1>10, <1>13, <2>1, <2>2, <2>3
  <2>5. Flight(un2, u, n + 1, n)
    BY <1>7, <2>2
  <2>6. Finished(state, sndUna, unacked, u)'
    BY <2>3, <2>4, <2>5 DEF Finished
  <2> QED
    BY <1>3, <1>11, <2>3, <2>4, <2>6 DEF Transmitting
<1> QED
  BY <1>12, <1>13

\* After it, they do nothing.
LEMMA SendAfter ==
    ASSUME SndInv, NEW st, NEW una, NEW un, NEW u, Finished(st, una, un, u),
           NEW wnd, SendPhase(st, una, wnd, upstreamEof, Outbound(sendQ, sendQBytes, un)),
           sndUna' = una, UNCHANGED <<upstreamEof, produced>>
    PROVE  Transmitting(state, sndUna, unacked)' /\ sendQBytes' \in 0..SendCap /\ InWindow
<1>1. ourFinSeq # None
  <2>1. produced + 1 \in 0..(ServerBytes + 3)
    BY SessionAssumption DEF SndInv
  <2>2. ServerSeq(produced + 1) \in SeqNos
    BY <2>1, ServerSeqs
  <2> QED
    BY <2>2, SessionAssumption DEF Finished, SeqNos, None
<1>2. /\ sendQ' = sendQ /\ sendQBytes' = sendQBytes /\ unacked' = un /\ sndNxt' = sndNxt
      /\ ourFinSeq' = ourFinSeq /\ state' = st
  BY <1>1 DEF SendPhase, Flushed, FinReady, Outbound
<1>3. Finished(state, sndUna, unacked, u)'
  BY <1>2 DEF Finished
<1>4. InWindow
  BY <1>2, NothingNew
<1>5. u \in 1..(produced' + 2)
  BY DEF Finished
<1> QED
  BY <1>2, <1>3, <1>4, <1>5 DEF Transmitting, SndInv

\* What is left of a handler once its ACK was processed.
LEMMA AckedSnd ==
    ASSUME SndInv, ~terminated, state # "CLOSED",
           NEW st, NEW una, NEW un, NEW wnd \in Windows, Transmitting(st, una, un),
           SendPhase(st, una, wnd, upstreamEof, Outbound(sendQ, sendQBytes, un)),
           sndUna' = una, clientWnd' = wnd, upstreamEof \in BOOLEAN,
           UNCHANGED <<upstreamEof, produced, reset, terminated>>
    PROVE  SndInv' /\ InWindow
<1>1. wnd \in Nat /\ produced \in 0..ServerBytes /\ ServerBytes \in Nat
      /\ sendQBytes \in 0..SendCap /\ SendCap \in Nat
  BY SessionAssumption DEF SndInv
<1>2. Transmitting(state, sndUna, unacked)' /\ sendQBytes' \in 0..SendCap /\ InWindow
  <2>1. CASE \E u, x \in 1..(produced + 1) : Sending(st, una, un, u, x)
    <3>1. PICK u \in 1..(produced + 1), x \in 1..(produced + 1) : Sending(st, una, un, u, x)
      BY <2>1
    <3> DEFINE n == produced
    <3>2. /\ sendQBytes = n + 1 - x /\ n + 1 - x <= SendCap /\ n \in 0..ServerBytes
          /\ u \in 1..x /\ x \in 1..(n + 1) /\ produced' = n
      BY <1>1, <3>1 DEF Sending
    <3>3. SendPhase(st, una, wnd, upstreamEof, Outbound(sendQ, n + 1 - x, un))
      BY <3>2
    <3>4. /\ st \in {"SYN_RECV", "ESTABLISHED", "CLOSE_WAIT"} /\ ourFinSeq = None
          /\ una = ServerSeq(IF st = "SYN_RECV" THEN 0 ELSE u) /\ sndNxt = ServerSeq(x)
          /\ st = "SYN_RECV" => x = 1
          /\ Queue(sendQ, x, n + 1, n) /\ Flight(un, u, x, n)
      BY <3>1 DEF Sending
    <3> HIDE DEF n
    <3> QED
      BY <1>1, <3>2, <3>3, <3>4, SendBefore
  <2>2. CASE \E u \in 1..(produced + 2) : Finished(st, una, un, u)
    BY <2>2, SendAfter
  <2> QED
    BY <2>1, <2>2 DEF Transmitting
<1>3. state' # "CLOSED"
  <2>1. st # "CLOSED"
    BY <1>1, Places
  <2> QED
    BY <2>1 DEF SendPhase
<1>4. SndInv'
  BY <1>2, <1>3 DEF SndInv
<1> QED
  BY <1>2, <1>4

\* The state that consuming the client's FIN leaves.
LEMMA AfterClientFinSnd ==
    ASSUME NEW st, NEW una, NEW un, Transmitting(st, una, un), produced \in 0..ServerBytes,
           st # "SYN_RECV"
    PROVE  Transmitting(AfterClientFin(st, una), una, un)
<1> DEFINE st2 == AfterClientFin(st, una)
<1>1. ASSUME NEW u, NEW x, Sending(st, una, un, u, x) PROVE Sending(st2, una, un, u, x)
  BY <1>1 DEF Sending, AfterClientFin
<1>2. ASSUME NEW u, Finished(st, una, un, u) PROVE Finished(st2, una, un, u)
  <2>1. /\ u \in 0..(ServerBytes + 3) /\ produced + 1 \in 0..(ServerBytes + 3)
        /\ u \in 1..(produced + 2) /\ produced \in Nat
    BY <1>2, SessionAssumption DEF Finished
  <2>2. SeqGt(una, ourFinSeq) => u > produced + 1
    BY <1>2, <2>1, ServerSeqs DEF Finished
  <2>3. u > produced + 1 => u = produced + 2
    BY <2>1
  <2> QED
    BY <1>2, <2>2, <2>3 DEF Finished, AfterClientFin
<1> HIDE DEF st2
<1>3. CASE \E u, x \in 1..(produced + 1) : Sending(st, una, un, u, x)
  BY <1>1, <1>3 DEF Transmitting, st2
<1>4. CASE \E u \in 1..(produced + 2) : Finished(st, una, un, u)
  BY <1>2, <1>4 DEF Transmitting, st2
<1> QED
  BY <1>3, <1>4 DEF Transmitting, st2

\* processRcv and the send queue, once the ACK was processed.
LEMMA ReceiveThenSendSnd ==
    ASSUME SndInv, ~terminated, state # "CLOSED", upstreamEof \in BOOLEAN,
           NEW seg, NEW room, seg.window \in Windows,
           NEW st, NEW una, NEW un, st # "SYN_RECV", Transmitting(st, una, un),
           ReceiveThenSend(seg, room, st, una, un)
    PROVE  SndInv' /\ InWindow
<1>1. produced \in 0..ServerBytes /\ una \in SeqNos
  BY Places DEF SndInv
<1>2. CASE Terminate("sent") /\ sndUna' = una /\ clientWnd' = seg.window
  BY <1>1, <1>2, SndEnded
<1>3. ASSUME NEW st2 \in {st, AfterClientFin(st, una)}, Live,
             sndUna' = una, clientWnd' = seg.window,
             SendPhase(st2, una, seg.window, upstreamEof, Outbound(sendQ, sendQBytes, un)),
             UNCHANGED <<upstreamEof, produced>>
      PROVE  SndInv' /\ InWindow
  <2>1. Transmitting(st2, una, un)
    BY <1>1, <1>3, AfterClientFinSnd
  <2>2. UNCHANGED <<reset, terminated>>
    BY <1>3 DEF Live
  <2> QED
    BY <1>3, <2>1, <2>2, AckedSnd
<1> QED
  BY <1>2, <1>3 DEF ReceiveThenSend, AbortedReceive

LEMMA AckThenSendSnd ==
    ASSUME SndInv, ~terminated, state # "CLOSED", upstreamEof \in BOOLEAN,
           NEW seg, seg.window \in Windows,
           NEW st, NEW una, NEW un, Transmitting(st, una, un), AckThenSend(seg, st, una, un)
    PROVE  SndInv' /\ InWindow
<1>1. /\ SendPhase(st, una, seg.window, upstreamEof, Outbound(sendQ, sendQBytes, un))
      /\ sndUna' = una /\ clientWnd' = seg.window
      /\ UNCHANGED <<upstreamEof, produced, reset, terminated>>
  BY DEF AckThenSend, Live, upVars
<1> QED
  BY <1>1, AckedSnd

\* What a packet of a live session acknowledges: a number in use, unless it is refused.
LEMMA AckNumbers ==
    ASSUME NEW seg \in ClientPackets, ~seg.rst, state # "CLOSED",
           NEW v \in 1..(ServerBytes + 2), sndNxt = ServerSeq(v)
    PROVE  /\ seg.window \in Windows
           /\ seg.ack => \/ SeqGt(seg.ackNo, sndNxt) \/ seg.ackNo = sndUna
                         \/ \E k \in 1..v : seg.ackNo = ServerSeq(k)
<1>1. CASE seg \in SynPackets
  BY <1>1 DEF SynPackets, Segment
<1>2. CASE seg \in DataPackets
  <2>1. PICK f \in BOOLEAN, lo \in 0..ClientBytes, a \in AckNos, w \in Windows, n \in 0..MaxSegment :
          seg = Segment(FALSE, FALSE, TRUE, f, ClientSeq(lo), a, w, Piece(lo + 1, n))
    BY <1>2 DEF DataPackets, Segment
  <2>2. seg.ackNo = a /\ seg.window = w
    BY <2>1 DEF Segment
  <2>3. SeqDiff(sndNxt, Issn) = v
    <3>1. v \in 0..(ServerBytes + 3) /\ 0 \in 0..(ServerBytes + 3) /\ v - 0 = v
      BY SessionAssumption
    <3> QED
      BY <3>1, ServerSeqs
  <2>4. \E k \in 1..v : a = ServerSeq(k)
    BY <2>3 DEF AckNos, ServerSeq
  <2> QED
    BY <2>2, <2>4
<1>3. CASE seg \in RstPackets
  BY <1>3 DEF RstPackets, Segment
<1>4. CASE seg \in Strays
  <2>1. CASE seg \in {Segment(FALSE, FALSE, TRUE, FALSE, rcvNxt, SeqAdd(sndNxt, 1), w, Piece(1, 0)) :
                        w \in Windows}
    <3>1. seg.ackNo = SeqAdd(sndNxt, 1) /\ seg.window \in Windows
      BY <2>1 DEF Segment
    <3>2. /\ v \in 0..(ServerBytes + 3) /\ v + 1 \in 0..(ServerBytes + 3) /\ v + 1 > v
          /\ v + 1 <= ServerBytes + 3
      BY SessionAssumption
    <3>3. SeqGt(SeqAdd(sndNxt, 1), sndNxt)
      BY <3>2, ServerSeqs
    <3> QED
      BY <3>1, <3>3
  <2>2. CASE /\ clientFinDone
             /\ seg \in {Segment(FALSE, FALSE, TRUE, FALSE, rcvNxt, sndUna, w,
                                 Piece(ClientBytes + 1, 1)) : w \in Windows}
    BY <2>2 DEF Segment
  <2>3. CASE seg \in {Segment(TRUE, FALSE, FALSE, FALSE, SeqAdd(ClientIsn, 1), 0, w, Piece(1, 0)) :
                        w \in Windows}
    BY <2>3 DEF Segment
  <2>4. CASE seg \in {Segment(FALSE, FALSE, FALSE, FALSE, rcvNxt, 0, w, Piece(1, 0)) : w \in Windows}
    BY <2>4 DEF Segment
  <2> QED
    BY <1>4, <2>1, <2>2, <2>3, <2>4 DEF Strays
<1> QED
  BY <1>1, <1>2, <1>3, <1>4 DEF ClientPackets

\* Where the acknowledgement of a packet leaves sndUna: at some byte from u on.
LEMMA AckMoves ==
    ASSUME NEW seg \in ClientPackets, ~seg.rst, state # "CLOSED",
           NEW v \in 1..(ServerBytes + 2), sndNxt = ServerSeq(v),
           NEW u \in 1..v, sndUna = ServerSeq(u),
           ~(seg.ack /\ SeqGt(seg.ackNo, sndNxt))
    PROVE  \E k \in u..v : /\ (IF Advances(seg) THEN seg.ackNo ELSE sndUna) = ServerSeq(k)
                           /\ Advances(seg) <=> k > u
<1>0. u \in u..v /\ ~(u > u) /\ u \in 0..(ServerBytes + 3)
  BY SessionAssumption
<1>1. CASE Advances(seg)
  <2>1. seg.ackNo # sndUna
    <3>1. ~SeqGt(sndUna, sndUna)
      BY <1>0, ServerSeqs
    <3> QED
      BY <1>1, <3>1 DEF Advances
  <2>2. PICK k \in 1..v : seg.ackNo = ServerSeq(k)
    BY <1>1, <2>1, AckNumbers DEF Advances
  <2>3. k \in 0..(ServerBytes + 3)
    BY SessionAssumption
  <2>4. k > u
    BY <1>0, <1>1, <2>2, <2>3, ServerSeqs DEF Advances
  <2>5. k \in u..v
    BY <2>4
  <2> QED
    BY <1>1, <2>2, <2>4, <2>5
<1>2. CASE ~Advances(seg)
  BY <1>0, <1>2
<1> QED
  BY <1>1, <1>2

\* The ACK of a segment, on the send side: what it acknowledges leaves the flight, and our
\* FIN, once acknowledged, moves the state.
LEMMA AckProcessed ==
    ASSUME SndInv, state \notin {"CLOSED", "SYN_RECV", "TIME_WAIT"},
           NEW seg \in ClientPackets, ~seg.rst, ~(seg.ack /\ SeqGt(seg.ackNo, sndNxt)),
           ~(AcksOurFin(seg) /\ state = "LAST_ACK")
    PROVE  Transmitting(IF AcksOurFin(seg) THEN AfterOurFin ELSE state,
                        IF Advances(seg) THEN seg.ackNo ELSE sndUna,
                        IF Advances(seg) THEN Pruned(seg.ackNo) ELSE unacked)
<1> DEFINE st == IF AcksOurFin(seg) THEN AfterOurFin ELSE state
           una == IF Advances(seg) THEN seg.ackNo ELSE sndUna
           un == IF Advances(seg) THEN Pruned(seg.ackNo) ELSE unacked
           n == produced
<1>1. n \in 0..ServerBytes /\ ServerBytes \in Nat /\ Transmitting(state, sndUna, unacked)
  BY SessionAssumption DEF SndInv
<1> SUFFICES Transmitting(st, una, un)
  OBVIOUS
<1>2. CASE \E u, x \in 1..(produced + 1) : Sending(state, sndUna, unacked, u, x)
  <2>1. PICK u \in 1..(n + 1), x \in 1..(n + 1) : Sending(state, sndUna, unacked, u, x)
    BY <1>2
  <2>2. /\ u \in 1..x /\ sndUna = ServerSeq(u) /\ sndNxt = ServerSeq(x) /\ ourFinSeq = None
        /\ Flight(unacked, u, x, n) /\ state \in {"ESTABLISHED", "CLOSE_WAIT"}
    BY <2>1 DEF Sending
  <2>3. x \in 1..(ServerBytes + 2)
    BY <1>1
  <2>4. PICK k \in u..x : una = ServerSeq(k) /\ (Advances(seg) <=> k > u)
    BY <2>2, <2>3, AckMoves
  <2>5. Flight(un, k, x, n)
    <3>1. CASE k > u
      <4>1. /\ x \in u..(n + 1) /\ k \in (u + 1)..(n + 2) /\ k <= x /\ AtMost(k, x) = k
            /\ u \in 1..(n + 1)
        BY <1>1, <3>1 DEF AtMost
      <4>2. un = Pruned(ServerSeq(k))
        BY <2>4, <3>1
      <4> HIDE DEF un, n
      <4> QED
        BY <1>1, <2>2, <4>1, <4>2, PrunedSound
    <3>2. CASE ~(k > u)
      BY <2>2, <2>4, <3>2
    <3> QED
      BY <3>1, <3>2
  <2>6. st = state
    BY <2>2 DEF AcksOurFin
  <2>7. k \in 1..x /\ k \in 1..(n + 1)
    BY <1>1, <2>2
  <2> HIDE DEF st, una, un
  <2>8. Sending(st, una, un, k, x)
    BY <2>1, <2>2, <2>4, <2>5, <2>6, <2>7 DEF Sending
  <2> QED
    BY <2>7, <2>8 DEF Transmitting
<1>3. CASE \E u \in 1..(produced + 2) : Finished(state, sndUna, unacked, u)
  <2>1. PICK u \in 1..(n + 2) : Finished(state, sndUna, unacked, u)
    BY <1>3
  <2>2. /\ sndUna = ServerSeq(u) /\ sndNxt = ServerSeq(n + 2) /\ ourFinSeq = ServerSeq(n + 1)
        /\ Flight(unacked, AtMost(u, n + 1), n + 1, n)
        /\ state \in {"FIN_WAIT_1", "FIN_WAIT_2", "LAST_ACK"}
        /\ state = "FIN_WAIT_2" => u = n + 2
    BY <2>1 DEF Finished
  <2>3. n + 2 \in 1..(ServerBytes + 2)
    BY <1>1
  <2>4. PICK k \in u..(n + 2) : una = ServerSeq(k) /\ (Advances(seg) <=> k > u)
    BY <2>2, <2>3, AckMoves
  <2>5. Flight(un, AtMost(k, n + 1), n + 1, n)
    <3>1. CASE k > u
      <4>1. /\ AtMost(u, n + 1) = u /\ n + 1 \in u..(n + 1) /\ k \in (u + 1)..(n + 2)
            /\ u \in 1..(n + 1)
        BY <1>1, <3>1 DEF AtMost
      <4>2. un = Pruned(ServerSeq(k)) /\ Flight(unacked, u, n + 1, n)
        BY <2>2, <2>4, <3>1, <4>1
      <4> HIDE DEF un, n
      <4> QED
        BY <1>1, <4>1, <4>2, PrunedSound
    <3>2. CASE ~(k > u)
      <4>1. k = u
        BY <3>2
      <4> QED
        BY <2>2, <2>4, <3>2, <4>1
    <3> QED
      BY <3>1, <3>2
  <2>6. k \in 1..(n + 2) /\ (u = n + 2 => k = n + 2)
    BY <1>1
  <2>7. AcksOurFin(seg) => k = n + 2
    <3>1. k \in 0..(ServerBytes + 3) /\ n + 1 \in 0..(ServerBytes + 3)
      BY <1>1
    <3>2. SeqGt(ServerSeq(k), ServerSeq(n + 1)) => k > n + 1
      BY <3>1, ServerSeqs
    <3>3. k > n + 1 => k = n + 2
      BY <1>1
    <3>4. AcksOurFin(seg) => SeqGt(ServerSeq(k), ServerSeq(n + 1))
      BY <2>2, <2>4 DEF AcksOurFin
    <3> QED
      BY <3>2, <3>3, <3>4
  <2>8. /\ st \in {"FIN_WAIT_1", "FIN_WAIT_2", "LAST_ACK", "TIME_WAIT"}
        /\ st \in {"FIN_WAIT_2", "TIME_WAIT"} => k = n + 2
    BY <2>2, <2>6, <2>7 DEF AfterOurFin
  <2> HIDE DEF st, una, un
  <2>9. Finished(st, una, un, k)
    BY <2>1, <2>4, <2>5, <2>6, <2>8 DEF Finished
  <2> QED
    BY <2>6, <2>9 DEF Transmitting
<1> QED
  BY <1>1, <1>2, <1>3 DEF Transmitting

LEMMA DataSegmentSnd ==
    ASSUME SndInv, IndInv, ~terminated, state \notin {"CLOSED", "SYN_RECV", "TIME_WAIT"},
           NEW seg \in ClientPackets, ~seg.rst, NEW room, OnDataSegment(seg, room)
    PROVE  SndInv' /\ InWindow
<1> DEFINE una == IF Advances(seg) THEN seg.ackNo ELSE sndUna
           un == IF Advances(seg) THEN Pruned(una) ELSE unacked
           st == IF AcksOurFin(seg) THEN AfterOurFin ELSE state
<1>1. upstreamEof \in BOOLEAN /\ state # "CLOSED" /\ state # "SYN_RECV"
  BY DEF IndInv, Flags
<1>2. /\ Transmitting(state, sndUna, unacked) /\ produced \in 0..ServerBytes /\ sndUna \in SeqNos
      /\ \E v \in 1..(ServerBytes + 2) : sndNxt = ServerSeq(v)
  BY Places DEF SndInv
<1>3. CASE TerminateNow("sent")
  BY <1>1, <1>3, SndEndedNow
<1>4. CASE ~(seg.ack /\ SeqGt(seg.ackNo, sndNxt))
  <2>1. seg.window \in Windows /\ una \in SeqNos
    <3>1. PICK v \in 1..(ServerBytes + 2) : sndNxt = ServerSeq(v)
      BY <1>2
    <3>2. /\ seg.window \in Windows
          /\ seg.ack => seg.ackNo = sndUna \/ \E k \in 1..v : seg.ackNo = ServerSeq(k)
      BY <1>1, <1>4, <3>1, AckNumbers
    <3>3. \A k \in 1..v : ServerSeq(k) \in SeqNos
      <4>1. \A k \in 1..v : k \in 0..(ServerBytes + 3)
        BY SessionAssumption
      <4> QED
        BY <4>1, ServerSeqs
    <3> QED
      BY <1>2, <3>2, <3>3 DEF Advances
  <2>2. CASE /\ AcksOurFin(seg) /\ state = "LAST_ACK" /\ Terminate(reset)
             /\ sndUna' = una /\ UNCHANGED <<clientWnd, clientFinDone>>
    <3>1. clientFinDone' /\ clientWnd' \in Windows \cup {0}
      BY <2>2 DEF IndInv, StatePairing, SndInv
    <3>2. ourFinSeq # None /\ SeqGt(sndUna', ourFinSeq)
      BY <2>2 DEF AcksOurFin
    <3> QED
      BY <1>1, <2>1, <2>2, <3>1, <3>2, SndEnded
  <2>3. CASE ~(AcksOurFin(seg) /\ state = "LAST_ACK")
    <3>1. Transmitting(st, una, un)
      BY <1>4, <2>3, AckProcessed
    <3>2. st # "SYN_RECV"
      BY <1>1 DEF AfterOurFin
    <3> HIDE DEF st, un, una
    <3>3. CASE Terminate("sent") /\ sndUna' = una /\ clientWnd' = seg.window
      BY <1>1, <2>1, <3>3, SndEnded
    <3>4. CASE ReceiveThenSend(seg, room, st, una, un)
      BY <1>1, <2>1, <3>1, <3>2, <3>4, ReceiveThenSendSnd
    <3>5. CASE AckThenSend(seg, st, una, un)
      BY <1>1, <2>1, <3>1, <3>5, AckThenSendSnd
    <3> QED
      BY <1>3, <2>3, <3>3, <3>4, <3>5 DEF OnDataSegment, st, un, una
  <2> QED
    BY <1>3, <2>2, <2>3 DEF OnDataSegment
<1> QED
  BY <1>3, <1>4 DEF OnDataSegment

\* A session that is refused before it began has nothing queued.
LEMMA RefusedSnd ==
    ASSUME SndInv, state = "CLOSED", ~terminated, TerminateNow("sent")
    PROVE  SndInv' /\ InWindow
<1>1. /\ state' = "CLOSED" /\ terminated' = TRUE /\ sendQ' = <<>> /\ sendQBytes' = 0
      /\ unacked' = <<>> /\ reset' = "sent"
      /\ UNCHANGED <<sndUna, sndNxt, clientWnd, ourFinSeq, upstreamEof, produced>>
  BY DEF TerminateNow, Terminate, ackVars
<1>2. 0 \in 0..SendCap
  BY SessionAssumption
<1>3. EndsHonestly'
  BY <1>1 DEF EndsHonestly
<1>4. SndInv'
  BY <1>1, <1>2, <1>3 DEF SndInv
<1> QED
  BY <1>4 DEF InWindow

LEMMA SynSnd ==
    ASSUME SndInv, state = "CLOSED", ~terminated, NEW seg \in ClientPackets, seg.syn,
           OnSyn(seg)
    PROVE  SndInv' /\ InWindow
<1>1. seg.window \in Windows
  BY DEF ClientPackets, SynPackets, Overtaking, Segment
<1>2. /\ state' = "SYN_RECV" /\ sndUna' = Issn /\ sndNxt' = SeqAdd(Issn, 1)
      /\ clientWnd' = seg.window /\ sendQ' = <<>> /\ sendQBytes' = 0 /\ unacked' = <<>>
      /\ ourFinSeq' = None /\ produced' = 0 /\ reset' = reset /\ terminated' = terminated
  BY DEF OnSyn, Live, upVars, SndInv
<1>3. sndUna' = ServerSeq(0) /\ sndNxt' = ServerSeq(1)
  BY <1>2, ServerSeqs DEF ServerSeq
<1>4. Queue(<<>>, 1, 1, 0) /\ Flight(<<>>, 1, 1, 0)
  BY DEF Queue, Flight
<1>5. Sending(state, sndUna, unacked, 1, 1)'
  BY <1>2, <1>3, <1>4 DEF Sending
<1>6. Transmitting(state, sndUna, unacked)'
  BY <1>2, <1>5 DEF Transmitting
<1>7. 0 \in 0..ServerBytes /\ 0 \in 0..SendCap
  BY SessionAssumption
<1>8. SndInv'
  BY <1>1, <1>2, <1>6, <1>7 DEF SndInv
<1> QED
  BY <1>8 DEF InWindow

LEMMA SynRecvSnd ==
    ASSUME SndInv, IndInv, ~terminated, state = "SYN_RECV",
           NEW seg \in ClientPackets, ~seg.rst, NEW room, OnSynRecv(seg, room)
    PROVE  SndInv' /\ InWindow
<1>0. upstreamEof \in BOOLEAN /\ state # "CLOSED"
  BY DEF IndInv, Flags
<1>1. CASE Live /\ UNCHANGED <<state, ackVars, queueVars, upstreamEof, upVars>>
  BY <1>0, <1>1, SndKept DEF Live, ackVars, queueVars, upVars
<1>2. CASE TerminateNow("sent")
  BY <1>0, <1>2, SndEndedNow
<1>3. CASE /\ HandshakeAck(seg)
           /\ \/ ReceiveThenSend(seg, room, "ESTABLISHED", seg.ackNo, unacked)
              \/ AckThenSend(seg, "ESTABLISHED", seg.ackNo, unacked)
  <2>1. produced \in 0..ServerBytes /\ Transmitting(state, sndUna, unacked)
    BY <1>0 DEF SndInv
  <2>2. PICK u \in 1..(produced + 1), x \in 1..(produced + 1) : Sending(state, sndUna, unacked, u, x)
    BY <2>1 DEF Transmitting, Finished
  <2>3. x = 1 /\ u = 1 /\ sndNxt = ServerSeq(1)
    BY <2>2 DEF Sending
  <2>4. seg.ackNo = ServerSeq(1)
    BY <1>3, <2>3 DEF HandshakeAck
  <2>5. Sending("ESTABLISHED", seg.ackNo, unacked, u, x)
    BY <2>2, <2>3, <2>4 DEF Sending
  <2>6. Transmitting("ESTABLISHED", seg.ackNo, unacked)
    BY <2>5 DEF Transmitting
  <2>7. seg.window \in Windows
    <3>1. 1 \in 1..(ServerBytes + 2)
      BY SessionAssumption
    <3> QED
      BY <1>0, <2>3, <3>1, AckNumbers
  <2>8. CASE ReceiveThenSend(seg, room, "ESTABLISHED", seg.ackNo, unacked)
    BY <1>0, <2>6, <2>7, <2>8, ReceiveThenSendSnd
  <2>9. CASE AckThenSend(seg, "ESTABLISHED", seg.ackNo, unacked)
    BY <1>0, <2>6, <2>7, <2>9, AckThenSendSnd
  <2> QED
    BY <1>3, <2>8, <2>9
<1> QED
  BY <1>1, <1>2, <1>3 DEF OnSynRecv

LEMMA PacketSnd ==
    ASSUME SndInv, IndInv, NEW seg \in ClientPackets, NEW room, OnPacket(seg, room)
    PROVE  SndInv' /\ InWindow
<1>0. ~terminated
  BY DEF OnPacket
<1>1. CASE state # "CLOSED" /\ OnReset(seg)
  <2>1. CASE TerminateNow("received")
    BY <1>1, <2>1, SndEndedNow
  <2>2. CASE Live /\ UNCHANGED <<state, ackVars, queueVars, upstreamEof, upVars>>
    BY <1>1, <2>2, SndKept DEF Live, ackVars, queueVars, upVars
  <2> QED
    BY <1>1, <2>1, <2>2 DEF OnReset
<1>2. CASE state = "CLOSED" /\ OnSyn(seg)
  <2>1. CASE seg.syn
    BY <1>0, <1>2, <2>1, SynSnd
  <2>2. CASE ~seg.syn
    BY <1>0, <1>2, <2>2, RefusedSnd DEF OnSyn
  <2> QED
    BY <2>1, <2>2
<1>3. CASE ~seg.rst /\ state = "SYN_RECV" /\ OnSynRecv(seg, room)
  BY <1>0, <1>3, SynRecvSnd
<1>4. CASE state = "TIME_WAIT" /\ OnTimeWait
  BY <1>4, SndKept DEF OnTimeWait, Live, ackVars, queueVars, upVars
<1>5. CASE /\ ~seg.rst /\ state \notin {"CLOSED", "SYN_RECV", "TIME_WAIT"}
           /\ OnDataSegment(seg, room)
  BY <1>0, <1>5, DataSegmentSnd
<1> QED
  BY <1>1, <1>2, <1>3, <1>4, <1>5 DEF OnPacket

\* Upstream bytes and EOF find no FIN out: nothing is read after EOF.
LEMMA UpstreamSnd ==
    ASSUME SndInv, ~EarlyUpstream, NEW n \in 1..MaxSegment, OnUpstreamData(n)
    PROVE  SndInv' /\ InWindow
<1>1. /\ ~terminated /\ state # "CLOSED" /\ ~upstreamEof /\ produced + n <= ServerBytes
      /\ produced \in 0..ServerBytes /\ Transmitting(state, sndUna, unacked)
      /\ n \in Nat \ {0} /\ ServerBytes \in Nat /\ SendCap \in Nat
      /\ clientWnd \in Windows \cup {0}
  BY SessionAssumption DEF OnUpstreamData, UpstreamTalks, SndInv
<1>2. PICK u \in 1..(produced + 1), x \in 1..(produced + 1) : Sending(state, sndUna, unacked, u, x)
  BY <1>1 DEF Transmitting, Finished
<1> DEFINE q == Append(sendQ, Piece(produced + 1, n))
           n2 == produced + n
<1>3. /\ ourFinSeq = None /\ state \in {"SYN_RECV", "ESTABLISHED", "CLOSE_WAIT"}
      /\ sndUna = ServerSeq(IF state = "SYN_RECV" THEN 0 ELSE u) /\ sndNxt = ServerSeq(x)
      /\ state = "SYN_RECV" => x = 1
      /\ sendQBytes = produced + 1 - x /\ u \in 1..x
      /\ Queue(sendQ, x, produced + 1, produced) /\ Flight(unacked, u, x, produced)
  BY <1>2 DEF Sending
<1>4. /\ sendQBytes + n <= SendCap /\ Live
      /\ SendPhase(state, sndUna, clientWnd, upstreamEof, Outbound(q, sendQBytes + n, unacked))
      /\ produced' = n2 /\ UNCHANGED <<ackVars, upstreamEof>>
  BY <1>3 DEF OnUpstreamData
<1>5. Queue(q, x, n2 + 1, n2)
  BY <1>1, <1>3, QueueAppend
<1>6. Flight(unacked, u, x, n2)
  <2>1. produced \in Nat /\ n2 \in Nat /\ produced <= n2
    BY <1>1
  <2> QED
    BY <1>3, <2>1, FlightGrows
<1>7. /\ n2 \in 0..ServerBytes /\ x \in 1..(n2 + 1) /\ u \in 1..x
      /\ sendQBytes + n = n2 + 1 - x /\ n2 + 1 - x <= SendCap
  BY <1>1, <1>3, <1>4
<1>8. clientWnd \in Nat /\ clientWnd' = clientWnd /\ sndUna' = sndUna /\ upstreamEof' = FALSE
      /\ FALSE \in BOOLEAN /\ upstreamEof = FALSE
  <2>1. upstreamEof = FALSE
    BY DEF OnUpstreamData
  <2> QED
    BY <1>1, <1>4, <2>1, SessionAssumption DEF ackVars
<1> HIDE DEF q, n2
<1>9. SendPhase(state, sndUna, clientWnd, FALSE, Outbound(q, n2 + 1 - x, unacked))
  BY <1>4, <1>7, <1>8
<1>10. Transmitting(state, sndUna, unacked)' /\ sendQBytes' \in 0..SendCap /\ InWindow
  BY <1>3, <1>4, <1>5, <1>6, <1>7, <1>8, <1>9, SendBefore
<1>11. state' # "CLOSED"
  BY <1>1, <1>4 DEF SendPhase
<1>12. SndInv'
  BY <1>1, <1>4, <1>7, <1>8, <1>10, <1>11 DEF SndInv, Live
<1> QED
  BY <1>10, <1>12

LEMMA EofSnd ==
    ASSUME SndInv, ~EarlyUpstream, OnUpstreamEof
    PROVE  SndInv' /\ InWindow
<1>1. /\ ~terminated /\ state # "CLOSED" /\ ~upstreamEof
      /\ produced \in 0..ServerBytes /\ Transmitting(state, sndUna, unacked)
      /\ ServerBytes \in Nat /\ SendCap \in Nat
      /\ clientWnd \in Windows \cup {0} /\ sendQBytes \in 0..SendCap
  BY SessionAssumption DEF OnUpstreamEof, UpstreamTalks, SndInv
<1>2. PICK u \in 1..(produced + 1), x \in 1..(produced + 1) : Sending(state, sndUna, unacked, u, x)
  BY <1>1 DEF Transmitting, Finished
<1>3. /\ ourFinSeq = None /\ state \in {"SYN_RECV", "ESTABLISHED", "CLOSE_WAIT"}
      /\ sndUna = ServerSeq(IF state = "SYN_RECV" THEN 0 ELSE u) /\ sndNxt = ServerSeq(x)
      /\ state = "SYN_RECV" => x = 1
      /\ sendQBytes = produced + 1 - x /\ u \in 1..x
      /\ Queue(sendQ, x, produced + 1, produced) /\ Flight(unacked, u, x, produced)
  BY <1>2 DEF Sending
<1>4. /\ SendPhase(state, sndUna, clientWnd, TRUE, Outbound(sendQ, sendQBytes, unacked))
      /\ produced' = produced /\ Live /\ UNCHANGED ackVars /\ upstreamEof' = TRUE
  BY DEF OnUpstreamEof, upVars
<1>5. clientWnd \in Nat /\ clientWnd' = clientWnd /\ sndUna' = sndUna
  BY <1>1, <1>4, SessionAssumption DEF ackVars
<1>6. produced + 1 - x <= SendCap
  BY <1>1, <1>3
<1>7. SendPhase(state, sndUna, clientWnd, TRUE, Outbound(sendQ, produced + 1 - x, unacked))
  BY <1>3, <1>4
<1>8. Transmitting(state, sndUna, unacked)' /\ sendQBytes' \in 0..SendCap /\ InWindow
  <2> DEFINE n == produced
  <2>1. /\ n \in 0..ServerBytes /\ x \in 1..(n + 1) /\ u \in 1..x /\ produced' = n
        /\ n + 1 - x <= SendCap /\ Queue(sendQ, x, n + 1, n) /\ Flight(unacked, u, x, n)
        /\ SendPhase(state, sndUna, clientWnd, TRUE, Outbound(sendQ, n + 1 - x, unacked))
    BY <1>1, <1>3, <1>4, <1>6, <1>7
  <2> HIDE DEF n
  <2> QED
    BY <1>3, <1>4, <1>5, <2>1, SendBefore
<1>9. state' # "CLOSED"
  BY <1>1, <1>4 DEF SendPhase
<1>10. SndInv'
  BY <1>1, <1>4, <1>5, <1>8, <1>9 DEF SndInv, Live
<1> QED
  BY <1>8, <1>10

LEMMA TickSnd ==
    ASSUME SndInv, IndInv, OnTick
    PROVE  SndInv' /\ InWindow
<1>0. ~terminated /\ state # "CLOSED"
  BY DEF OnTick
<1>1. CASE TerminateNow("sent")
  BY <1>0, <1>1, SndEndedNow
<1>2. CASE TimeWaitOver /\ TerminateNow(reset)
  <2>1. state = "TIME_WAIT" /\ clientFinDone
    BY <1>2 DEF TimeWaitOver, IndInv, StatePairing
  <2>2. produced \in 0..ServerBytes /\ ServerBytes \in Nat /\ Transmitting(state, sndUna, unacked)
    BY <1>0, SessionAssumption DEF SndInv
  <2>3. PICK u \in 1..(produced + 2) : Finished(state, sndUna, unacked, u)
    BY <2>1, <2>2 DEF Transmitting, Sending
  <2>4. sndUna = ServerSeq(produced + 2) /\ ourFinSeq = ServerSeq(produced + 1)
    BY <2>1, <2>3 DEF Finished
  <2>5. /\ produced + 2 \in 0..(ServerBytes + 3) /\ produced + 1 \in 0..(ServerBytes + 3)
        /\ produced + 2 > produced + 1
    BY <2>2
  <2>6. SeqGt(sndUna, ourFinSeq) /\ ourFinSeq \in SeqNos /\ sndUna \in SeqNos
    BY <2>4, <2>5, ServerSeqs
  <2>7. ourFinSeq # None
    BY <2>6, SessionAssumption DEF SeqNos, None
  <2>8. /\ Terminate(reset) /\ sndUna' = sndUna /\ clientWnd' = clientWnd
        /\ clientFinDone' = clientFinDone
    BY <1>2 DEF TerminateNow, ackVars
  <2>9. clientWnd' \in Windows \cup {0}
    BY <2>8 DEF SndInv
  <2> QED
    BY <1>0, <2>1, <2>6, <2>7, <2>8, <2>9, SndEnded
<1>3. CASE ~GivesUp /\ Retransmit /\ Live
           /\ UNCHANGED <<state, ackVars, sndNxt, sendQ, sendQBytes, ourFinSeq,
                          upstreamEof, upVars>>
  <2>1. ASSUME NEW a, NEW b, NEW n, Flight(unacked, a, b, n) PROVE Flight(unacked', a, b, n)
    <3>1. unacked \in Seq(Segments) /\ Len(unacked) \in Nat /\ DOMAIN unacked = 1..Len(unacked)
      BY <2>1 DEF Flight
    <3>2. unacked' = [i \in 1..Len(unacked) |->
                        IF i \in Due THEN Resent(unacked[i])
                        ELSE [unacked[i] EXCEPT !.age = Older(@)]]
      BY <1>3, <3>1 DEF Retransmit
    <3>3. ASSUME NEW i \in 1..Len(unacked)
          PROVE  /\ unacked'[i] \in Segments /\ unacked'[i].data = unacked[i].data
                 /\ unacked'[i].seq = unacked[i].seq
      <4> DEFINE e == unacked[i]
      <4>1. e \in Segments
        BY <3>1
      <4>2. Rto \in Nat /\ MaxRetries \in Nat
        BY SessionAssumption
      <4>3. unacked'[i] = IF i \in Due THEN Resent(e) ELSE [e EXCEPT !.age = Older(@)]
        BY <3>2
      <4>4. i \in Due => ~(e.retries >= MaxRetries)
        BY <1>3 DEF GivesUp
      <4> HIDE DEF e
      <4>5. CASE i \in Due
        <5>1. e.retries + 1 \in 0..MaxRetries /\ 0 \in 0..Rto
          BY <4>1, <4>2, <4>4, <4>5, SegmentType
        <5> QED
          BY <4>1, <4>3, <4>5, <5>1 DEF Resent, Segments, e
      <4>6. CASE i \notin Due
        <5>1. Older(e.age) \in 0..Rto
          BY <4>1, <4>2, SegmentType DEF Older, AtMost
        <5> QED
          BY <4>1, <4>3, <4>6, <5>1 DEF Segments, e
      <4> QED
        BY <4>5, <4>6
    <3>4. unacked' \in Seq(Segments) /\ Len(unacked') = Len(unacked)
      BY <3>1, <3>2, <3>3
    <3>5. unacked' = <<>> <=> unacked = <<>>
      BY <3>1, <3>4
    <3>6. ASSUME NEW i \in 1..Len(unacked')
          PROVE  /\ unacked'[i].data.len > 0 /\ PieceEnd(unacked'[i].data) <= n + 1
                 /\ unacked'[i].seq = ServerSeq(unacked'[i].data.from)
                 /\ unacked'[i].data.from = IF i = 1 THEN a ELSE PieceEnd(unacked'[i - 1].data)
      <4>1. i \in 1..Len(unacked) /\ (i # 1 => i - 1 \in 1..Len(unacked))
        BY <3>1, <3>4
      <4>2. /\ unacked'[i].data = unacked[i].data /\ unacked'[i].seq = unacked[i].seq
            /\ i # 1 => unacked'[i - 1].data = unacked[i - 1].data
        BY <3>3, <4>1
      <4> QED
        BY <2>1, <4>1, <4>2 DEF Flight
    <3>7. b = IF unacked' = <<>> THEN a ELSE PieceEnd(unacked'[Len(unacked')].data)
      <4>1. CASE unacked = <<>>
        BY <2>1, <3>5, <4>1 DEF Flight
      <4>2. CASE unacked # <<>>
        <5>1. Len(unacked) \in 1..Len(unacked)
          BY <3>1, <4>2
        <5> QED
          BY <2>1, <3>3, <3>4, <3>5, <4>2, <5>1 DEF Flight
      <4> QED
        BY <4>1, <4>2
    <3> QED
      BY <3>4, <3>6, <3>7 DEF Flight
  <2> QED
    BY <1>0, <1>3, <2>1, SndKept DEF Live, ackVars, upVars
<1> QED
  BY <1>1, <1>2, <1>3 DEF OnTick

LEMMA SndNext ==
    ASSUME SndInv, IndInv, ~EarlyUpstream, [Next]_vars
    PROVE  SndInv' /\ (vars' = vars \/ InWindow)
<1>1. CASE \E seg \in ClientPackets, room \in Rooms : OnPacket(seg, room)
  BY <1>1, PacketSnd
<1>2. CASE \E n \in 1..MaxSegment : OnUpstreamData(n)
  BY <1>2, UpstreamSnd
<1>3. CASE \E n \in 1..MaxSegment : OnUpstreamOverrun(n)
  BY <1>3, SndEndedNow DEF OnUpstreamOverrun, UpstreamTalks
<1>4. CASE OnUpstreamEof
  BY <1>4, EofSnd
<1>5. CASE AbortWithRst
  BY <1>5, SndEndedNow DEF AbortWithRst
<1>6. CASE OnTick
  BY <1>6, TickSnd
<1>7. CASE UNCHANGED vars
  BY <1>7 DEF vars, ackVars, queueVars, rcvVars, upVars, finVars, SndInv, EndsHonestly,
              Transmitting, Sending, Finished
<1> QED
  BY <1>1, <1>2, <1>3, <1>4, <1>5, <1>6, <1>7 DEF Next, Gone

LEMMA Joined ==
    ASSUME NEW d \in Seq(Pieces), NEW q \in Seq(Pieces)
    PROVE  /\ d \o q \in Seq(Pieces) /\ Len(d \o q) = Len(d) + Len(q)
           /\ DOMAIN (d \o q) = 1..(Len(d) + Len(q))
           /\ \A i \in 1..Len(d) : (d \o q)[i] = d[i]
           /\ \A i \in 1..Len(q) : (d \o q)[Len(d) + i] = q[i]
<1>1. Len(d) \in Nat /\ Len(q) \in Nat
  OBVIOUS
<1>2. d \o q \in Seq(Pieces) /\ Len(d \o q) = Len(d) + Len(q)
  OBVIOUS
<1>3. DOMAIN (d \o q) = 1..(Len(d) + Len(q))
  BY <1>2
<1>4. \A i \in 1..Len(d) : (d \o q)[i] = d[i]
  OBVIOUS
<1>5. ASSUME NEW i \in 1..Len(q) PROVE (d \o q)[Len(d) + i] = q[i]
  <2>1. /\ Len(d) + i \in 1..(Len(d) + Len(q)) /\ ~(Len(d) + i <= Len(d))
        /\ Len(d) + i - Len(d) = i
    BY <1>1
  <2> QED
    BY <2>1
<1> QED
  BY <1>2, <1>3, <1>4, <1>5

\* A run of pieces from byte a to the last of n.
WholeRun(run, a, n) ==
    /\ \A i \in DOMAIN run :
          /\ run[i].len > 0
          /\ run[i].from = IF i = 1 THEN a ELSE run[i - 1].from + run[i - 1].len
    /\ n + 1 = IF run = <<>> THEN a ELSE run[Len(run)].from + run[Len(run)].len

\* What is in flight and what waits, end to end, are one run of the stream.
LEMMA RunIsWhole ==
    ASSUME NEW un, NEW q, NEW a, NEW x, NEW n \in 0..ServerBytes,
           Flight(un, a, x, n), Queue(q, x, n + 1, n),
           NEW run, run = [i \in DOMAIN un |-> un[i].data] \o q
    PROVE  WholeRun(run, a, n)
<1> DEFINE d == [i \in DOMAIN un |-> un[i].data]
           k == Len(un)
           m == Len(q)
<1>1. /\ un \in Seq(Segments) /\ k \in Nat /\ DOMAIN un = 1..k
      /\ q \in Seq(Pieces) /\ m \in Nat
  BY DEF Flight, Queue
<1>2. d \in Seq(Pieces) /\ Len(d) = k /\ \A i \in 1..k : d[i] = un[i].data
  <2>1. \A i \in 1..k : un[i].data \in Pieces
    BY <1>1, SegmentType
  <2>2. d = [i \in 1..k |-> un[i].data]
    BY <1>1
  <2> HIDE DEF k, d
  <2> QED
    BY <1>1, <2>1, <2>2
<1> HIDE DEF d
<1>3. /\ run = d \o q
  BY DEF d
<1>4. /\ run \in Seq(Pieces) /\ Len(run) = k + m /\ DOMAIN run = 1..(k + m)
      /\ \A i \in 1..k : run[i] = un[i].data
      /\ \A i \in 1..m : run[k + i] = q[i]
  <2> HIDE DEF k, m
  <2>1. Len(d) = k /\ Len(q) = m /\ d \in Seq(Pieces) /\ q \in Seq(Pieces)
    BY <1>1, <1>2 DEF m
  <2>2. /\ d \o q \in Seq(Pieces) /\ Len(d \o q) = k + m
        /\ DOMAIN (d \o q) = 1..(k + m)
        /\ \A i \in 1..k : (d \o q)[i] = d[i]
        /\ \A i \in 1..m : (d \o q)[k + i] = q[i]
    BY <2>1, Joined, Zenon
  <2> QED
    BY <1>2, <1>3, <2>2, Zenon
<1>5. (un = <<>> <=> k = 0) /\ (q = <<>> <=> m = 0) /\ (run = <<>> <=> k + m = 0)
  BY <1>1, <1>4
<1>6. /\ \A i \in 1..k : un[i].data.len > 0
      /\ \A i \in 1..k : un[i].data.from = IF i = 1 THEN a ELSE PieceEnd(un[i - 1].data)
      /\ x = IF k = 0 THEN a ELSE PieceEnd(un[k].data)
      /\ \A i \in 1..m : q[i].len > 0
      /\ \A i \in 1..m : q[i].from = IF i = 1 THEN x ELSE PieceEnd(q[i - 1])
      /\ n + 1 = IF m = 0 THEN x ELSE PieceEnd(q[m])
  BY <1>5 DEF Flight, Queue
<1> HIDE DEF k, m
<1>7. ASSUME NEW i \in DOMAIN run
      PROVE  /\ run[i].len > 0
             /\ run[i].from = IF i = 1 THEN a ELSE PieceEnd(run[i - 1])
  <2>1. CASE i \in 1..k
    <3>1. i # 1 => i - 1 \in 1..k
      BY <1>1, <2>1
    <3> QED
      BY <1>4, <1>6, <2>1, <3>1
  <2>2. CASE i = k + 1
    <3>1. 1 \in 1..m /\ run[i] = q[1] /\ run[i].from = x /\ run[i].len > 0
      <4>1. 1 \in 1..m
        BY <1>1, <1>4, <2>2
      <4> QED
        BY <1>4, <1>6, <2>2, <4>1
    <3>2. CASE k = 0
      BY <1>6, <2>2, <3>1, <3>2
    <3>3. CASE k # 0
      <4>1. i # 1 /\ i - 1 = k /\ k \in 1..k
        BY <1>1, <2>2, <3>3
      <4> QED
        BY <1>4, <1>6, <3>1, <3>3, <4>1
    <3> QED
      BY <3>2, <3>3
  <2>3. CASE i > k + 1
    <3> DEFINE j == i - k
    <3>1. /\ j \in 1..m /\ j # 1 /\ j - 1 \in 1..m /\ i = k + j /\ i - 1 = k + (j - 1) /\ i # 1
      BY <1>1, <1>4, <2>3
    <3> HIDE DEF j
    <3>2. run[i] = q[j] /\ run[i - 1] = q[j - 1]
      BY <1>4, <3>1
    <3> QED
      BY <1>6, <3>1, <3>2
  <2>4. i \in 1..(k + m)
    BY <1>4
  <2>5. i \in 1..k \/ i = k + 1 \/ i > k + 1
    BY <1>1, <2>4
  <2> QED
    BY <2>1, <2>2, <2>3, <2>5
<1>8. n + 1 = IF run = <<>> THEN a ELSE PieceEnd(run[Len(run)])
  <2>1. CASE m = 0
    <3>1. CASE k = 0
      BY <1>5, <1>6, <2>1, <3>1
    <3>2. CASE k # 0
      <4>1. k \in 1..k /\ Len(run) = k /\ run # <<>>
        BY <1>1, <1>4, <1>5, <2>1, <3>2
      <4> QED
        BY <1>4, <1>6, <2>1, <3>2, <4>1
    <3> QED
      BY <3>1, <3>2
  <2>2. CASE m # 0
    <3>1. m \in 1..m /\ Len(run) = k + m /\ run # <<>>
      BY <1>1, <1>4, <1>5, <2>2
    <3> QED
      BY <1>4, <1>6, <2>2, <3>1
  <2> QED
    BY <2>1, <2>2
<1> QED
  BY <1>7, <1>8 DEF PieceEnd, WholeRun

\* Both shapes of a live session are such a run, from the byte sndUna names.
LEMMA SndInvSendBuffer == SndInv => SendBuffer
<1> SUFFICES ASSUME SndInv, state # "CLOSED" PROVE SendBuffer
  BY DEF SendBuffer
<1> DEFINE run == [i \in DOMAIN unacked |-> unacked[i].data] \o sendQ
           finAcked == ourFinSeq # None /\ SeqGt(sndUna, ourFinSeq)
           una == IF state = "SYN_RECV" THEN 1
                  ELSE SeqDiff(sndUna, Issn) - (IF finAcked THEN 1 ELSE 0)
           n == produced
<1>1. n \in 0..ServerBytes /\ ServerBytes \in Nat /\ Transmitting(state, sndUna, unacked)
  BY SessionAssumption DEF SndInv
<1>2. \E x \in 1..(n + 1) : /\ Flight(unacked, una, x, n) /\ Queue(sendQ, x, n + 1, n)
                            /\ sendQBytes = n + 1 - x
  <2>1. CASE \E u, x \in 1..(produced + 1) : Sending(state, sndUna, unacked, u, x)
    <3>1. PICK u \in 1..(n + 1), x \in 1..(n + 1) : Sending(state, sndUna, unacked, u, x)
      BY <2>1
    <3>2. u \in 0..(ServerBytes + 3) /\ 0 \in 0..(ServerBytes + 3) /\ u - 0 = u
      BY <1>1
    <3>3. SeqDiff(ServerSeq(u), Issn) = u
      BY <3>2, ServerSeqs
    <3>4. state = "SYN_RECV" => u = 1
      BY <3>1 DEF Sending
    <3>5. una = u
      BY <3>1, <3>2, <3>3, <3>4 DEF Sending
    <3>6. Flight(unacked, u, x, n) /\ Queue(sendQ, x, n + 1, n) /\ sendQBytes = n + 1 - x
      BY <3>1 DEF Sending
    <3> QED
      BY <3>5, <3>6
  <2>2. CASE \E u \in 1..(produced + 2) : Finished(state, sndUna, unacked, u)
    <3>1. PICK u \in 1..(n + 2) : Finished(state, sndUna, unacked, u)
      BY <2>2
    <3>2. /\ u \in 0..(ServerBytes + 3) /\ 0 \in 0..(ServerBytes + 3) /\ u - 0 = u
          /\ n + 1 \in 0..(ServerBytes + 3) /\ n + 1 \in 1..(n + 1) /\ n + 1 - (n + 1) = 0
      BY <1>1
    <3>3. SeqDiff(ServerSeq(u), Issn) = u /\ ServerSeq(n + 1) \in SeqNos
          /\ (SeqGt(ServerSeq(u), ServerSeq(n + 1)) <=> u > n + 1)
      BY <3>2, ServerSeqs
    <3>4. ServerSeq(n + 1) # None
      BY <3>3, SessionAssumption DEF SeqNos, None
    <3>5. sndUna = ServerSeq(u) /\ ourFinSeq = ServerSeq(n + 1) /\ state # "SYN_RECV"
      BY <3>1 DEF Finished
    <3>6. finAcked <=> u > n + 1
      BY <3>3, <3>4, <3>5
    <3>7. una = AtMost(u, n + 1)
      <4>1. una = u - (IF finAcked THEN 1 ELSE 0)
        BY <3>3, <3>5
      <4> HIDE DEF una, finAcked
      <4>2. CASE u > n + 1
        <5>1. finAcked
          BY <3>6, <4>2
        <5>2. una = u - 1
          BY <4>1, <5>1
        <5> QED
          BY <1>1, <4>2, <5>2 DEF AtMost
      <4>3. CASE ~(u > n + 1)
        <5>1. ~finAcked
          BY <3>6, <4>3
        <5>2. una = u
          BY <4>1, <5>1
        <5>3. u < n + 1 \/ u = n + 1
          BY <1>1, <4>3
        <5> QED
          BY <5>2, <5>3 DEF AtMost
      <4> QED
        BY <4>2, <4>3
    <3>8. /\ Flight(unacked, AtMost(u, n + 1), n + 1, n) /\ sendQ = <<>> /\ sendQBytes = 0
      BY <3>1 DEF Finished
    <3>9. Queue(<<>>, n + 1, n + 1, n)
      BY DEF Queue
    <3> QED
      BY <3>2, <3>7, <3>8, <3>9
  <2> QED
    BY <1>1, <2>1, <2>2 DEF Transmitting
<1>3. PICK x \in 1..(n + 1) : /\ Flight(unacked, una, x, n) /\ Queue(sendQ, x, n + 1, n)
                              /\ sendQBytes = n + 1 - x
  BY <1>2
<1>0. run = [i \in DOMAIN unacked |-> unacked[i].data] \o sendQ
  OBVIOUS
<1> HIDE DEF una, run
<1>4. WholeRun(run, una, n)
  BY <1>1, <1>3, <1>0, RunIsWhole
<1>5. \A i \in DOMAIN unacked : unacked[i].seq = SeqAdd(Issn, unacked[i].data.from)
  BY <1>3 DEF Flight, ServerSeq
<1>6. sendQBytes = Cardinality(BytesOf(sendQ))
  BY <1>1, <1>3, QueueHolds
<1> QED
  BY <1>4, <1>5, <1>6 DEF SendBuffer, BytesOf, WholeRun, run, una

\* The inductive invariants of the send side, together, when the upstream does not call
\* before the SYN was processed.
THEOREM SendInvariant == ASSUME ~EarlyUpstream PROVE Spec => [](SndInv /\ IndInv)
<1>1. Init => SndInv /\ IndInv
  BY SndInit DEF Init, IndInv, StatePairing, Unborn, Flags
<1>2. SndInv /\ IndInv /\ [Next]_vars => (SndInv /\ IndInv)'
  BY SndNext, NextInd
<1> QED
  BY <1>1, <1>2, PTL DEF Spec

\* TcpSession.kt: whatever is acknowledged, sent again or queued, the segments in flight
\* and the send queue are one unbroken run of the upstream's stream, each segment under its
\* own sequence number.
THEOREM SendBufferWhole == ASSUME ~EarlyUpstream PROVE Spec => []SendBuffer
<1>1. SndInv /\ IndInv => SendBuffer
  BY SndInvSendBuffer
<1> QED
  BY <1>1, SendInvariant, PTL

\* TcpSession.kt: our FIN never cuts off a byte of the upstream.
THEOREM FinComesLast == ASSUME ~EarlyUpstream PROVE Spec => []FinAfterData
<1>1. SndInv /\ IndInv => FinAfterData
  <2> SUFFICES ASSUME SndInv, IndInv PROVE FinAfterData
    OBVIOUS
  <2>1. CASE state = "CLOSED"
    BY <2>1 DEF SndInv, FinAfterData, ServerSeq
  <2>2. CASE state # "CLOSED"
    <3>1. produced \in 0..ServerBytes /\ Transmitting(state, sndUna, unacked)
      BY <2>2 DEF SndInv
    <3>2. ourFinSeq # None => /\ upstreamEof /\ sendQ = <<>>
                              /\ ourFinSeq = SeqAdd(Issn, produced + 1)
      BY <3>1, Places DEF ServerSeq
    <3>3. state \in {"FIN_WAIT_1", "FIN_WAIT_2", "LAST_ACK", "TIME_WAIT"} => ourFinSeq # None
      <4> SUFFICES ASSUME state \in {"FIN_WAIT_1", "FIN_WAIT_2", "LAST_ACK", "TIME_WAIT"}
                   PROVE  ourFinSeq # None
        OBVIOUS
      <4>1. ourFinSeq = ServerSeq(produced + 1)
        BY <3>1 DEF Transmitting, Sending, Finished
      <4>2. produced + 1 \in 0..(ServerBytes + 3)
        BY <3>1, SessionAssumption
      <4>3. ServerSeq(produced + 1) \in SeqNos
        BY <4>2, ServerSeqs
      <4> QED
        BY <4>1, <4>3, SessionAssumption DEF SeqNos, None
    <3> QED
      BY <3>2, <3>3 DEF FinAfterData
  <2> QED
    BY <2>1, <2>2
<1> QED
  BY <1>1, SendInvariant, PTL

\* TcpSession.kt: a flow ends with an RST, or after both FINs were exchanged and ours was
\* acknowledged.
THEOREM NoSilentEnd == ASSUME ~EarlyUpstream PROVE Spec => []EndsHonestly
<1>1. SndInv /\ IndInv => EndsHonestly
  BY DEF SndInv, EndsHonestly
<1> QED
  BY <1>1, SendInvariant, PTL

\* TcpSession.kt: new data leaves only inside the window the client advertised last.
THEOREM WindowKept == ASSUME ~EarlyUpstream PROVE Spec => WindowRespected
<1>1. SndInv /\ IndInv /\ [Next]_vars =>
        [LET nxt == IF ourFinSeq' # None THEN ourFinSeq' ELSE sndNxt'
         IN  state # "CLOSED" /\ SeqGt(nxt, sndNxt) => SeqDiff(nxt, sndUna') <= clientWnd']_vars
  BY SndNext DEF InWindow
<1> QED
  BY <1>1, SendInvariant, PTL DEF Spec, WindowRespected

-----------------------------------------------------------------------------
(* Types *)

\* The types that do not follow from where the session stands: its clocks and counters, and
\* the last rcvNxt of a session that ended.
Clocks ==
    /\ terminated \in BOOLEAN
    /\ finRetries \in 0..MaxRetries /\ finAge \in 0..Rto
    /\ timeWaitAge \in 0..TimeWait /\ idleAge \in 0..IdleTimeout

LEMMA ClocksStand ==
    ASSUME Clocks, UNCHANGED <<finVars, timeWaitAge>>, terminated' \in {TRUE, terminated},
           idleAge' \in 0..IdleTimeout
    PROVE  Clocks'
BY DEF Clocks, finVars

LEMMA SendPhaseClocks ==
    ASSUME Clocks, NEW st, NEW una, NEW wnd, NEW eof, NEW o, SendPhase(st, una, wnd, eof, o),
           UNCHANGED <<terminated, finRetries>>, timeWaitAge' \in {0, timeWaitAge},
           idleAge' \in 0..IdleTimeout
    PROVE  Clocks'
<1>1. finAge' = 0 \/ finAge' = finAge
  BY DEF SendPhase
<1> QED
  BY <1>1, SessionAssumption DEF Clocks

LEMMA PacketClocks ==
    ASSUME Clocks, NEW seg, NEW room, OnPacket(seg, room)
    PROVE  Clocks'
<1>1. idleAge' \in 0..IdleTimeout
  BY SessionAssumption DEF OnPacket
<1>2. \/ UNCHANGED <<finVars, timeWaitAge, terminated>>
      \/ \E how : Terminate(how)
      \/ \E st, una, un : ReceiveThenSend(seg, room, st, una, un)
      \/ \E st, una, un : AckThenSend(seg, st, una, un)
  <2>1. OnReset(seg) => UNCHANGED <<finVars, timeWaitAge, terminated>> \/ \E how : Terminate(how)
    BY DEF OnReset, TerminateNow, Live
  <2>2. OnSyn(seg) => UNCHANGED <<finVars, timeWaitAge, terminated>> \/ \E how : Terminate(how)
    BY DEF OnSyn, TerminateNow, Live
  <2>3. OnSynRecv(seg, room) =>
          \/ UNCHANGED <<finVars, timeWaitAge, terminated>> \/ \E how : Terminate(how)
          \/ \E st, una, un : ReceiveThenSend(seg, room, st, una, un)
          \/ \E st, una, un : AckThenSend(seg, st, una, un)
    BY DEF OnSynRecv, TerminateNow, Live
  <2>4. OnTimeWait => UNCHANGED <<finVars, timeWaitAge, terminated>>
    BY DEF OnTimeWait, Live
  <2>5. OnDataSegment(seg, room) =>
          \/ \E how : Terminate(how)
          \/ \E st, una, un : ReceiveThenSend(seg, room, st, una, un)
          \/ \E st, una, un : AckThenSend(seg, st, una, un)
    BY DEF OnDataSegment, TerminateNow
  <2> QED
    BY <2>1, <2>2, <2>3, <2>4, <2>5 DEF OnPacket
<1>3. ASSUME NEW how, Terminate(how) PROVE Clocks'
  BY <1>1, <1>3, ClocksStand DEF Terminate
<1>4. ASSUME NEW st, NEW una, NEW un, ReceiveThenSend(seg, room, st, una, un) PROVE Clocks'
  <2> DEFINE r == ReceiveData(seg, room)
             finSeq == FinSeqAfter(seg, r.rcv)
             st2 == IF FinReached(finSeq, r.rcv) THEN AfterClientFin(st, una) ELSE st
  <2>1. \/ \E how : Terminate(how)
        \/ /\ Live /\ timeWaitAge' = (IF st2 = "TIME_WAIT" THEN 0 ELSE timeWaitAge)
           /\ SendPhase(st2, una, seg.window, upstreamEof, Outbound(sendQ, sendQBytes, un))
           /\ UNCHANGED finRetries
    BY <1>4 DEF ReceiveThenSend, AbortedReceive
  <2> HIDE DEF st2
  <2> QED
    BY <1>1, <1>3, <2>1, SendPhaseClocks DEF Live
<1>5. ASSUME NEW st, NEW una, NEW un, AckThenSend(seg, st, una, un) PROVE Clocks'
  BY <1>1, <1>5, SendPhaseClocks DEF AckThenSend, Live
<1> QED
  BY <1>1, <1>2, <1>3, <1>4, <1>5, ClocksStand

LEMMA TickClocks == ASSUME Clocks, OnTick PROVE Clocks'
<1>0. /\ Rto \in Nat /\ MaxRetries \in Nat /\ TimeWait \in Nat /\ IdleTimeout \in Nat
      /\ finRetries \in 0..MaxRetries /\ finAge \in 0..Rto
      /\ timeWaitAge \in 0..TimeWait /\ idleAge \in 0..IdleTimeout
  BY SessionAssumption DEF Clocks
<1>1. idleAge' \in 0..IdleTimeout
  BY <1>0 DEF OnTick, AtMost
<1>2. CASE \E how : Terminate(how)
  BY <1>1, <1>2, ClocksStand DEF Terminate
<1>3. CASE /\ ~TimeWaitOver /\ ~GivesUp /\ Retransmit /\ Live
           /\ timeWaitAge' = IF state = "TIME_WAIT" THEN timeWaitAge + 1 ELSE timeWaitAge
  <2>1. Older(finAge) \in 0..Rto
    BY <1>0 DEF Older, AtMost
  <2>2. finAge' \in {0, finAge, Older(finAge)}
    BY <1>3 DEF Retransmit
  <2>3. finAge' \in 0..Rto
    BY <1>0, <2>1, <2>2
  <2>4. FinDue => finRetries < MaxRetries
    BY <1>0, <1>3 DEF GivesUp
  <2>5. finRetries' \in 0..MaxRetries
    BY <1>0, <1>3, <2>4 DEF Retransmit
  <2>6. timeWaitAge' \in 0..TimeWait
    BY <1>0, <1>3 DEF TimeWaitOver
  <2> QED
    BY <1>1, <1>3, <2>3, <2>5, <2>6 DEF Clocks, Live
<1> QED
  BY <1>2, <1>3 DEF OnTick, TerminateNow

LEMMA ClocksNext == ASSUME Clocks, [Next]_vars PROVE Clocks'
<1>0. IdleTimeout \in Nat /\ 0 \in 0..IdleTimeout /\ idleAge \in 0..IdleTimeout
  BY SessionAssumption DEF Clocks
<1>1. CASE \E seg \in ClientPackets, room \in Rooms : OnPacket(seg, room)
  BY <1>1, PacketClocks
<1>2. ASSUME NEW n, OnUpstreamData(n) PROVE Clocks'
  <2>1. /\ UNCHANGED <<terminated, finRetries, timeWaitAge>> /\ idleAge' = 0
        /\ \/ UNCHANGED finAge
           \/ SendPhase(state, sndUna, clientWnd, upstreamEof,
                        Outbound(Append(sendQ, Piece(produced + 1, n)), sendQBytes + n, unacked))
    BY <1>2 DEF OnUpstreamData, Live
  <2> QED
    BY <1>0, <2>1, SendPhaseClocks, ClocksStand DEF finVars
<1>3. ASSUME NEW n, OnUpstreamOverrun(n) PROVE Clocks'
  BY <1>0, <1>3, ClocksStand DEF OnUpstreamOverrun, TerminateNow, Terminate
<1>4. CASE OnUpstreamEof
  <2>1. /\ UNCHANGED <<terminated, finRetries, timeWaitAge>> /\ idleAge' = 0
        /\ SendPhase(state, sndUna, clientWnd, TRUE, Outbound(sendQ, sendQBytes, unacked))
    BY <1>4 DEF OnUpstreamEof, Live
  <2> QED
    BY <1>0, <2>1, SendPhaseClocks
<1>5. CASE AbortWithRst
  BY <1>0, <1>5, ClocksStand DEF AbortWithRst, TerminateNow, Terminate
<1>6. CASE OnTick
  BY <1>6, TickClocks
<1>7. CASE UNCHANGED vars
  BY <1>0, <1>7, ClocksStand DEF vars
<1> QED
  BY <1>1, <1>2, <1>3, <1>4, <1>5, <1>6, <1>7 DEF Next, Gone

\* processRcv leaves rcvNxt a sequence number, also when the overflow ends the flow in it.
LEMMA ReceivedNumber ==
    ASSUME RcvInv, state # "CLOSED", rcvNxt \in SeqNos, NEW seg, NEW room, NEW st, NEW una,
           NEW un, NEW lo, NEW len, InOrder(seg, lo, len),
           ReceiveThenSend(seg, room, st, una, un)
    PROVE  rcvNxt' \in SeqNos
<1> DEFINE r == ReceiveData(seg, room)
           finSeq == FinSeqAfter(seg, r.rcv)
           consumed == FinReached(finSeq, r.rcv)
<1>1. PICK p, n : Standing(p, n)
  BY DEF RcvInv
<1>2. \/ r.refused = TRUE /\ r.aborted = FALSE
      \/ r.rcv = rcvNxt
      \/ \E p2 \in p..ClientBytes : SoundAt(r, p2)
  BY <1>1, ReceiveSound
<1>3. \/ rcvNxt' = rcvNxt
      \/ (r.aborted \/ ~r.refused) /\ rcvNxt' = (IF consumed THEN SeqAdd(r.rcv, 1) ELSE r.rcv)
  BY DEF ReceiveThenSend, AbortedReceive
<1> HIDE DEF r
<1>4. ASSUME r.aborted \/ ~r.refused
      PROVE  \E k \in 0..(ClientBytes + 1) : r.rcv = ClientSeq(k)
  <2>1. p \in 0..(ClientBytes + 1) /\ rcvNxt = ClientSeq(p) /\ ClientBytes \in Nat
    BY <1>1, SessionAssumption DEF Standing
  <2>2. ASSUME NEW p2 \in p..ClientBytes, SoundAt(r, p2)
        PROVE  p2 \in 0..(ClientBytes + 1) /\ r.rcv = ClientSeq(p2)
    BY <2>1, <2>2 DEF SoundAt, Intake
  <2> QED
    BY <1>2, <1>4, <2>1, <2>2
<1> HIDE DEF consumed
<1>5. ASSUME r.aborted \/ ~r.refused PROVE r.rcv \in SeqNos /\ SeqAdd(r.rcv, 1) \in SeqNos
  <2>1. PICK k \in 0..(ClientBytes + 1) : r.rcv = ClientSeq(k)
    BY <1>4, <1>5
  <2>2. /\ k \in 0..(ClientBytes + 2) /\ k + 1 \in 0..(ClientBytes + 2)
        /\ 1 \in Nat /\ k + 1 <= ClientBytes + 2
    BY SessionAssumption
  <2>3. ClientSeq(k) \in SeqNos /\ ClientSeq(k + 1) \in SeqNos
    BY <2>2, ClientSeqs
  <2>4. SeqAdd(ClientSeq(k), 1) = ClientSeq(k + 1)
    BY <2>2, ClientSeqs
  <2> QED
    BY <2>1, <2>3, <2>4
<1> QED
  BY <1>3, <1>5

LEMMA NumberNext ==
    ASSUME RcvInv, RcvInv', SndInv, rcvNxt \in SeqNos, [Next]_vars
    PROVE  rcvNxt' \in SeqNos
<1>1. CASE state' # "CLOSED"
  <2>1. PICK p, n : Standing(p, n)'
    BY <1>1 DEF RcvInv
  <2>2. p \in 0..(ClientBytes + 2) /\ rcvNxt' = ClientSeq(p)
    BY <2>1, SessionAssumption DEF Standing
  <2> QED
    BY <2>2, ClientSeqs
<1>2. CASE state' = "CLOSED"
  <2>1. ASSUME NEW seg \in ClientPackets, NEW room, OnPacket(seg, room)
        PROVE  rcvNxt' \in SeqNos
    <3>1. OnSyn(seg) => UNCHANGED rcvNxt
      BY <1>2 DEF OnSyn, TerminateNow
    <3>2. \/ UNCHANGED rcvNxt
          \/ /\ state # "CLOSED" /\ Carries(seg)
             /\ ~(clientFinDone /\ seg.data.len = 1 /\ seg.seq = rcvNxt)
             /\ \E st, una, un : ReceiveThenSend(seg, room, st, una, un)
      <4>1. OnReset(seg) => UNCHANGED rcvNxt
        BY DEF OnReset, TerminateNow, rcvVars
      <4>2. OnTimeWait => UNCHANGED rcvNxt
        BY DEF OnTimeWait, rcvVars
      <4>3. ASSUME state = "SYN_RECV", OnSynRecv(seg, room)
            PROVE  UNCHANGED rcvNxt \/ /\ Carries(seg) /\ ~clientFinDone
                                       /\ \E st, una, un : ReceiveThenSend(seg, room, st, una, un)
        BY <4>3 DEF OnSynRecv, TerminateNow, rcvVars, AckThenSend, RcvInv
      <4>4. ASSUME OnDataSegment(seg, room)
            PROVE  UNCHANGED rcvNxt \/ /\ Carries(seg) /\ ~BeyondClientFin(seg)
                                       /\ \E st, una, un : ReceiveThenSend(seg, room, st, una, un)
        BY <4>4 DEF OnDataSegment, TerminateNow, rcvVars, AckThenSend
      <4>5. ASSUME state # "CLOSED", ~BeyondClientFin(seg)
            PROVE  ~(clientFinDone /\ seg.data.len = 1 /\ seg.seq = rcvNxt)
        <5> SUFFICES ASSUME clientFinDone, seg.data.len = 1, seg.seq = rcvNxt PROVE FALSE
          OBVIOUS
        <5>1. PICK p, n : Standing(p, n) /\ p = ClientBytes + 1
          BY <4>5 DEF RcvInv
        <5>2. /\ p \in 0..(ClientBytes + 2) /\ p + 1 \in 0..(ClientBytes + 2)
              /\ p + 1 <= ClientBytes + 2 /\ p + 1 > p /\ rcvNxt = ClientSeq(p)
          BY <5>1, SessionAssumption DEF Standing
        <5>3. SeqAdd(rcvNxt, 1) = ClientSeq(p + 1) /\ SeqGt(ClientSeq(p + 1), ClientSeq(p))
          BY <5>2, ClientSeqs
        <5> QED
          BY <4>5, <5>2, <5>3 DEF BeyondClientFin
      <4> QED
        BY <2>1, <3>1, <4>1, <4>2, <4>3, <4>4, <4>5 DEF OnPacket
    <3>3. CASE /\ state # "CLOSED" /\ Carries(seg)
               /\ ~(clientFinDone /\ seg.data.len = 1 /\ seg.seq = rcvNxt)
               /\ \E st, una, un : ReceiveThenSend(seg, room, st, una, un)
      <4>1. PICK lo, len : InOrder(seg, lo, len)
        BY <3>3, CarriedInOrder
      <4> QED
        BY <3>3, <4>1, ReceivedNumber
    <3> QED
      BY <3>2, <3>3
  <2>2. ASSUME NEW n, OnUpstreamData(n) \/ OnUpstreamOverrun(n) PROVE rcvNxt' = rcvNxt
    BY <2>2 DEF OnUpstreamData, OnUpstreamOverrun, TerminateNow, rcvVars
  <2>3. OnUpstreamEof \/ AbortWithRst \/ OnTick \/ UNCHANGED vars => rcvNxt' = rcvNxt
    BY DEF OnUpstreamEof, AbortWithRst, OnTick, TerminateNow, rcvVars, vars
  <2> QED
    BY <2>1, <2>2, <2>3 DEF Next, Gone
<1> QED
  BY <1>1, <1>2

\* What the buffer holds has its type, within its caps.
LEMMA BufferTyped ==
    ASSUME RcvInv
    PROVE  /\ reassem \subseteq [seq : SeqNos, data : Pieces]
           /\ reassemBytes \in 0..ReasmCap /\ Cardinality(reassem) <= ReasmEntriesCap
<1>1. PICK buf, bytes : buf = reassem /\ bytes = reassemBytes /\ Buffered(buf, bytes)
  <2>1. CASE state = "CLOSED"
    <3>1. reassem = {} /\ reassemBytes = 0
      BY <2>1 DEF RcvInv
    <3> QED
      BY <3>1, EmptyBuffered
  <2>2. CASE state # "CLOSED"
    BY <2>2 DEF RcvInv, Standing
  <2> QED
    BY <2>1, <2>2
<1>2. Cardinality(Held(buf)) \in Nat
  BY <1>1, HeldIsFinite, FS_CardinalityType DEF Buffered
<1>3. ReasmCap \in Nat /\ ReasmEntriesCap \in Nat
  BY SessionAssumption
<1> QED
  BY <1>1, <1>2, <1>3 DEF Buffered, IsEntry

\* The types of the send side, the states among them.
LEMMA SendTyped ==
    ASSUME SndInv
    PROVE  /\ state \in States /\ sndUna \in SeqNos /\ sndNxt \in SeqNos
           /\ ourFinSeq \in SeqNos \cup {None}
           /\ sendQ \in Seq(Pieces) /\ unacked \in Seq(Segments)
<1>1. CASE state = "CLOSED"
  <2>1. <<>> \in Seq(Pieces) /\ <<>> \in Seq(Segments)
    OBVIOUS
  <2> QED
    BY <1>1, <2>1 DEF SndInv, States
<1>2. CASE state # "CLOSED"
  <2>1. Transmitting(state, sndUna, unacked) /\ produced \in 0..ServerBytes
    BY <1>2 DEF SndInv
  <2>2. sndUna \in SeqNos /\ sndNxt \in SeqNos /\ ourFinSeq \in SeqNos \cup {None}
    BY <2>1, Places
  <2>3. CASE \E u, x \in 1..(produced + 1) : Sending(state, sndUna, unacked, u, x)
    BY <2>2, <2>3 DEF Sending, Queue, Flight, States
  <2>4. CASE \E u \in 1..(produced + 2) : Finished(state, sndUna, unacked, u)
    <3>1. <<>> \in Seq(Pieces)
      OBVIOUS
    <3> QED
      BY <2>2, <2>4, <3>1 DEF Finished, Flight, States
  <2> QED
    BY <2>1, <2>3, <2>4 DEF Transmitting
<1> QED
  BY <1>1, <1>2

\* TcpSession.kt: every field keeps its type, its caps and its retry and age limits.
THEOREM TypesHold == ASSUME ~EarlyUpstream PROVE Spec => []TypeOK
<1>1. Init => Clocks /\ rcvNxt \in SeqNos
  <2>1. /\ 0 \in 0..MaxRetries /\ 0 \in 0..Rto /\ 0 \in 0..TimeWait /\ 0 \in 0..IdleTimeout
        /\ 0 \in SeqNos /\ FALSE \in BOOLEAN
    BY SessionAssumption DEF SeqNos
  <2> QED
    BY <2>1, Zenon DEF Init, Clocks
<1>2. Clocks /\ [Next]_vars => Clocks'
  BY ClocksNext
<1>3. /\ RcvInv /\ RcvInv' /\ SndInv /\ IndInv /\ rcvNxt \in SeqNos /\ [Next]_vars
      => (rcvNxt \in SeqNos)'
  BY NumberNext
<1>4. RcvInv /\ SndInv /\ IndInv /\ Clocks /\ rcvNxt \in SeqNos => TypeOK
  <2> SUFFICES ASSUME RcvInv, SndInv, IndInv, Clocks, rcvNxt \in SeqNos PROVE TypeOK
    OBVIOUS
  <2>1. clientFinSeq \in SeqNos \cup {None}
    <3>1. ClientBytes \in 0..(ClientBytes + 2)
      BY SessionAssumption
    <3> QED
      BY <3>1, ClientSeqs DEF RcvInv
  <2>2. written \in Seq(1..ClientBytes)
    <3>1. PICK n \in 0..ClientBytes : written = Stream(n)
      BY DEF RcvInv
    <3>2. n \in Nat /\ ClientBytes \in Nat /\ written = [i \in 1..n |-> i]
      BY <3>1, SessionAssumption DEF Stream
    <3>3. \A i \in 1..n : i \in 1..ClientBytes
      BY <3>1, <3>2
    <3> QED
      BY <3>2, <3>3
  <2>3. aborts \in Nat /\ closeOuts \in Nat
    BY DEF IndInv, StatePairing, RcvInv
  <2>4. unacked \in Seq([seq : SeqNos, data : Pieces, age : 0..Rto, retries : 0..MaxRetries])
    BY SendTyped DEF Segments
  <2> QED
    BY <2>1, <2>2, <2>3, <2>4, SendTyped, BufferTyped
    DEF TypeOK, Clocks, SndInv, RcvInv, IndInv, Flags
<1> QED
  BY <1>1, <1>2, <1>3, <1>4, ReceiveInvariant, SendInvariant, PTL DEF Spec

-----------------------------------------------------------------------------
(***************************************************************************)
(* The session implements a relay of two reliable streams (StreamRelay).   *)
(* Where each stream stands before and after a step is in the invariants;  *)
(* what a step has to add is that neither goes back.                       *)
(***************************************************************************)
Acked == SeqDiff(rcvNxt, ClientSeq(0))
Confirmed == SeqDiff(sndUna, Issn)

LEMMA GivenAt ==
    ASSUME RcvInv
    PROVE  \E n \in 0..ClientBytes :
              written = Stream(n) /\ Len(written) = n /\ written \in Seq(Nat)
<1>1. PICK n \in 0..ClientBytes : written = Stream(n)
  BY DEF RcvInv
<1>2. n \in Nat
  BY SessionAssumption
<1> QED
  BY <1>1, <1>2, StreamIsSeq

\* What a live session has acknowledged to its client.
AckedRight ==
    /\ Acked \in 0..(ClientBytes + 1)
    /\ Acked <= Len(written) \/ upstreamEof \/ closeOuts = 1
    /\ Acked = ClientBytes + 1 <=> closeOuts = 1

LEMMA AckedAt == RcvInv /\ state # "CLOSED" => AckedRight
<1> SUFFICES ASSUME RcvInv, state # "CLOSED" PROVE AckedRight
  OBVIOUS
<1>1. PICK p, n : Standing(p, n) /\ (clientFinDone <=> p = ClientBytes + 1)
  BY DEF RcvInv
<1>2. /\ ClientBytes \in Nat /\ p \in 0..(ClientBytes + 1) /\ rcvNxt = ClientSeq(p)
      /\ n \in Nat /\ n <= p /\ n <= ClientBytes /\ Len(written) = n
      /\ upstreamEof \/ n = p \/ n = ClientBytes
  BY <1>1, StreamIsSeq, SessionAssumption DEF Standing
<1>3. Acked = p
  <2>1. p \in 0..(ClientBytes + 2) /\ 0 \in 0..(ClientBytes + 2) /\ p - 0 = p
    BY <1>2
  <2> QED
    BY <1>2, <2>1, ClientSeqs DEF Acked
<1>4. closeOuts = 1 <=> clientFinDone
  BY DEF RcvInv
<1> QED
  BY <1>1, <1>2, <1>3, <1>4 DEF AckedRight

\* What a live session's client has confirmed.
ConfirmedRight ==
    \E u \in 0..(produced + 2) :
       sndUna = ServerSeq(u) /\ Confirmed = u /\ (u = produced + 2 => upstreamEof)

LEMMA ConfirmedAt == SndInv /\ state # "CLOSED" => ConfirmedRight
<1> SUFFICES ASSUME SndInv, state # "CLOSED" PROVE ConfirmedRight
  OBVIOUS
<1>1. ServerBytes \in Nat /\ produced \in 0..ServerBytes /\ produced \in Nat
  BY SessionAssumption DEF SndInv
<1>2. ASSUME NEW u \in 0..(produced + 2), sndUna = ServerSeq(u) PROVE Confirmed = u
  <2>1. u \in 0..(ServerBytes + 3) /\ 0 \in 0..(ServerBytes + 3) /\ u - 0 = u
    BY <1>1
  <2> QED
    BY <1>2, <2>1, ServerSeqs DEF Confirmed
<1>3. CASE \E u, x \in 1..(produced + 1) : Sending(state, sndUna, unacked, u, x)
  <2>1. PICK u \in 1..(produced + 1), x \in 1..(produced + 1) :
           Sending(state, sndUna, unacked, u, x)
    BY <1>3
  <2> DEFINE k == IF state = "SYN_RECV" THEN 0 ELSE u
  <2>2. sndUna = ServerSeq(k) /\ k \in 0..(produced + 2) /\ k # produced + 2
    BY <1>1, <2>1 DEF Sending
  <2> HIDE DEF k
  <2> QED
    BY <1>2, <2>2 DEF ConfirmedRight
<1>4. CASE \E u \in 1..(produced + 2) : Finished(state, sndUna, unacked, u)
  <2>1. PICK u \in 1..(produced + 2) : Finished(state, sndUna, unacked, u)
    BY <1>4
  <2>2. sndUna = ServerSeq(u) /\ u \in 0..(produced + 2) /\ upstreamEof
    BY <1>1, <2>1 DEF Finished
  <2> QED
    BY <1>2, <2>2 DEF ConfirmedRight
<1> QED
  BY <1>3, <1>4 DEF SndInv, Transmitting

\* A step that takes the client's stream no way back.
Further ==
    /\ Len(written') >= Len(written)
    /\ closeOuts = 1 => written' = written /\ closeOuts' = 1
    /\ state # "CLOSED" /\ state' # "CLOSED" => Acked' >= Acked

LEMMA NoFurther ==
    ASSUME RcvInv, UNCHANGED <<written, closeOuts>>,
           state = "CLOSED" \/ state' = "CLOSED" \/ UNCHANGED rcvNxt
    PROVE  Further
<1>1. Len(written) >= Len(written) /\ Len(written') = Len(written)
  BY GivenAt
<1>2. ASSUME state # "CLOSED", state' # "CLOSED" PROVE Acked' >= Acked
  <2>1. Acked' = Acked
    BY <1>2 DEF Acked, ClientSeq, SeqDiff, SeqAdd
  <2>2. Acked \in 0..(ClientBytes + 1) /\ ClientBytes \in Nat
    BY <1>2, AckedAt, SessionAssumption DEF AckedRight
  <2> QED
    BY <2>1, <2>2
<1> QED
  BY <1>1, <1>2 DEF Further

LEMMA GiveStep ==
    ASSUME RcvInv, RcvInv', Further
    PROVE  Relay!Give
<1>1. PICK n \in 0..ClientBytes : written = Stream(n) /\ Len(written) = n
  BY GivenAt
<1>2. PICK m \in 0..ClientBytes : written' = Stream(m)
  BY DEF RcvInv
<1>3. ClientBytes \in Nat /\ m \in Nat /\ Len(written') = m
  BY <1>2, SessionAssumption, StreamIsSeq
<1>4. m \in Len(written)..ClientBytes /\ written' = [i \in 1..m |-> i]
  BY <1>1, <1>2, <1>3 DEF Further, Stream
<1>5. closeOuts = 1 => m = Len(written)
  BY <1>3 DEF Further
<1> QED
  BY <1>4, <1>5 DEF Relay!Give

\* processRcv only goes on, whether or not it ends the flow.
LEMMA ReceiveFurther ==
    ASSUME RcvInv, RcvInv', ~terminated, state # "CLOSED", NEW seg, NEW room, NEW st, NEW una,
           NEW un, NEW lo, NEW len, InOrder(seg, lo, len), seg.fin => lo + len = ClientBytes,
           ReceiveThenSend(seg, room, st, una, un)
    PROVE  Further
<1> DEFINE r == ReceiveData(seg, room)
           finSeq == FinSeqAfter(seg, r.rcv)
           consumed == FinReached(finSeq, r.rcv)
<1>1. PICK p, n : Standing(p, n) /\ (clientFinDone <=> p = ClientBytes + 1)
  BY DEF RcvInv
<1>2. /\ ClientBytes \in Nat /\ p \in 0..(ClientBytes + 1) /\ rcvNxt = ClientSeq(p)
      /\ written \in Seq(Nat) /\ Len(written) \in Nat /\ written \o <<>> = written
  BY <1>1, GivenAt, SessionAssumption, ConcatEmptySeq DEF Standing
<1>3. closeOuts = 1 <=> p = ClientBytes + 1
  BY <1>1 DEF RcvInv
<1>4. \/ r.refused = TRUE /\ r.aborted = FALSE
      \/ /\ r.refused = FALSE /\ r.aborted = FALSE /\ r.rcv = rcvNxt /\ r.out = <<>>
         /\ Buffered(r.buf, r.bytes) /\ Settled(r.buf, p)
      \/ \E p2 \in p..ClientBytes : SoundAt(r, p2) /\ Settled(r.buf, p2)
  BY <1>1, ReceiveSound
<1>5. \/ r.refused /\ Terminate("sent") /\ UNCHANGED <<written, closeOuts>>
      \/ r.aborted /\ AbortedReceive(r, una, seg.window, finSeq, consumed)
      \/ /\ ~r.refused /\ ~r.aborted
         /\ rcvNxt' = IF consumed THEN SeqAdd(r.rcv, 1) ELSE r.rcv
         /\ written' = written \o r.out
         /\ closeOuts' = IF consumed THEN closeOuts + 1 ELSE closeOuts
  BY DEF ReceiveThenSend
<1>6. ASSUME NEW q \in 0..(ClientBytes + 1), r.rcv = ClientSeq(q)
      PROVE  consumed \in BOOLEAN /\ (consumed => q <= ClientBytes + 1 /\ ~clientFinDone)
  BY <1>6, FinAt
<1> HIDE DEF r, finSeq, consumed
<1>7. ASSUME NEW q \in p..(ClientBytes + 1), r.rcv = ClientSeq(q), ~r.refused, ~r.aborted
      PROVE  state' # "CLOSED" => Acked' >= Acked
  <2>1. /\ q \in 0..(ClientBytes + 1) /\ consumed \in BOOLEAN
        /\ rcvNxt' = IF consumed THEN SeqAdd(r.rcv, 1) ELSE r.rcv
    BY <1>2, <1>5, <1>6, <1>7
  <2> DEFINE k == IF consumed THEN q + 1 ELSE q
  <2>2. /\ k \in 0..(ClientBytes + 2) /\ p \in 0..(ClientBytes + 2) /\ 0 \in 0..(ClientBytes + 2)
        /\ q \in 0..(ClientBytes + 2) /\ q + 1 <= ClientBytes + 2 /\ k >= p
    BY <1>2, <2>1
  <2>3. rcvNxt' = ClientSeq(k)
    <3>1. SeqAdd(ClientSeq(q), 1) = ClientSeq(q + 1)
      BY <2>2, ClientSeqs
    <3> QED
      BY <1>7, <2>1, <3>1
  <2> HIDE DEF k
  <2>4. /\ SeqDiff(ClientSeq(k), ClientSeq(0)) = k - 0 /\ SeqDiff(ClientSeq(p), ClientSeq(0)) = p - 0
        /\ ClientSeq(0)' = ClientSeq(0) /\ (\A s : SeqDiff(rcvNxt, s)' = SeqDiff(rcvNxt', s))
    BY <2>2, ClientSeqs DEF ClientSeq, SeqAdd, SeqDiff
  <2>5. Acked' = k - 0 /\ Acked = p - 0
    BY <1>2, <2>3, <2>4 DEF Acked, ClientSeq, SeqAdd, SeqDiff
  <2> QED
    BY <1>2, <2>2, <2>5
<1>8. CASE r.refused = TRUE /\ r.aborted = FALSE
  <2>1. state' = "CLOSED" /\ UNCHANGED <<written, closeOuts>>
    BY <1>5, <1>8 DEF Terminate
  <2> QED
    BY <2>1, NoFurther
<1>9. CASE /\ r.refused = FALSE /\ r.aborted = FALSE /\ r.rcv = rcvNxt /\ r.out = <<>>
           /\ Buffered(r.buf, r.bytes) /\ Settled(r.buf, p)
  <2>1. written' = written /\ p \in p..(ClientBytes + 1) /\ r.rcv = ClientSeq(p)
    BY <1>2, <1>5, <1>9
  <2>2. closeOuts = 1 => closeOuts' = 1
    <3>1. closeOuts = 1 => ~consumed
      BY <1>1, <1>2, <1>3, <1>6, <2>1
    <3> QED
      BY <1>5, <1>9, <3>1
  <2> QED
    BY <1>2, <1>7, <1>9, <2>1, <2>2 DEF Further
<1>10. ASSUME NEW p2 \in p..ClientBytes, SoundAt(r, p2) PROVE Further
  <2>1. PICK buf, bytes, out, room2, aborted :
          /\ r = Intake(p2, buf, bytes, out, room2, aborted)
          /\ IntakeSound(p2, buf, bytes, out, aborted)
    BY <1>10 DEF SoundAt
  <2>2. /\ r.rcv = ClientSeq(p2) /\ r.out = out /\ r.refused = FALSE /\ out \in Seq(Nat)
        /\ p2 \in p..(ClientBytes + 1)
    BY <1>2, <2>1 DEF Intake, IntakeSound
  <2>3. closeOuts # 1
    BY <1>2, <1>3, <1>10
  <2>4. written' = written \o out
    BY <1>5, <2>2 DEF AbortedReceive
  <2>5. Len(written') >= Len(written)
    BY <1>2, <2>2, <2>4
  <2>6. CASE r.aborted
    <3>1. state' = "CLOSED"
      BY <1>5, <2>2, <2>6 DEF AbortedReceive, Terminate
    <3> QED
      BY <2>3, <2>5, <3>1 DEF Further
  <2>7. CASE ~r.aborted
    <3>1. state' # "CLOSED" => Acked' >= Acked
      BY <1>7, <2>2, <2>7
    <3> QED
      BY <2>3, <2>5, <3>1 DEF Further
  <2> QED
    BY <2>6, <2>7
<1> QED
  BY <1>4, <1>8, <1>9, <1>10

\* A step with which the flow goes on.
LEMMA GoesOn ==
    ASSUME RcvInv, RcvInv', SndInv, SndInv', ~terminated, ~terminated', state' # "CLOSED",
           UNCHANGED <<produced, upstreamEof>>, upstreamEof \in BOOLEAN, Further,
           state # "CLOSED" => Confirmed' >= Confirmed
    PROVE  Relay!Exchange
<1>1. Relay!Give
  BY GiveStep
<1>2. (closeOuts = 1 => closeOuts' = 1)
      /\ (closeOuts' = 1 => closeOuts = 1 \/ upstreamEof \/ Len(written') = ClientBytes)
  BY DEF Further, RcvInv
<1>3. (RcvInv /\ state # "CLOSED" => AckedRight)'
  BY AckedAt, PTL
<1>4. (SndInv /\ state # "CLOSED" => ConfirmedRight)'
  BY ConfirmedAt, PTL
<1>5. ClientBytes \in Nat /\ ServerBytes \in Nat /\ produced \in 0..ServerBytes
  BY SessionAssumption DEF SndInv
<1>6. Relay!Shut
  BY <1>2 DEF Relay!Shut
<1>7. Relay!Acknowledge
  <2>1. AckedRight' /\ Acked' \in 0..(ClientBytes + 1)
    BY <1>3 DEF AckedRight
  <2>2. state # "CLOSED" => Acked \in 0..(ClientBytes + 1) /\ Acked' >= Acked
    BY AckedAt DEF AckedRight, Further
  <2>3. Acked' \in (IF state = "CLOSED" THEN 0 ELSE Acked)..(ClientBytes + 1)
    BY <1>5, <2>1, <2>2
  <2> QED
    BY <2>1, <2>3 DEF Relay!Acknowledge, AckedRight, Acked
<1>8. Relay!Confirm
  <2>1. PICK u \in 0..(produced' + 2) : Confirmed' = u /\ (u = produced' + 2 => upstreamEof')
    BY <1>4 DEF ConfirmedRight
  <2>2. state # "CLOSED" => Confirmed \in 0..(produced + 2) /\ Confirmed' >= Confirmed
    BY ConfirmedAt DEF ConfirmedRight
  <2>3. Confirmed' \in (IF state = "CLOSED" THEN 0 ELSE Confirmed)
                          ..(IF upstreamEof THEN produced + 2 ELSE produced + 1)
    BY <1>5, <2>1, <2>2
  <2> QED
    BY <2>3 DEF Relay!Confirm, Confirmed
<1> QED
  BY <1>1, <1>6, <1>7, <1>8 DEF Relay!Exchange

\* A step that tears the flow down.
LEMMA TornDown ==
    ASSUME RcvInv, RcvInv', ~terminated, NEW how, Terminate(how), how # "none",
           Further, UNCHANGED closeOuts
    PROVE  Relay!Reset
<1>1. Relay!Give
  BY GiveStep
<1>2. /\ state' = "CLOSED" /\ terminated' = TRUE /\ reset' # "none"
      /\ produced' = produced /\ upstreamEof' = upstreamEof
  BY DEF Terminate
<1> QED
  BY <1>1, <1>2 DEF Relay!Reset

\* A step that ends the flow without a reset of its own.
LEMMA ComesToAnEnd ==
    ASSUME RcvInv, RcvInv', SndInv, SndInv', ~terminated, state # "CLOSED", Terminate(reset),
           NEW k \in 0..(produced + 2), sndUna' = ServerSeq(k),
           UNCHANGED <<written, closeOuts, clientFinDone>>
    PROVE  Relay!Close \/ Relay!Reset
<1>1. /\ state' = "CLOSED" /\ terminated' = TRUE /\ reset' = reset
      /\ produced' = produced /\ upstreamEof' = upstreamEof /\ ourFinSeq' = ourFinSeq
  BY DEF Terminate
<1>2. CASE reset # "none"
  BY <1>1, <1>2, NoFurther, TornDown
<1>3. CASE reset = "none"
  <2>1. /\ clientFinDone /\ ourFinSeq # None /\ SeqGt(sndUna', ourFinSeq)
        /\ upstreamEof /\ ourFinSeq = ServerSeq(produced + 1)
    <3>1. EndsHonestly' /\ (ourFinSeq' # None => /\ upstreamEof'
                                                /\ ourFinSeq' = ServerSeq(produced + 1))
      BY <1>1 DEF SndInv, ServerSeq, SeqAdd
    <3> QED
      BY <1>1, <1>3, <3>1 DEF EndsHonestly, SeqGt, SeqDiff
  <2>2. closeOuts = 1
    BY <2>1 DEF RcvInv
  <2>3. ServerBytes \in Nat /\ produced \in 0..ServerBytes
    BY SessionAssumption DEF SndInv
  <2>4. /\ k \in 0..(ServerBytes + 3) /\ produced + 1 \in 0..(ServerBytes + 3)
        /\ 0 \in 0..(ServerBytes + 3) /\ k - 0 = k
    BY <2>3
  <2>5. k > produced + 1
    <3>1. SeqGt(ServerSeq(k), ServerSeq(produced + 1))
      BY <2>1
    <3> QED
      BY <2>4, <3>1, ServerSeqs
  <2>6. Confirmed' = produced + 2
    <3>1. k = produced + 2 /\ SeqDiff(ServerSeq(k), Issn) = k
      BY <2>3, <2>4, <2>5, ServerSeqs
    <3> QED
      BY <3>1 DEF Confirmed, SeqDiff
  <2> QED
    BY <1>1, <1>3, <2>1, <2>2, <2>6 DEF Relay!Close, Confirmed
<1> QED
  BY <1>2, <1>3

-----------------------------------------------------------------------------
(* Each handler is a step of the relay.                                    *)

\* A packet that changes neither stream: a repeated SYN, a stale RST, TIME_WAIT.
LEMMA StandsInRelay ==
    ASSUME RcvInv, RcvInv', SndInv, SndInv', ~terminated, state # "CLOSED",
           UNCHANGED <<state, terminated, sndUna, rcvNxt, upVars, upstreamEof>>,
           upstreamEof \in BOOLEAN
    PROVE  Relay!Exchange
<1>1. Further
  BY NoFurther DEF upVars
<1>2. Confirmed' = Confirmed
  BY DEF Confirmed, SeqDiff
<1>3. Confirmed' >= Confirmed
  <2>1. PICK u \in 0..(produced + 2) : Confirmed = u
    BY ConfirmedAt DEF ConfirmedRight
  <2>2. produced \in Nat
    BY SessionAssumption DEF SndInv
  <2> QED
    BY <1>2, <2>1, <2>2
<1> QED
  BY <1>1, <1>3, GoesOn DEF upVars

LEMMA EndsNow ==
    ASSUME RcvInv, RcvInv', ~terminated, NEW how, how # "none", TerminateNow(how)
    PROVE  Relay!Reset
<1>1. Further
  BY NoFurther DEF TerminateNow, Terminate
<1> QED
  BY <1>1, TornDown DEF TerminateNow

\* A packet whose acknowledgement moved sndUna from position u to k, and which may carry
\* some of the client's stream.
LEMMA CarriesOn ==
    ASSUME RcvInv, RcvInv', SndInv, SndInv', ~terminated, state # "CLOSED",
           upstreamEof \in BOOLEAN, NEW seg \in ClientPackets, NEW room, NEW st, NEW una, NEW un,
           st # "CLOSED",
           NEW u \in 0..(produced + 2), sndUna = ServerSeq(u),
           NEW k \in u..(produced + 2), una = ServerSeq(k),
           \/ AckThenSend(seg, st, una, un)
           \/ /\ Carries(seg) /\ ~(clientFinDone /\ seg.data.len = 1 /\ seg.seq = rcvNxt)
              /\ ReceiveThenSend(seg, room, st, una, un)
    PROVE  Relay!Exchange \/ Relay!Reset
<1>1. ServerBytes \in Nat /\ produced \in 0..ServerBytes /\ produced \in Nat
  BY SessionAssumption DEF SndInv
<1>2. ASSUME sndUna' = una PROVE Confirmed' >= Confirmed
  <2>1. /\ k \in 0..(ServerBytes + 3) /\ u \in 0..(ServerBytes + 3) /\ 0 \in 0..(ServerBytes + 3)
        /\ k >= u
    BY <1>1
  <2>2. SeqDiff(ServerSeq(k), Issn) = k - 0 /\ SeqDiff(ServerSeq(u), Issn) = u - 0
    BY <2>1, ServerSeqs
  <2>3. Confirmed' = k - 0 /\ Confirmed = u - 0
    BY <1>2, <2>2 DEF Confirmed, SeqDiff
  <2> QED
    BY <2>1, <2>3
<1>3. CASE AckThenSend(seg, st, una, un)
  <2>1. state' # "CLOSED"
    BY <1>3, SendPhaseState DEF AckThenSend
  <2>2. Further
    BY <1>3, NoFurther DEF AckThenSend, rcvVars, upVars
  <2> QED
    BY <1>2, <1>3, <2>1, <2>2, GoesOn DEF AckThenSend, Live, upVars
<1>4. CASE /\ Carries(seg) /\ ~(clientFinDone /\ seg.data.len = 1 /\ seg.seq = rcvNxt)
           /\ ReceiveThenSend(seg, room, st, una, un)
  <2>1. PICK lo, len : InOrder(seg, lo, len) /\ (seg.fin => lo + len = ClientBytes)
    BY <1>4, CarriedInOrder
  <2>2. Further
    BY <1>4, <2>1, ReceiveFurther
  <2>3. CASE Terminate("sent") /\ UNCHANGED closeOuts
    BY <2>2, <2>3, TornDown
  <2>4. CASE ~(Terminate("sent") /\ UNCHANGED closeOuts)
    <3>1. /\ Live /\ sndUna' = una /\ UNCHANGED <<upstreamEof, produced>>
          /\ \E st2, o : st2 # "CLOSED" /\ SendPhase(st2, una, seg.window, upstreamEof, o)
      BY <1>4, <2>4 DEF ReceiveThenSend, AbortedReceive, AfterClientFin
    <3>2. state' # "CLOSED"
      BY <3>1, SendPhaseState
    <3> QED
      BY <1>2, <2>2, <3>1, <3>2, GoesOn DEF Live
  <2> QED
    BY <2>3, <2>4
<1> QED
  BY <1>3, <1>4

LEMMA SynRelays ==
    ASSUME RcvInv, RcvInv', SndInv, SndInv', ~terminated, state = "CLOSED",
           upstreamEof \in BOOLEAN, NEW seg, seg.syn, OnSyn(seg)
    PROVE  Relay!Exchange
<1>1. UNCHANGED <<written, closeOuts, produced, upstreamEof, terminated>> /\ state' # "CLOSED"
  BY DEF OnSyn, Live, upVars
<1>2. Further
  BY <1>1, NoFurther
<1> QED
  BY <1>1, <1>2, GoesOn

LEMMA SynRecvRelays ==
    ASSUME RcvInv, RcvInv', SndInv, SndInv', ~terminated, state = "SYN_RECV",
           upstreamEof \in BOOLEAN, NEW seg \in ClientPackets, NEW room, OnSynRecv(seg, room)
    PROVE  Relay!Exchange \/ Relay!Reset
<1>1. CASE Live /\ UNCHANGED <<state, ackVars, upstreamEof, rcvVars, upVars>>
  BY <1>1, StandsInRelay DEF Live, ackVars, rcvVars
<1>2. CASE TerminateNow("sent")
  BY <1>2, EndsNow
<1>3. CASE /\ HandshakeAck(seg)
           /\ IF Carries(seg) THEN ReceiveThenSend(seg, room, "ESTABLISHED", seg.ackNo, unacked)
              ELSE AckThenSend(seg, "ESTABLISHED", seg.ackNo, unacked)
  <2>1. produced \in Nat
    BY SessionAssumption DEF SndInv
  <2>2. sndUna = ServerSeq(0) /\ seg.ackNo = ServerSeq(1) /\ ~clientFinDone
    BY <1>3 DEF SndInv, RcvInv, Transmitting, Sending, Finished, HandshakeAck
  <2>3. 0 \in 0..(produced + 2) /\ 1 \in 0..(produced + 2)
    BY <2>1
  <2> QED
    BY <1>3, <2>2, <2>3, CarriesOn
<1> QED
  BY <1>1, <1>2, <1>3 DEF OnSynRecv

\* Past the handshake, both ends of what is in flight are positions in the upstream's stream.
LEMMA InFlight ==
    ASSUME SndInv, state \notin {"CLOSED", "SYN_RECV"}
    PROVE  \E v \in 1..(produced + 2) : \E u \in 1..v :
              sndNxt = ServerSeq(v) /\ sndUna = ServerSeq(u)
<1>1. ServerBytes \in Nat /\ produced \in 0..ServerBytes /\ produced \in Nat
  BY SessionAssumption DEF SndInv
<1>2. ASSUME NEW u \in 1..(produced + 1), NEW x \in 1..(produced + 1),
             Sending(state, sndUna, unacked, u, x)
      PROVE  /\ x \in 1..(produced + 2) /\ u \in 1..x
             /\ sndNxt = ServerSeq(x) /\ sndUna = ServerSeq(u)
  BY <1>1, <1>2 DEF Sending
<1>3. ASSUME NEW u \in 1..(produced + 2), Finished(state, sndUna, unacked, u)
      PROVE  /\ produced + 2 \in 1..(produced + 2)
             /\ sndNxt = ServerSeq(produced + 2) /\ sndUna = ServerSeq(u)
  BY <1>1, <1>3 DEF Finished
<1> QED
  BY <1>2, <1>3 DEF SndInv, Transmitting

\* A byte beyond a FIN that was consumed is seen as such.
LEMMA BeyondFinIsSeen ==
    ASSUME RcvInv, state # "CLOSED", NEW seg, clientFinDone, seg.data.len = 1, seg.seq = rcvNxt
    PROVE  BeyondClientFin(seg)
<1>1. PICK p, n : Standing(p, n) /\ p = ClientBytes + 1
  BY DEF RcvInv
<1>2. /\ p \in 0..(ClientBytes + 2) /\ p + 1 \in 0..(ClientBytes + 2) /\ p + 1 <= ClientBytes + 2
      /\ p + 1 > p /\ rcvNxt = ClientSeq(p)
  BY <1>1, SessionAssumption DEF Standing
<1>3. SeqAdd(rcvNxt, 1) = ClientSeq(p + 1) /\ SeqGt(ClientSeq(p + 1), ClientSeq(p))
  BY <1>2, ClientSeqs
<1> QED
  BY <1>2, <1>3 DEF BeyondClientFin

LEMMA DataSegmentRelays ==
    ASSUME RcvInv, RcvInv', SndInv, SndInv', ~terminated,
           state \notin {"CLOSED", "SYN_RECV", "TIME_WAIT"}, upstreamEof \in BOOLEAN,
           NEW seg \in ClientPackets, ~seg.rst, NEW room, OnDataSegment(seg, room)
    PROVE  Relay!Exchange \/ Relay!Close \/ Relay!Reset
<1> DEFINE una == IF Advances(seg) THEN seg.ackNo ELSE sndUna
           un == IF Advances(seg) THEN Pruned(una) ELSE unacked
           st == IF AcksOurFin(seg) THEN AfterOurFin ELSE state
<1>1. ServerBytes \in Nat /\ produced \in 0..ServerBytes /\ produced \in Nat
  BY SessionAssumption DEF SndInv
<1>2. PICK v \in 1..(produced + 2) :
        \E u \in 1..v : sndNxt = ServerSeq(v) /\ sndUna = ServerSeq(u)
  BY InFlight
<1>0. PICK u \in 1..v : sndNxt = ServerSeq(v) /\ sndUna = ServerSeq(u)
  BY <1>2
<1>3. CASE TerminateNow("sent")
  BY <1>3, EndsNow
<1>4. CASE ~(seg.ack /\ SeqGt(seg.ackNo, sndNxt))
  <2>1. v \in 1..(ServerBytes + 2)
    BY <1>1
  <2>2. PICK k \in u..v : una = ServerSeq(k)
    BY <1>0, <1>4, <2>1, AckMoves
  <2>3. u \in 0..(produced + 2) /\ k \in 0..(produced + 2) /\ k \in u..(produced + 2)
    BY <1>1
  <2>4. st # "CLOSED"
    BY DEF AfterOurFin
  <2>5. \/ /\ Terminate(reset) /\ sndUna' = una
           /\ UNCHANGED <<clientFinDone, rcvNxt, written, closeOuts>>
        \/ Terminate("sent") /\ UNCHANGED <<rcvNxt, written, closeOuts>>
        \/ ~BeyondClientFin(seg) /\ Carries(seg) /\ ReceiveThenSend(seg, room, st, una, un)
        \/ AckThenSend(seg, st, una, un)
    BY <1>4 DEF OnDataSegment, TerminateNow
  <2> HIDE DEF una, un, st
  <2>6. CASE /\ Terminate(reset) /\ sndUna' = una
             /\ UNCHANGED <<clientFinDone, rcvNxt, written, closeOuts>>
    BY <2>2, <2>3, <2>6, ComesToAnEnd
  <2>7. CASE Terminate("sent") /\ UNCHANGED <<rcvNxt, written, closeOuts>>
    BY <2>7, NoFurther, TornDown
  <2>8. CASE ~BeyondClientFin(seg) /\ Carries(seg) /\ ReceiveThenSend(seg, room, st, una, un)
    <3>1. ~(clientFinDone /\ seg.data.len = 1 /\ seg.seq = rcvNxt)
      BY <2>8, BeyondFinIsSeen
    <3> QED
      BY <1>0, <2>2, <2>3, <2>4, <2>8, <3>1, CarriesOn
  <2>9. CASE AckThenSend(seg, st, una, un)
    BY <1>0, <2>2, <2>3, <2>4, <2>9, CarriesOn
  <2> QED
    BY <2>5, <2>6, <2>7, <2>8, <2>9
<1> QED
  BY <1>3, <1>4 DEF OnDataSegment

LEMMA PacketRelays ==
    ASSUME RcvInv, RcvInv', SndInv, SndInv', upstreamEof \in BOOLEAN,
           NEW seg \in ClientPackets, NEW room, OnPacket(seg, room)
    PROVE  Relay!Next
<1>1. CASE state # "CLOSED" /\ OnReset(seg)
  <2>1. CASE TerminateNow("received")
    BY <2>1, EndsNow DEF OnPacket, Relay!Next
  <2>2. CASE Live /\ UNCHANGED <<state, ackVars, upstreamEof, rcvVars, upVars>>
    BY <1>1, <2>2, StandsInRelay DEF OnPacket, Live, ackVars, rcvVars, Relay!Next
  <2> QED
    BY <1>1, <2>1, <2>2 DEF OnReset
<1>2. CASE state = "CLOSED" /\ OnSyn(seg)
  <2>1. CASE seg.syn
    BY <1>2, <2>1, SynRelays DEF OnPacket, Relay!Next
  <2>2. CASE ~seg.syn
    BY <1>2, <2>2, EndsNow DEF OnPacket, OnSyn, Relay!Next
  <2> QED
    BY <2>1, <2>2
<1>3. CASE state = "SYN_RECV" /\ OnSynRecv(seg, room)
  BY <1>3, SynRecvRelays DEF OnPacket, Relay!Next
<1>4. CASE state = "TIME_WAIT" /\ OnTimeWait
  BY <1>4, StandsInRelay DEF OnPacket, OnTimeWait, Live, ackVars, rcvVars, Relay!Next
<1>5. CASE ~seg.rst /\ state \notin {"CLOSED", "SYN_RECV", "TIME_WAIT"} /\ OnDataSegment(seg, room)
  BY <1>5, DataSegmentRelays DEF OnPacket, Relay!Next
<1> QED
  BY <1>1, <1>2, <1>3, <1>4, <1>5 DEF OnPacket

LEMMA UpstreamRelays ==
    ASSUME RcvInv, RcvInv', SndInv, ~EarlyUpstream, NEW n \in 1..MaxSegment,
           OnUpstreamData(n) \/ OnUpstreamOverrun(n)
    PROVE  Relay!Next
<1>1. ServerBytes \in Nat /\ produced \in 0..ServerBytes /\ MaxSegment \in Nat
  BY SessionAssumption DEF SndInv
<1>2. CASE OnUpstreamData(n)
  <2>1. /\ ~terminated /\ ~upstreamEof /\ produced' = produced + n /\ produced + n <= ServerBytes
        /\ state # "CLOSED" /\ Live
        /\ UNCHANGED <<rcvNxt, sndUna, upstreamEof, written, closeOuts>>
    BY <1>2 DEF OnUpstreamData, UpstreamTalks, ackVars, rcvVars
  <2>2. state' # "CLOSED"
    <3>1. state' = state \/ \E o : SendPhase(state, sndUna, clientWnd, upstreamEof, o)
      BY <1>2 DEF OnUpstreamData
    <3> QED
      BY <2>1, <3>1, SendPhaseState
  <2>3. /\ produced' \in (produced + 1)..ServerBytes
        /\ SeqDiff(rcvNxt, ClientSeq(0))' = SeqDiff(rcvNxt, ClientSeq(0))
        /\ SeqDiff(sndUna, Issn)' = SeqDiff(sndUna, Issn)
    BY <1>1, <2>1 DEF SeqDiff, ClientSeq, SeqAdd
  <2> QED
    BY <2>1, <2>2, <2>3 DEF Relay!Next, Relay!Take, Live
<1>3. CASE OnUpstreamOverrun(n)
  BY <1>3, EndsNow DEF OnUpstreamOverrun, UpstreamTalks, Relay!Next
<1> QED
  BY <1>2, <1>3

LEMMA EofRelays ==
    ASSUME ~EarlyUpstream, OnUpstreamEof
    PROVE  Relay!Next
<1>1. /\ ~terminated /\ ~upstreamEof /\ upstreamEof' = TRUE /\ state # "CLOSED" /\ Live
      /\ UNCHANGED <<rcvNxt, sndUna, written, closeOuts, produced>>
      /\ SendPhase(state, sndUna, clientWnd, TRUE, Outbound(sendQ, sendQBytes, unacked))
  BY DEF OnUpstreamEof, UpstreamTalks, ackVars, rcvVars, upVars
<1>2. state' # "CLOSED"
  BY <1>1, SendPhaseState
<1>3. /\ SeqDiff(rcvNxt, ClientSeq(0))' = SeqDiff(rcvNxt, ClientSeq(0))
      /\ SeqDiff(sndUna, Issn)' = SeqDiff(sndUna, Issn)
  BY <1>1 DEF SeqDiff, ClientSeq, SeqAdd
<1> QED
  BY <1>1, <1>2, <1>3 DEF Relay!Next, Relay!Finish, Live

LEMMA TickRelays ==
    ASSUME RcvInv, RcvInv', SndInv, SndInv', upstreamEof \in BOOLEAN, OnTick
    PROVE  Relay!Next
<1>1. ~terminated /\ state # "CLOSED"
  BY DEF OnTick
<1>2. CASE TerminateNow("sent")
  BY <1>1, <1>2, EndsNow DEF Relay!Next
<1>3. CASE TerminateNow(reset)
  <2>1. PICK k \in 0..(produced + 2) : sndUna = ServerSeq(k)
    BY <1>1, ConfirmedAt DEF ConfirmedRight
  <2>2. /\ Terminate(reset) /\ sndUna' = ServerSeq(k)
        /\ UNCHANGED <<written, closeOuts, clientFinDone>>
    BY <1>3, <2>1 DEF TerminateNow, ackVars
  <2> QED
    BY <1>1, <2>2, ComesToAnEnd DEF Relay!Next
<1>4. CASE Live /\ UNCHANGED <<state, ackVars, upstreamEof, rcvVars, upVars>>
  BY <1>1, <1>4, StandsInRelay DEF Live, ackVars, rcvVars, Relay!Next
<1> QED
  BY <1>2, <1>3, <1>4 DEF OnTick

LEMMA StepsRelay ==
    RcvInv /\ RcvInv' /\ SndInv /\ SndInv' /\ Flags /\ ~EarlyUpstream /\ [Next]_vars
        => [Relay!Next]_(Relay!vars)
<1> SUFFICES ASSUME RcvInv, RcvInv', SndInv, SndInv', Flags, ~EarlyUpstream, [Next]_vars
             PROVE  [Relay!Next]_(Relay!vars)
  OBVIOUS
<1>1. ASSUME NEW seg \in ClientPackets, NEW room \in Rooms, OnPacket(seg, room)
      PROVE  Relay!Next
  BY <1>1, PacketRelays DEF Flags
<1>2. ASSUME NEW n \in 1..MaxSegment, OnUpstreamData(n) \/ OnUpstreamOverrun(n)
      PROVE  Relay!Next
  BY <1>2, UpstreamRelays
<1>3. CASE OnUpstreamEof
  BY <1>3, EofRelays
<1>4. CASE AbortWithRst
  BY <1>4, EndsNow DEF AbortWithRst, Relay!Next
<1>5. CASE OnTick
  BY <1>5, TickRelays DEF Flags
<1>6. CASE UNCHANGED vars
  <2>1. /\ UNCHANGED <<state, terminated, reset, rcvNxt, sndUna, written, closeOuts, produced,
                       upstreamEof>>
    BY <1>6 DEF vars, ackVars, rcvVars, upVars
  <2>2. /\ SeqDiff(rcvNxt, ClientSeq(0))' = SeqDiff(rcvNxt, ClientSeq(0))
        /\ SeqDiff(sndUna, Issn)' = SeqDiff(sndUna, Issn)
    BY <2>1 DEF SeqDiff, ClientSeq, SeqAdd
  <2> QED
    BY <2>1, <2>2 DEF Relay!vars
<1> QED
  BY <1>1, <1>2, <1>3, <1>4, <1>5, <1>6 DEF Next, Gone

\* TcpSession.kt as its two ends see it: for every stream, window, loss, timer and order of
\* closing, two reliable byte streams that are torn down for both or end complete.
THEOREM SessionImplementsRelay == ASSUME ~EarlyUpstream PROVE Spec => ImplementsRelay
<1>1. Init => Relay!Init
  BY DEF Init, Relay!Init
<1>2. RcvInv /\ RcvInv' /\ SndInv /\ SndInv' /\ Flags /\ ~EarlyUpstream /\ [Next]_vars
      => [Relay!Next]_(Relay!vars)
  BY StepsRelay
<1>3. IndInv => Flags
  BY DEF IndInv
<1> QED
  BY <1>1, <1>2, <1>3, ReceiveInvariant, SendInvariant, PTL DEF Spec, ImplementsRelay, Relay!Spec

=============================================================================
