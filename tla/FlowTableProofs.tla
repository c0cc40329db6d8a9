--------------------------- MODULE FlowTableProofs ---------------------------
(***************************************************************************)
(* TLAPS proofs that no session leaks out of the flow table, that its      *)
(* counters are right, its bound is passed by no more readers than the     *)
(* race allows, and a closed dispatcher ends up empty, for any number of   *)
(* readers and flows and any bound of the table.                           *)
(***************************************************************************)
EXTENDS FlowTable, FiniteSetTheorems, TLAPS

Answerable == {"insert", "abortPrey", "undo", "undoUnlog", "undoAbort"}
Hunting == {"fetch", "claim"}
Keyed == Answerable \cup Hunting \cup
         {"lookup", "evict", "pick", "pickAny", "dial", "recheck", "touch", "deliver",
          "remove", "unlog"}
PCs == Keyed \cup {"idle", "closing", "sweep"}

KeyOrNone == Keys \cup {None}
Locals == [key : KeyOrNone, hand : Nat, prey : KeyOrNone]

Types ==
    /\ born \in Nat /\ live \in SUBSET (1..born)
    /\ table \in [Keys -> Nat] /\ \A k \in Keys : table[k] <= born
    /\ lru \in Seq(Keys)
    /\ pc \in [Threads -> PCs] /\ my \in [Threads -> Locals]
    /\ left \in [Sweepers -> SUBSET Keys]

\* What a thread at step p with locals m relies on.
Fits(t, p, m) ==
    /\ p \in Keyed => m.key \in Keys
    /\ p \in Hunting => m.prey \in Keys
    /\ p \in Answerable => t \in Readers
    /\ m.hand <= born

\* removeSession, but for the undo, is called for sessions that have ended.
RemovedAreDead == \A t \in Threads : pc[t] = "remove" => my[t].hand \notin live

IndInv == Types /\ (\A t \in Threads : Fits(t, pc[t], my[t])) /\ RemovedAreDead /\ NoLeak

-----------------------------------------------------------------------------

\* Deleting a key from the touch log leaves a log of keys.
LEMMA Unlogged ==
    ASSUME NEW q \in Seq(Keys), NEW k
    PROVE  Without(q, k) \in Seq(Keys)
<1>1. CASE \E i \in 1..Len(q) : q[i] = k
  <2> DEFINE j == CHOOSE i \in 1..Len(q) : q[i] = k
  <2>1. j \in 1..Len(q)
    BY <1>1
  <2>2. Without(q, k) = SubSeq(q, 1, j - 1) \o SubSeq(q, j + 1, Len(q))
    BY <1>1 DEF Without, RemoveAt
  <2> HIDE DEF j
  <2> QED
    BY <2>1, <2>2
<1>2. CASE ~\E i \in 1..Len(q) : q[i] = k
  BY <1>2 DEF Without
<1> QED
  BY <1>1, <1>2

\* A move changes the step and the locals of one thread.
LEMMA Moved ==
    ASSUME pc \in [Threads -> PCs], my \in [Threads -> Locals],
           NEW t \in Threads, NEW p \in PCs, NEW m \in Locals, Move(t, p, m)
    PROVE  /\ pc' \in [Threads -> PCs] /\ my' \in [Threads -> Locals]
           /\ pc'[t] = p /\ my'[t] = IF p \in {"idle", "sweep"} THEN NoLocals ELSE m
           /\ \A u \in Threads : u # t => pc'[u] = pc[u] /\ my'[u] = my[u]
<1>1. NoLocals \in Locals
  BY DEF NoLocals, Locals, KeyOrNone, None
<1> QED
  BY <1>1 DEF Move

\* The argument for every step of a thread but a successful dial: sessions are not
\* born; an entry is lost only if its session has ended or falls to this thread; and
\* a session this thread answered for has ended, is still in its hand, or is filed.
LEMMA StepKeeps ==
    ASSUME IndInv, NEW t \in Threads, NEW p \in PCs, NEW m \in Locals, Move(t, p, m),
           born' = born, live' \in SUBSET live, lru' \in Seq(Keys),
           left' \in [Sweepers -> SUBSET Keys],
           Fits(t, p, m), p = "remove" => m.hand \notin live',
           table' \in [Keys -> Nat], \A k \in Keys : table'[k] <= born,
           \A k \in Keys : \/ table'[k] = table[k] \/ table[k] \notin live'
                           \/ p \in Answerable /\ m.hand = table[k],
           \/ pc[t] \notin Answerable \/ my[t].hand \notin live'
           \/ p \in Answerable /\ m.hand = my[t].hand
           \/ \E k \in Keys : table'[k] = my[t].hand
    PROVE  IndInv'
<1>1. /\ pc' \in [Threads -> PCs] /\ my' \in [Threads -> Locals]
      /\ pc'[t] = p /\ my'[t] = IF p \in {"idle", "sweep"} THEN NoLocals ELSE m
      /\ \A u \in Threads : u # t => pc'[u] = pc[u] /\ my'[u] = my[u]
  BY Moved DEF IndInv, Types
<1>2. Types'
  BY <1>1 DEF IndInv, Types
<1>3. \A u \in Threads : Fits(u, pc[u], my[u])'
  <2> SUFFICES ASSUME NEW u \in Threads PROVE Fits(u, pc[u], my[u])'
    OBVIOUS
  <2>1. CASE u # t
    BY <2>1, <1>1 DEF IndInv, Fits
  <2>2. CASE u = t /\ p \notin {"idle", "sweep"}
    BY <2>2, <1>1 DEF Fits
  <2>3. CASE u = t /\ p \in {"idle", "sweep"}
    BY <2>3, <1>1 DEF IndInv, Types, Fits, NoLocals, None, Keyed, Hunting, Answerable
  <2> QED
    BY <2>1, <2>2, <2>3
<1>5. RemovedAreDead'
  <2> SUFFICES ASSUME NEW u \in Threads, pc'[u] = "remove" PROVE my'[u].hand \notin live'
    BY DEF RemovedAreDead
  <2>1. CASE u # t
    BY <2>1, <1>1 DEF IndInv, RemovedAreDead
  <2>2. CASE u = t
    BY <2>2, <1>1
  <2> QED
    BY <2>1, <2>2
<1>4. NoLeak'
  <2> SUFFICES ASSUME NEW s \in live'
               PROVE  \/ \E k \in Keys : table'[k] = s
                      \/ \E r \in Readers : pc'[r] \in Answerable /\ my'[r].hand = s
    BY DEF NoLeak, ReadersAt, Answerable
  <2>1. p \in Answerable => t \in Readers /\ my'[t] = m
    BY <1>1 DEF Fits, Answerable
  <2>2. \/ \E k \in Keys : table[k] = s
        \/ \E r \in Readers : pc[r] \in Answerable /\ my[r].hand = s
    BY DEF IndInv, NoLeak, ReadersAt, Answerable
  <2>3. CASE \E k \in Keys : table[k] = s
    BY <2>1, <2>3, <1>1
  <2>4. ASSUME NEW r \in Readers, pc[r] \in Answerable, my[r].hand = s, r # t
        PROVE  pc'[r] \in Answerable /\ my'[r].hand = s
    BY <2>4, <1>1 DEF Threads
  <2>5. CASE pc[t] \in Answerable /\ my[t].hand = s
    BY <2>1, <2>5, <1>1
  <2> QED
    BY <2>2, <2>3, <2>4, <2>5
<1> QED
  BY <1>2, <1>3, <1>4, <1>5 DEF IndInv

-----------------------------------------------------------------------------
(* onPacket *)

\* Steps of a reader that leave the table and the sessions alone.
LEMMA ReadingKeeps ==
    ASSUME IndInv, NEW r \in Readers,
           \/ Enter(r) \/ Lookup(r) \/ EvictIfNeeded(r) \/ PickEldest(r) \/ LogIsEmpty(r)
           \/ PickAny(r) \/ Fetch(r) \/ Recheck(r) \/ Touch(r)
    PROVE  IndInv'
<1> DEFINE m == my[r]
<1>1. /\ r \in Threads /\ Types /\ Fits(r, pc[r], m) /\ m \in Locals /\ pc[r] \in PCs
      /\ live \in SUBSET live /\ lru \in Seq(Keys) /\ born \in Nat
      /\ table \in [Keys -> Nat] /\ \A k \in Keys : table[k] <= born
      /\ left \in [Sweepers -> SUBSET Keys]
  BY DEF IndInv, Types, Threads
<1>2. \A k \in Keys : [m EXCEPT !.prey = k] \in Locals /\ [m EXCEPT !.prey = k].prey = k
                      /\ [m EXCEPT !.prey = k].key = m.key
                      /\ [m EXCEPT !.prey = k].hand = m.hand
  BY <1>1 DEF Locals, KeyOrNone
<1>3. \A k \in Keys : /\ [m EXCEPT !.hand = table[k]] \in Locals
                      /\ [m EXCEPT !.hand = table[k]].hand = table[k]
                      /\ [m EXCEPT !.hand = table[k]].key = m.key
                      /\ [m EXCEPT !.hand = table[k]].prey = m.prey
  BY <1>1 DEF Locals, KeyOrNone
<1>4. pc[r] \in Keyed => m.key \in Keys
  BY <1>1 DEF Fits
<1> QED
  <2>1. CASE Enter(r)
    <3>1. PICK k \in Keys : Move(r, "lookup", [NoLocals EXCEPT !.key = k])
      BY <2>1 DEF Enter
    <3> DEFINE n == [NoLocals EXCEPT !.key = k]
    <3>2. n \in Locals /\ n.key = k /\ n.hand = 0
      BY DEF NoLocals, None, Locals, KeyOrNone
    <3>3. pc[r] = "idle" /\ UNCHANGED <<table, born, live, lru, left>>
      BY <2>1 DEF Enter
    <3> HIDE DEF n
    <3>4. Move(r, "lookup", n)
      BY <3>1 DEF n
    <3> QED
      BY <1>1, <3>2, <3>3, <3>4, StepKeeps DEF Fits, PCs, Keyed, Hunting, Answerable
  <2>2. CASE Lookup(r)
    <3>1. m.key \in Keys
      BY <1>4, <2>2 DEF Lookup, Keyed
    <3>2. CASE Move(r, "touch", [m EXCEPT !.hand = table[m.key]])
      BY <1>1, <1>3, <2>2, <3>1, <3>2, StepKeeps
      DEF Lookup, Fits, PCs, Keyed, Hunting, Answerable
    <3>3. ASSUME NEW p \in {"idle", "evict"}, Move(r, p, m) PROVE IndInv'
      BY <1>1, <2>2, <3>1, <3>3, StepKeeps
      DEF Lookup, Fits, PCs, Keyed, Hunting, Answerable
    <3>4. \/ Move(r, "touch", [m EXCEPT !.hand = table[m.key]])
          \/ Move(r, "idle", m) \/ Move(r, "evict", m)
      BY <2>2 DEF Lookup, Goto
    <3> QED
      BY <3>2, <3>3, <3>4
  <2>3. CASE EvictIfNeeded(r)
    <3>1. PICK p \in {"pick", "dial"} : Move(r, p, m)
      BY <2>3 DEF EvictIfNeeded, Goto
    <3> QED
      BY <1>1, <1>4, <2>3, <3>1, StepKeeps
      DEF EvictIfNeeded, Fits, PCs, Keyed, Hunting, Answerable
  <2>4. CASE PickEldest(r)
    <3>1. Head(lru) \in Keys /\ Tail(lru) \in Seq(Keys)
      BY <1>1, <2>4 DEF PickEldest
    <3> QED
      BY <1>1, <1>2, <1>4, <2>4, <3>1, StepKeeps
      DEF PickEldest, Fits, PCs, Keyed, Hunting, Answerable
  <2>5. CASE LogIsEmpty(r)
    BY <1>1, <1>4, <2>5, StepKeeps
    DEF LogIsEmpty, Goto, Fits, PCs, Keyed, Hunting, Answerable
  <2>6. CASE PickAny(r)
    <3>1. ASSUME NEW k \in Present, Move(r, "fetch", [m EXCEPT !.prey = k]) PROVE IndInv'
      BY <1>1, <1>2, <1>4, <2>6, <3>1, StepKeeps
      DEF PickAny, Present, Fits, PCs, Keyed, Hunting, Answerable
    <3>2. CASE Move(r, "dial", m)
      BY <1>1, <1>4, <2>6, <3>2, StepKeeps
      DEF PickAny, Fits, PCs, Keyed, Hunting, Answerable
    <3> QED
      BY <2>6, <3>1, <3>2 DEF PickAny, Goto
  <2>7. CASE Fetch(r)
    <3>1. m.prey \in Keys
      BY <1>1, <2>7 DEF Fetch, Fits, Hunting
    <3>2. PICK p \in {"evict", "claim"} : Move(r, p, [m EXCEPT !.hand = table[m.prey]])
      BY <2>7 DEF Fetch
    <3> QED
      BY <1>1, <1>3, <1>4, <2>7, <3>1, <3>2, StepKeeps
      DEF Fetch, Fits, PCs, Keyed, Hunting, Answerable
  <2>8. CASE Recheck(r)
    <3>1. PICK p \in {"undo", "touch"} : Move(r, p, m)
      BY <2>8 DEF Recheck, Goto
    <3> QED
      BY <1>1, <1>4, <2>8, <3>1, StepKeeps
      DEF Recheck, Fits, PCs, Keyed, Hunting, Answerable
  <2>9. CASE Touch(r)
    <3>1. m.key \in Keys
      BY <1>4, <2>9 DEF Touch, Keyed
    <3>2. lru' \in Seq(Keys)
      BY <1>1, <2>9, <3>1, Unlogged DEF Touch
    <3> QED
      BY <1>1, <2>9, <3>1, <3>2, StepKeeps
      DEF Touch, Goto, Fits, PCs, Keyed, Hunting, Answerable
  <2> QED
    BY <2>1, <2>2, <2>3, <2>4, <2>5, <2>6, <2>7, <2>8, <2>9

\* The reader ends the session in its hand, or hands it back.
LEMMA EndingKeeps ==
    ASSUME IndInv, NEW r \in Readers,
           \/ AbortPrey(r) \/ UndoAbort(r) \/ Deliver(r)
    PROVE  IndInv'
<1> DEFINE m == my[r]
<1>1. /\ r \in Threads /\ Types /\ Fits(r, pc[r], m) /\ m \in Locals /\ pc[r] \in PCs
      /\ live \ {m.hand} \in SUBSET live /\ lru \in Seq(Keys) /\ born \in Nat
      /\ table \in [Keys -> Nat] /\ \A k \in Keys : table[k] <= born
      /\ left \in [Sweepers -> SUBSET Keys]
  BY DEF IndInv, Types, Threads
<1>2. pc[r] \in Keyed => m.key \in Keys
  BY <1>1 DEF Fits
<1>3. CASE AbortPrey(r)
  <2> DEFINE n == [m EXCEPT !.hand = None, !.prey = None]
  <2>1. n \in Locals /\ n.hand = 0 /\ n.key = m.key
    BY <1>1 DEF Locals, KeyOrNone, None
  <2>2. Move(r, "evict", n) /\ pc[r] = "abortPrey" /\ live' = live \ {m.hand}
        /\ UNCHANGED <<table, born, lru, left>>
    BY <1>3 DEF AbortPrey
  <2> HIDE DEF n
  <2> QED
    BY <1>1, <1>2, <2>1, <2>2, StepKeeps DEF Fits, PCs, Keyed, Hunting, Answerable
<1>4. CASE UndoAbort(r)
  BY <1>1, <1>2, <1>4, StepKeeps
  DEF UndoAbort, Goto, Fits, PCs, Keyed, Hunting, Answerable
<1>5. CASE Deliver(r)
  <2>1. PICK p \in {"idle", "remove"} : Move(r, p, m) /\ (p = "remove" => m.hand \notin live')
    BY <1>5 DEF Deliver, Goto
  <2>2. live' \in SUBSET live /\ pc[r] = "deliver" /\ UNCHANGED <<table, born, lru, left>>
    BY <1>5 DEF Deliver
  <2> QED
    BY <1>1, <1>2, <2>1, <2>2, StepKeeps DEF Fits, PCs, Keyed, Hunting, Answerable
<1> QED
  BY <1>3, <1>4, <1>5

\* A dial: a new session that nobody has seen falls to the reader.
LEMMA DialKeeps ==
    ASSUME IndInv, NEW r \in Readers, Dial(r)
    PROVE  IndInv'
<1> DEFINE m == my[r]
           n == [m EXCEPT !.hand = born + 1, !.prey = None]
<1>1. /\ r \in Threads /\ Types /\ Fits(r, pc[r], m) /\ m \in Locals /\ pc[r] = "dial"
      /\ lru \in Seq(Keys) /\ born \in Nat /\ live \in SUBSET (1..born)
      /\ table \in [Keys -> Nat] /\ \A k \in Keys : table[k] <= born
      /\ left \in [Sweepers -> SUBSET Keys]
      /\ UNCHANGED <<table, lru, left>>
  BY DEF IndInv, Types, Threads, Dial
<1>2. m.key \in Keys
  BY <1>1 DEF Fits, Keyed
<1>3. CASE Goto(r, "idle") /\ UNCHANGED <<born, live>>
  BY <1>1, <1>2, <1>3, StepKeeps DEF Goto, Fits, PCs, Keyed, Hunting, Answerable
<1>4. CASE born' = born + 1 /\ live' = live \cup {born + 1} /\ Move(r, "insert", n)
  <2>1. n \in Locals /\ n.hand = born + 1 /\ n.key = m.key
    <3>1. PICK b \in Nat : b = born + 1
      BY <1>1
    <3>2. /\ [m EXCEPT !.hand = b, !.prey = None] \in Locals
          /\ [m EXCEPT !.hand = b, !.prey = None].hand = b
          /\ [m EXCEPT !.hand = b, !.prey = None].key = m.key
      BY <1>1 DEF Locals, KeyOrNone, None
    <3> QED
      BY <3>1, <3>2
  <2> HIDE DEF n
  <2>2. /\ pc' \in [Threads -> PCs] /\ my' \in [Threads -> Locals]
        /\ pc'[r] = "insert" /\ my'[r] = n
        /\ \A u \in Threads : u # r => pc'[u] = pc[u] /\ my'[u] = my[u]
    BY <1>1, <1>4, <2>1, Moved DEF Types, PCs, Keyed, Answerable
  <2>3. Types'
    BY <1>1, <1>4, <2>2 DEF Types
  <2>4. \A u \in Threads : Fits(u, pc[u], my[u])'
    <3> SUFFICES ASSUME NEW u \in Threads PROVE Fits(u, pc[u], my[u])'
      OBVIOUS
    <3>1. my[u].hand \in Nat /\ Fits(u, pc[u], my[u])
      BY <1>1 DEF IndInv, Types, Locals
    <3>2. CASE u = r
      BY <1>1, <1>2, <1>4, <2>1, <2>2, <3>2 DEF Fits, Hunting
    <3>3. CASE u # r
      BY <1>1, <1>4, <2>2, <3>1, <3>3 DEF Fits
    <3> QED
      BY <3>2, <3>3
  <2>5. RemovedAreDead'
    <3> SUFFICES ASSUME NEW u \in Threads, pc'[u] = "remove" PROVE my'[u].hand \notin live'
      BY DEF RemovedAreDead
    <3>1. u # r /\ my'[u] = my[u] /\ my[u].hand \notin live
      BY <2>2 DEF IndInv, RemovedAreDead
    <3>2. my[u].hand \in Nat /\ my[u].hand <= born
      BY <1>1 DEF IndInv, Types, Locals, Fits
    <3> QED
      BY <1>1, <1>4, <3>1, <3>2
  <2>6. NoLeak'
    <3> SUFFICES ASSUME NEW s \in live'
                 PROVE  \/ \E k \in Keys : table'[k] = s
                        \/ \E q \in Readers : pc'[q] \in Answerable /\ my'[q].hand = s
      BY DEF NoLeak, ReadersAt, Answerable
    <3>1. CASE s = born + 1
      BY <2>1, <2>2, <3>1 DEF Answerable
    <3>2. CASE s \in live
      <4>1. CASE \E k \in Keys : table[k] = s
        BY <1>1, <4>1
      <4>2. ASSUME NEW q \in Readers, pc[q] \in Answerable, my[q].hand = s
            PROVE  pc'[q] \in Answerable /\ my'[q].hand = s
        BY <1>1, <2>2, <4>2 DEF Threads, Answerable
      <4> QED
        BY <3>2, <4>1, <4>2 DEF IndInv, NoLeak, ReadersAt, Answerable
    <3> QED
      BY <1>4, <3>1, <3>2
  <2> QED
    BY <2>3, <2>4, <2>5, <2>6 DEF IndInv
<1> QED
  BY <1>3, <1>4 DEF Dial

-----------------------------------------------------------------------------
(* Steps that change the table *)

\* A conditional removal touches the entry of one session only.
LEMMA Removed ==
    ASSUME Types, NEW k \in Keys, NEW s, table' = RemoveIf(k, s)
    PROVE  /\ table' \in [Keys -> Nat] /\ \A x \in Keys : table'[x] <= born
           /\ \A x \in Keys : table'[x] = table[x] \/ table[x] = s
           /\ table[k] # s => table' = table
BY DEF Types, RemoveIf, None

LEMMA ClaimKeeps ==
    ASSUME IndInv, NEW r \in Readers, Claim(r)
    PROVE  IndInv'
<1> DEFINE m == my[r]
<1>1. /\ r \in Threads /\ Types /\ Fits(r, pc[r], m) /\ m \in Locals /\ pc[r] = "claim"
      /\ lru \in Seq(Keys) /\ left \in [Sweepers -> SUBSET Keys]
      /\ UNCHANGED <<born, live, lru, left>> /\ table' = RemoveIf(m.prey, m.hand)
  BY DEF IndInv, Types, Threads, Claim
<1>2. m.key \in Keys /\ m.prey \in Keys
  BY <1>1 DEF Fits, Keyed, Hunting
<1>3. /\ table' \in [Keys -> Nat] /\ \A x \in Keys : table'[x] <= born
      /\ \A x \in Keys : table'[x] = table[x] \/ table[x] = m.hand
      /\ table[m.prey] # m.hand => table' = table
  BY <1>1, <1>2, Removed
<1>4. CASE table[m.prey] = m.hand /\ Move(r, "abortPrey", m)
  BY <1>1, <1>2, <1>3, <1>4, StepKeeps DEF Fits, PCs, Keyed, Hunting, Answerable
<1>5. CASE table[m.prey] # m.hand /\ Move(r, "evict", m)
  BY <1>1, <1>2, <1>3, <1>5, StepKeeps DEF Fits, PCs, Keyed, Hunting, Answerable
<1> QED
  BY <1>4, <1>5 DEF Claim, Goto

LEMMA InsertKeeps ==
    ASSUME IndInv, NEW r \in Readers, Insert(r)
    PROVE  IndInv'
<1> DEFINE m == my[r]
           prev == table[m.key]
           n == [m EXCEPT !.hand = prev]
<1>1. /\ r \in Threads /\ Types /\ Fits(r, pc[r], m) /\ m \in Locals /\ pc[r] = "insert"
      /\ lru \in Seq(Keys) /\ left \in [Sweepers -> SUBSET Keys]
      /\ born \in Nat /\ live \in SUBSET (1..born)
      /\ table \in [Keys -> Nat] /\ \A k \in Keys : table[k] <= born
      /\ UNCHANGED <<born, lru, left>>
  BY DEF IndInv, Types, Threads, Insert
<1>2. m.key \in Keys /\ m.hand \in Nat /\ m.hand <= born
  BY <1>1 DEF Fits, Keyed, Answerable, Locals
<1>3. CASE /\ prev = None /\ Move(r, "recheck", m) /\ live' = live
           /\ table' = [table EXCEPT ![m.key] = m.hand]
  <2>1. /\ table' \in [Keys -> Nat] /\ \A k \in Keys : table'[k] <= born
        /\ table'[m.key] = m.hand
        /\ \A k \in Keys : table'[k] = table[k] \/ table[k] = 0
    BY <1>1, <1>2, <1>3 DEF None
  <2>2. 0 \notin live
    BY <1>1
  <2> QED
    BY <1>1, <1>2, <1>3, <2>1, <2>2, StepKeeps DEF Fits, PCs, Keyed, Hunting, Answerable
<1>4. CASE /\ Move(r, "touch", n) /\ live' = live \ {m.hand} /\ table' = table
  <2>1. n \in Locals /\ n.hand = prev /\ n.key = m.key /\ prev <= born
    BY <1>1, <1>2 DEF Locals, KeyOrNone
  <2> HIDE DEF n
  <2> QED
    BY <1>1, <1>2, <1>4, <2>1, StepKeeps DEF Fits, PCs, Keyed, Hunting, Answerable
<1> QED
  BY <1>3, <1>4 DEF Insert, Goto

LEMMA RemoveSessionKeeps ==
    ASSUME IndInv, NEW t \in Threads, RemoveSession(t)
    PROVE  IndInv'
<1> DEFINE m == my[t]
<1>1. /\ Types /\ Fits(t, pc[t], m) /\ m \in Locals /\ pc[t] \in {"remove", "undo"}
      /\ lru \in Seq(Keys) /\ left \in [Sweepers -> SUBSET Keys]
      /\ UNCHANGED <<born, live, lru, left>> /\ table' = RemoveIf(m.key, m.hand)
  BY DEF IndInv, Types, RemoveSession
<1>2. m.key \in Keys
  BY <1>1 DEF Fits, Keyed, Answerable
<1>3. /\ table' \in [Keys -> Nat] /\ \A x \in Keys : table'[x] <= born
      /\ \A x \in Keys : table'[x] = table[x] \/ table[x] = m.hand
  BY <1>1, <1>2, Removed
<1>4. CASE pc[t] = "remove"
  <2>1. PICK p \in {"unlog", "idle", "sweep"} : Move(t, p, m)
    BY <1>4 DEF RemoveSession, Goto, After
  <2>2. m.hand \notin live
    BY <1>4 DEF IndInv, RemovedAreDead
  <2> QED
    BY <1>1, <1>2, <1>3, <1>4, <2>1, <2>2, StepKeeps
    DEF Fits, PCs, Keyed, Hunting, Answerable
<1>5. CASE pc[t] = "undo"
  <2>1. PICK p \in {"undoUnlog", "undoAbort"} : Move(t, p, m)
    BY <1>5 DEF RemoveSession, Goto
  <2> QED
    BY <1>1, <1>2, <1>3, <1>5, <2>1, StepKeeps
    DEF Fits, PCs, Keyed, Hunting, Answerable
<1> QED
  BY <1>1, <1>4, <1>5

LEMMA UnlogKeeps ==
    ASSUME IndInv, NEW t \in Threads, Unlog(t)
    PROVE  IndInv'
<1> DEFINE m == my[t]
<1>1. /\ Types /\ Fits(t, pc[t], m) /\ m \in Locals /\ pc[t] \in {"unlog", "undoUnlog"}
      /\ table \in [Keys -> Nat] /\ \A k \in Keys : table[k] <= born
      /\ lru \in Seq(Keys) /\ left \in [Sweepers -> SUBSET Keys]
      /\ UNCHANGED <<table, born, live, left>> /\ lru' = Without(lru, m.key)
  BY DEF IndInv, Types, Unlog
<1>2. m.key \in Keys /\ lru' \in Seq(Keys)
  BY <1>1, Unlogged DEF Fits, Keyed, Answerable
<1>3. CASE pc[t] = "unlog"
  <2>1. PICK p \in {"idle", "sweep"} : Move(t, p, m)
    BY <1>3 DEF Unlog, Goto, After
  <2> QED
    BY <1>1, <1>2, <1>3, <2>1, StepKeeps DEF Fits, PCs, Keyed, Hunting, Answerable
<1>4. CASE pc[t] = "undoUnlog"
  <2>1. Move(t, "undoAbort", m)
    BY <1>4 DEF Unlog, Goto
  <2> QED
    BY <1>1, <1>2, <1>4, <2>1, StepKeeps DEF Fits, PCs, Keyed, Hunting, Answerable
<1> QED
  BY <1>1, <1>3, <1>4

-----------------------------------------------------------------------------
(* onTick and close *)

LEMMA VisitKeeps ==
    ASSUME IndInv, NEW t \in Sweepers, NEW k \in left[t], NEW end \in BOOLEAN,
           Visit(t, k, end)
    PROVE  IndInv'
<1> DEFINE m == [NoLocals EXCEPT !.key = k, !.hand = table[k]]
           p == IF end THEN "remove" ELSE "sweep"
<1>1. /\ t \in Threads /\ Types /\ k \in Keys /\ pc[t] = "sweep"
      /\ lru \in Seq(Keys) /\ born \in Nat
      /\ table \in [Keys -> Nat] /\ \A x \in Keys : table[x] <= born
      /\ left' \in [Sweepers -> SUBSET Keys]
      /\ UNCHANGED <<table, born, lru>>
      /\ Move(t, p, m) /\ live' = (IF end THEN live \ {table[k]} ELSE live)
  BY DEF IndInv, Types, Threads, Visit
<1>2. m \in Locals /\ m.key = k /\ m.hand = table[k]
  BY <1>1 DEF Locals, KeyOrNone, NoLocals, None
<1> HIDE DEF m
<1>3. /\ p \in {"remove", "sweep"} /\ (p = "remove" => m.hand \notin live')
      /\ live' \in SUBSET live
  BY <1>1, <1>2
<1> HIDE DEF p
<1> QED
  BY <1>1, <1>2, <1>3, StepKeeps DEF Fits, PCs, Keyed, Hunting, Answerable

\* The steps of a sweep between its visits.
LEMMA SweepKeeps ==
    ASSUME IndInv, TickStart \/ TickEnd \/ CloseStart \/ CloseIterate \/ CloseEnd
    PROVE  IndInv'
<1>1. PICK t \in Sweepers, p \in {"idle", "closing", "sweep"} :
         /\ Move(t, p, my[t]) /\ pc[t] \in {"idle", "closing", "sweep"}
  BY DEF TickStart, TickEnd, CloseStart, CloseIterate, CloseEnd, Goto, Sweepers
<1>2. /\ t \in Threads /\ Types /\ Fits(t, pc[t], my[t]) /\ my[t] \in Locals
      /\ table \in [Keys -> Nat] /\ \A k \in Keys : table[k] <= born
      /\ lru \in Seq(Keys) /\ left \in [Sweepers -> SUBSET Keys]
  BY DEF IndInv, Types, Threads
<1>3. UNCHANGED <<table, born, live>> /\ lru' \in Seq(Keys)
  <2>1. UNCHANGED <<table, born, live>> /\ (lru' = lru \/ lru' = <<>>)
    BY DEF TickStart, TickEnd, CloseStart, CloseIterate, CloseEnd
  <2>2. <<>> \in Seq(Keys) /\ lru \in Seq(Keys)
    BY <1>2
  <2> QED
    BY <2>1, <2>2
<1>4. left' \in [Sweepers -> SUBSET Keys]
  BY <1>2 DEF TickStart, TickEnd, CloseStart, CloseIterate, CloseEnd, Iterate
<1> QED
  BY <1>1, <1>2, <1>3, <1>4, StepKeeps DEF Fits, PCs, Keyed, Hunting, Answerable

-----------------------------------------------------------------------------

\* Steps of no thread: a session ends by itself, or nothing happens.
LEMMA OutsideKeeps ==
    ASSUME IndInv, UNCHANGED <<table, lru, born, pc, my, left>>, live' \in SUBSET live
    PROVE  IndInv'
BY DEF IndInv, Types, Fits, RemovedAreDead, NoLeak, ReadersAt

LEMMA InitInd == Init => IndInv
<1> SUFFICES ASSUME Init PROVE IndInv
  OBVIOUS
<1>1. Types
  BY DEF Init, Types, NoLocals, Locals, KeyOrNone, None, PCs
<1>2. \A t \in Threads : pc[t] = "idle" /\ my[t].hand = 0
  BY DEF Init, NoLocals, None
<1> QED
  BY <1>1, <1>2
  DEF Init, IndInv, Types, Fits, RemovedAreDead, NoLeak, Keyed, Hunting, Answerable

LEMMA NextInd ==
    ASSUME IndInv, [Next]_vars
    PROVE  IndInv'
<1>1. ASSUME NEW r \in Readers, Enter(r) \/ ReaderStep(r) PROVE IndInv'
  <2>1. r \in Threads
    BY DEF Threads
  <2> QED
    BY <1>1, <2>1, ReadingKeeps, EndingKeeps, DialKeeps, ClaimKeeps, InsertKeeps,
       RemoveSessionKeeps, UnlogKeeps
    DEF ReaderStep
<1>2. CASE TickStep
  <2>1. CASE TickVisit
    <3>1. PICK k \in left[Ticker], end \in BOOLEAN : Visit(Ticker, k, end)
      BY <2>1 DEF TickVisit, Ended
    <3> QED
      BY <3>1, VisitKeeps DEF Sweepers
  <2> QED
    BY <1>2, <2>1, SweepKeeps, RemoveSessionKeeps, UnlogKeeps
    DEF TickStep, Threads, Sweepers
<1>3. CASE CloseStart \/ CloseStep
  <2>1. CASE CloseVisit
    <3>1. PICK k \in left[Closer], end \in BOOLEAN : Visit(Closer, k, end)
      BY <2>1 DEF CloseVisit
    <3> QED
      BY <3>1, VisitKeeps DEF Sweepers
  <2> QED
    BY <1>3, <2>1, SweepKeeps, RemoveSessionKeeps, UnlogKeeps
    DEF CloseStep, Threads, Sweepers
<1>4. CASE UpstreamFails
  BY <1>4, OutsideKeeps DEF UpstreamFails
<1>5. CASE UNCHANGED vars
  BY <1>5, OutsideKeeps DEF vars
<1> QED
  BY <1>1, <1>2, <1>3, <1>4, <1>5 DEF Next

\* The dispatcher leaks no session: each live one is in the table, or in the hand of
\* a reader that has yet to insert it or is about to abort it.
THEOREM NothingLeaks == Spec => []NoLeak
<1>1. IndInv => NoLeak
  BY DEF IndInv
<1> QED
  BY <1>1, InitInd, NextInd, PTL DEF Spec

-----------------------------------------------------------------------------
(* Counters, bound and close: what the threads hold, and who sees an entry off *)

\* Steps at which a thread has a session in its hand.
Handed == {"claim", "insert", "recheck", "touch", "deliver", "remove", "undo"}
HandsFull == \A t \in Threads : pc[t] \in Handed => my[t].hand # None

CountInv == opened \in Nat /\ gone \in Nat /\ CountersAgree /\ TableBounded

\* Once the dispatcher is closed, close() still has the entry ahead of it or is removing it,
\* or the reader that made it has yet to look at `closed` again.
CloserCovers(k) ==
    \/ pc[Closer] = "closing"
    \/ pc[Closer] # "idle" /\ k \in left[Closer]
    \/ pc[Closer] = "remove" /\ my[Closer].key = k /\ my[Closer].hand = table[k]

Covered(k) ==
    \/ CloserCovers(k)
    \/ \E r \in Readers : pc[r] \in {"recheck", "undo"} /\ my[r].key = k /\ my[r].hand = table[k]

CloseInv == closed \in BOOLEAN /\ (closed => \A k \in Present : Covered(k))

TableInv == HandsFull /\ CountInv /\ CloseInv

LEMMA HandStep ==
    ASSUME IndInv, HandsFull, NEW t \in Threads, NEW p \in PCs, NEW m \in Locals, Move(t, p, m),
           p \in Handed => m.hand # None
    PROVE  HandsFull'
<1>1. /\ pc'[t] = p /\ my'[t] = IF p \in {"idle", "sweep"} THEN NoLocals ELSE m
      /\ \A u \in Threads : u # t => pc'[u] = pc[u] /\ my'[u] = my[u]
  BY Moved DEF IndInv, Types
<1> QED
  BY <1>1 DEF HandsFull, Handed

\* Entries and readers can be counted.
LEMMA Tallies ==
    ASSUME IndInv
    PROVE  /\ IsFiniteSet(Present) /\ Cardinality(Present) \in Nat
           /\ Cardinality(Readers) \in Nat
           /\ \A ps : /\ IsFiniteSet(ReadersAt(ps)) /\ Cardinality(ReadersAt(ps)) \in Nat
                      /\ Cardinality(ReadersAt(ps)) <= Cardinality(Readers)
<1>1. IsFiniteSet(Keys) /\ IsFiniteSet(Readers)
  BY BoundsAssumption
<1>2. Present \in SUBSET Keys
  BY DEF Present
<1>3. \A ps : ReadersAt(ps) \in SUBSET Readers
  BY DEF ReadersAt
<1> QED
  BY <1>1, <1>2, <1>3, FS_Subset, FS_CardinalityType

\* A move changes the readers at some steps by the one that moves.
LEMMA Readership ==
    ASSUME IndInv, NEW t \in Threads, NEW p \in PCs, NEW m \in Locals, Move(t, p, m), NEW ps
    PROVE  /\ t \notin Readers => ReadersAt(ps)' = ReadersAt(ps)
           /\ t \in Readers =>
                 Cardinality(ReadersAt(ps))' = Cardinality(ReadersAt(ps))
                     + (IF p \in ps THEN 1 ELSE 0) - (IF pc[t] \in ps THEN 1 ELSE 0)
<1>1. pc'[t] = p /\ \A u \in Threads : u # t => pc'[u] = pc[u]
  BY Moved DEF IndInv, Types
<1>2. IsFiniteSet(ReadersAt(ps)) /\ Cardinality(ReadersAt(ps)) \in Nat
  BY Tallies
<1>3. ASSUME t \notin Readers PROVE ReadersAt(ps)' = ReadersAt(ps)
  BY <1>1, <1>3 DEF ReadersAt, Threads
<1>4. ASSUME t \in Readers
      PROVE  ReadersAt(ps)' = IF p \in ps THEN ReadersAt(ps) \cup {t} ELSE ReadersAt(ps) \ {t}
  BY <1>1, <1>4 DEF ReadersAt, Threads
<1>5. t \in Readers => (t \in ReadersAt(ps) <=> pc[t] \in ps)
  BY DEF ReadersAt
<1>6. ASSUME t \in Readers
      PROVE  Cardinality(ReadersAt(ps))' = Cardinality(ReadersAt(ps))
                 + (IF p \in ps THEN 1 ELSE 0) - (IF pc[t] \in ps THEN 1 ELSE 0)
  <2> DEFINE R == ReadersAt(ps)
  <2>1. Cardinality(R)' = Cardinality(IF p \in ps THEN R \cup {t} ELSE R \ {t})
    BY <1>4, <1>6
  <2>2. /\ Cardinality(R \cup {t}) = IF pc[t] \in ps THEN Cardinality(R) ELSE Cardinality(R) + 1
        /\ Cardinality(R \ {t}) = IF pc[t] \in ps THEN Cardinality(R) - 1 ELSE Cardinality(R)
    BY <1>2, <1>5, <1>6, FS_AddElement, FS_RemoveElement
  <2> QED
    BY <1>2, <2>1, <2>2
<1> QED
  BY <1>3, <1>6

\* The entry of a session goes, by the conditional removal.
LEMMA EntryGoes ==
    ASSUME IndInv, NEW k \in Keys, NEW s, s # None, table' = RemoveIf(k, s)
    PROVE  /\ table[k] = s => /\ Cardinality(Present)' = Cardinality(Present) - 1
                              /\ Cardinality(Present) > 0
           /\ table[k] # s => Present' = Present /\ table' = table
<1>1. table \in [Keys -> Nat] /\ IsFiniteSet(Present) /\ Cardinality(Present) \in Nat
  BY Tallies DEF IndInv, Types
<1>2. ASSUME table[k] = s
      PROVE  Cardinality(Present)' = Cardinality(Present) - 1 /\ Cardinality(Present) > 0
  <2>1. table' = [table EXCEPT ![k] = None] /\ k \in Present
    BY <1>2 DEF RemoveIf, Present
  <2>2. Present' = Present \ {k}
    BY <1>1, <2>1 DEF Present
  <2>3. Cardinality(Present \ {k}) = Cardinality(Present) - 1 /\ Cardinality(Present \ {k}) \in Nat
    BY <1>1, <2>1, FS_RemoveElement, FS_CardinalityType
  <2> QED
    BY <1>1, <2>2, <2>3
<1>3. table[k] # s => Present' = Present /\ table' = table
  BY DEF RemoveIf, Present
<1> QED
  BY <1>2, <1>3

\* A step that changes neither the table nor the counters, and takes no reader past the
\* check of the bound.
LEMMA QuietCount ==
    ASSUME IndInv, CountInv, NEW t \in Threads, NEW p \in PCs, NEW m \in Locals, Move(t, p, m),
           UNCHANGED <<table, counters>>,
           t \in Readers => /\ p = "abortPrey" <=> pc[t] = "abortPrey"
                            /\ p \in {"dial", "insert"} => pc[t] \in {"dial", "insert"}
    PROVE  CountInv'
<1> DEFINE A == Cardinality(ReadersAt({"abortPrey"}))
           D == Cardinality(ReadersAt({"dial", "insert"}))
<1>1. Cardinality(Present) \in Nat /\ A \in Nat /\ D \in Nat /\ Cardinality(Readers) \in Nat
  BY Tallies
<1>2. Present' = Present /\ opened' = opened /\ gone' = gone
  BY DEF Present, counters
<1>3. A' = A
  <2>1. CASE t \in Readers
    <3>1. A' = A + (IF p \in {"abortPrey"} THEN 1 ELSE 0) - (IF pc[t] \in {"abortPrey"} THEN 1 ELSE 0)
      BY <2>1, Readership
    <3> QED
      BY <1>1, <2>1, <3>1
  <2>2. CASE t \notin Readers
    BY <2>2, Readership
  <2> QED
    BY <2>1, <2>2
<1>4. D' \in Int /\ D' <= D
  <2>1. CASE t \in Readers
    <3>1. D' = D + (IF p \in {"dial", "insert"} THEN 1 ELSE 0)
                 - (IF pc[t] \in {"dial", "insert"} THEN 1 ELSE 0)
      BY <2>1, Readership
    <3> QED
      BY <1>1, <2>1, <3>1
  <2>2. CASE t \notin Readers
    BY <1>1, <2>2, Readership
  <2> QED
    BY <2>1, <2>2
<1>5. MaxSessions \in Nat
  BY BoundsAssumption
<1> HIDE DEF A, D
<1>6. CountersAgree'
  BY <1>2, <1>3 DEF CountInv, CountersAgree, A
<1>7. TableBounded'
  <2>1. Cardinality(Present) + D <= MaxSessions + Cardinality(Readers) - 1
    BY DEF CountInv, TableBounded, D
  <2>2. Cardinality(Present) + D' <= MaxSessions + Cardinality(Readers) - 1
    BY <1>1, <1>4, <1>5, <2>1
  <2> QED
    BY <1>2, <2>2 DEF TableBounded, D
<1> QED
  BY <1>2, <1>6, <1>7 DEF CountInv

\* Entries stay covered over a thread's step, if the one it makes waits for a second look at
\* `closed`, and none that it looked after outlives the step.
LEMMA CoverStep ==
    ASSUME IndInv, CloseInv, NEW t \in Threads, NEW p \in PCs, NEW m \in Locals, Move(t, p, m),
           closed' = closed,
           \A k \in Keys : \/ table'[k] = None \/ table'[k] = table[k]
                           \/ t \in Readers /\ p = "recheck" /\ m.key = k /\ m.hand = table'[k],
           t \in Readers /\ closed /\ pc[t] \in {"recheck", "undo"} =>
               \/ p = "undo" /\ m.key = my[t].key /\ m.hand = my[t].hand
               \/ table'[my[t].key] = None \/ table[my[t].key] # my[t].hand,
           \A k \in Keys : table'[k] = table[k] /\ table[k] # None /\ CloserCovers(k)
                           => CloserCovers(k)'
    PROVE  CloseInv'
<1>1. /\ pc'[t] = p /\ my'[t] = IF p \in {"idle", "sweep"} THEN NoLocals ELSE m
      /\ \A u \in Threads : u # t => pc'[u] = pc[u] /\ my'[u] = my[u]
  BY Moved DEF IndInv, Types
<1>2. ASSUME closed', NEW k \in Keys, table'[k] # None PROVE Covered(k)'
  <2>1. CASE t \in Readers /\ p = "recheck" /\ m.key = k /\ m.hand = table'[k]
    BY <1>1, <2>1 DEF Covered
  <2>2. CASE table'[k] = table[k]
    <3>1. Covered(k)
      BY <1>2, <2>2 DEF CloseInv, Present
    <3>2. CASE CloserCovers(k)
      BY <1>2, <2>2, <3>2 DEF Covered
    <3>3. ASSUME NEW r \in Readers, pc[r] \in {"recheck", "undo"}, my[r].key = k,
                 my[r].hand = table[k]
          PROVE  Covered(k)'
      <4>1. r \in Threads
        BY DEF Threads
      <4>2. CASE r # t
        BY <1>1, <2>2, <3>3, <4>1, <4>2 DEF Covered
      <4>3. CASE r = t
        <5>1. p = "undo" /\ m.key = k /\ m.hand = table[k]
          BY <1>2, <2>2, <3>3, <4>3
        <5> QED
          BY <1>1, <2>2, <4>3, <5>1 DEF Covered
      <4> QED
        BY <4>2, <4>3
    <3> QED
      BY <3>1, <3>2, <3>3 DEF Covered
  <2> QED
    BY <1>2, <2>1, <2>2
<1> QED
  BY <1>2 DEF CloseInv, Present

\* The steps of the other threads leave close() where it is.
LEMMA CloserStays ==
    ASSUME IndInv, NEW t \in Threads, t # Closer, NEW p \in PCs, NEW m \in Locals, Move(t, p, m),
           left'[Closer] = left[Closer]
    PROVE  \A k \in Keys : table'[k] = table[k] /\ table[k] # None /\ CloserCovers(k)
                           => CloserCovers(k)'
<1>1. Closer \in Threads
  BY DEF Threads, Sweepers
<1>2. pc'[Closer] = pc[Closer] /\ my'[Closer] = my[Closer]
  BY <1>1, Moved DEF IndInv, Types
<1> QED
  BY <1>2 DEF CloserCovers

\* A reader's step that touches neither the table nor the counters.
LEMMA QuietStep ==
    ASSUME IndInv, TableInv, NEW r \in Readers, NEW p \in PCs, NEW m \in Locals, Move(r, p, m),
           UNCHANGED <<closed, table, counters, left>>,
           p \in Handed => m.hand # None,
           p = "abortPrey" <=> pc[r] = "abortPrey",
           p \in {"dial", "insert"} => pc[r] \in {"dial", "insert"},
           closed /\ pc[r] \in {"recheck", "undo"} =>
               p = "undo" /\ m.key = my[r].key /\ m.hand = my[r].hand
    PROVE  TableInv'
<1>1. r \in Threads /\ r # Closer
  BY ThreadsAssumption DEF Threads
<1>2. HandsFull'
  BY <1>1, HandStep DEF TableInv
<1>3. CountInv'
  BY <1>1, QuietCount DEF TableInv
<1>4. \A k \in Keys : table'[k] = table[k] /\ table[k] # None /\ CloserCovers(k)
                      => CloserCovers(k)'
  BY <1>1, CloserStays
<1>5. CloseInv'
  BY <1>1, <1>4, CoverStep DEF TableInv
<1> QED
  BY <1>2, <1>3, <1>5 DEF TableInv

\* What a reader may write over its locals.
LEMMA LocalsWritten ==
    ASSUME IndInv, NEW t \in Threads, NEW k \in Keys, NEW h \in Nat
    PROVE  LET m == my[t] IN
           /\ m \in Locals
           /\ [m EXCEPT !.prey = k] \in Locals /\ [m EXCEPT !.prey = k].hand = m.hand
           /\ [m EXCEPT !.hand = h] \in Locals /\ [m EXCEPT !.hand = h].hand = h
           /\ [m EXCEPT !.hand = h].key = m.key
           /\ [m EXCEPT !.hand = None, !.prey = None] \in Locals
           /\ [m EXCEPT !.hand = h, !.prey = None] \in Locals
           /\ [m EXCEPT !.hand = h, !.prey = None].hand = h
           /\ [NoLocals EXCEPT !.key = k] \in Locals
           /\ [NoLocals EXCEPT !.key = k, !.hand = h] \in Locals
           /\ [NoLocals EXCEPT !.key = k, !.hand = h].hand = h
           /\ [NoLocals EXCEPT !.key = k, !.hand = h].key = k
<1>1. my[t] \in Locals
  BY DEF IndInv, Types
<1> QED
  BY <1>1 DEF Locals, KeyOrNone, NoLocals, None

LEMMA QuietReads ==
    ASSUME IndInv, TableInv, NEW r \in Readers,
           \/ Enter(r) \/ Lookup(r) \/ PickEldest(r) \/ LogIsEmpty(r) \/ Fetch(r)
           \/ Recheck(r) \/ UndoAbort(r) \/ Touch(r) \/ Deliver(r) \/ Unlog(r)
    PROVE  TableInv'
<1> DEFINE m == my[r]
<1>1. /\ r \in Threads /\ m \in Locals /\ table \in [Keys -> Nat] /\ lru \in Seq(Keys)
      /\ (pc[r] \in Keyed => m.key \in Keys) /\ (pc[r] \in Hunting => m.prey \in Keys)
  BY DEF IndInv, Types, Fits, Threads
<1>2. pc[r] \in Handed => m.hand # None
  BY <1>1 DEF TableInv, HandsFull
<1>3. CASE Enter(r)
  <2>1. PICK k \in Keys : Move(r, "lookup", [NoLocals EXCEPT !.key = k])
    BY <1>3 DEF Enter
  <2>2. [NoLocals EXCEPT !.key = k] \in Locals
    BY <1>1, LocalsWritten
  <2> QED
    BY <1>3, <2>1, <2>2, QuietStep DEF Enter, PCs, Keyed, Handed
<1>4. CASE Lookup(r)
  <2>1. m.key \in Keys
    BY <1>1, <1>4 DEF Lookup, Keyed
  <2> DEFINE n == [m EXCEPT !.hand = table[m.key]]
  <2>2. n \in Locals /\ n.hand = table[m.key]
    <3>1. r \in Threads /\ table[m.key] \in Nat
      BY <1>1, <2>1
    <3> QED
      BY <2>1, <3>1, LocalsWritten
  <2>3. \/ table[m.key] # None /\ Move(r, "touch", n)
        \/ Move(r, "idle", m) \/ Move(r, "evict", m)
    BY <1>4 DEF Lookup, Goto
  <2> HIDE DEF n
  <2> QED
    BY <1>1, <1>4, <2>2, <2>3, QuietStep DEF Lookup, PCs, Keyed, Answerable, Handed
<1>5. CASE PickEldest(r) \/ LogIsEmpty(r)
  <2>1. CASE PickEldest(r)
    <3>1. Head(lru) \in Keys
      BY <1>1, <2>1 DEF PickEldest
    <3> DEFINE n == [m EXCEPT !.prey = Head(lru)]
    <3>2. n \in Locals /\ Move(r, "fetch", n)
      BY <1>1, <2>1, <3>1, LocalsWritten DEF PickEldest
    <3> HIDE DEF n
    <3> QED
      BY <2>1, <3>2, QuietStep DEF PickEldest, PCs, Hunting, Keyed, Handed
  <2>2. CASE LogIsEmpty(r)
    BY <1>1, <2>2, QuietStep DEF LogIsEmpty, Goto, PCs, Keyed, Handed
  <2> QED
    BY <1>5, <2>1, <2>2
<1>6. CASE Fetch(r)
  <2>1. m.prey \in Keys
    BY <1>1, <1>6 DEF Fetch, Hunting
  <2> DEFINE n == [m EXCEPT !.hand = table[m.prey]]
  <2>2. n \in Locals /\ n.hand = table[m.prey]
    <3>1. PICK h \in Nat : h = table[m.prey]
      BY <1>1, <2>1
    <3>2. [m EXCEPT !.hand = h] \in Locals /\ [m EXCEPT !.hand = h].hand = h
      BY <1>1 DEF Locals
    <3> QED
      BY <3>1, <3>2
  <2>3. \/ table[m.prey] = None /\ Move(r, "evict", n)
        \/ table[m.prey] # None /\ Move(r, "claim", n)
    BY <1>6 DEF Fetch
  <2> HIDE DEF n
  <2> QED
    BY <1>6, <2>2, <2>3, QuietStep DEF Fetch, PCs, Hunting, Keyed, Handed
<1>7. CASE Recheck(r)
  <2>1. \/ closed /\ Move(r, "undo", m)
        \/ ~closed /\ Move(r, "touch", m)
    BY <1>7 DEF Recheck, Goto
  <2> QED
    BY <1>1, <1>2, <1>7, <2>1, QuietStep DEF Recheck, PCs, Keyed, Answerable, Handed
<1>8. CASE UndoAbort(r)
  BY <1>1, <1>8, QuietStep DEF UndoAbort, Goto, PCs, Handed
<1>9. CASE Touch(r)
  BY <1>1, <1>2, <1>9, QuietStep DEF Touch, Goto, PCs, Keyed, Handed
<1>10. CASE Deliver(r)
  <2>1. PICK p \in {"idle", "remove"} : Move(r, p, m)
    BY <1>10 DEF Deliver, Goto
  <2> QED
    BY <1>1, <1>2, <1>10, <2>1, QuietStep DEF Deliver, PCs, Keyed, Handed
<1>11. CASE Unlog(r)
  <2>1. PICK p \in {"idle", "sweep", "undoAbort"} :
          Move(r, p, m) /\ pc[r] \in {"unlog", "undoUnlog"}
    BY <1>11 DEF Unlog, Goto, After
  <2> QED
    BY <1>1, <1>11, <2>1, QuietStep DEF Unlog, PCs, Keyed, Answerable, Handed
<1> QED
  BY <1>3, <1>4, <1>5, <1>6, <1>7, <1>8, <1>9, <1>10, <1>11

LEMMA Balance ==
    ASSUME NEW o \in Nat, NEW g \in Nat, NEW o2 \in Nat, NEW g2 \in Nat, NEW P \in Nat,
           NEW A \in Nat, NEW dP \in Int, NEW a \in Int,
           o = g + P + A, o2 - o = (g2 - g) + dP + a
    PROVE  o2 = g2 + (P + dP) + (A + a)
OBVIOUS

LEMMA BelowBound ==
    ASSUME NEW P \in Int, NEW D \in Int, NEW M \in Nat, NEW N \in Nat, P < M, D <= N
    PROVE  P + D <= M + N - 1
OBVIOUS

\* The counters over a reader's step: dP entries more, and the balance is kept; the bound
\* holds because the step adds nothing past the check, or has just made it.
LEMMA CountStep ==
    ASSUME IndInv, CountInv, NEW r \in Readers, NEW p \in PCs, NEW m \in Locals, Move(r, p, m),
           NEW dP \in Int, Cardinality(Present)' = Cardinality(Present) + dP,
           opened' \in Nat, gone' \in Nat,
           opened' - opened = (gone' - gone) + dP + (IF p = "abortPrey" THEN 1 ELSE 0)
                              - (IF pc[r] = "abortPrey" THEN 1 ELSE 0),
           \/ dP + (IF p \in {"dial", "insert"} THEN 1 ELSE 0)
                 - (IF pc[r] \in {"dial", "insert"} THEN 1 ELSE 0) <= 0
           \/ Cardinality(Present)' < MaxSessions
    PROVE  CountInv'
<1> DEFINE A == Cardinality(ReadersAt({"abortPrey"}))
           D == Cardinality(ReadersAt({"dial", "insert"}))
           P == Cardinality(Present)
           N == Cardinality(Readers)
<1>0. r \in Threads
  BY DEF Threads
<1>1. P \in Nat /\ A \in Nat /\ D \in Nat /\ N \in Nat /\ MaxSessions \in Nat
  BY Tallies, BoundsAssumption
<1>2. A' = A + (IF p = "abortPrey" THEN 1 ELSE 0) - (IF pc[r] = "abortPrey" THEN 1 ELSE 0)
  <2>1. A' = A + (IF p \in {"abortPrey"} THEN 1 ELSE 0) - (IF pc[r] \in {"abortPrey"} THEN 1 ELSE 0)
    BY <1>0, Readership
  <2> QED
    BY <1>1, <2>1
<1>3. D' = D + (IF p \in {"dial", "insert"} THEN 1 ELSE 0)
             - (IF pc[r] \in {"dial", "insert"} THEN 1 ELSE 0)
  BY <1>0, Readership
<1>4. D' <= N
  <2>1. ReadersAt({"dial", "insert"})' \in SUBSET Readers
    BY DEF ReadersAt
  <2> QED
    BY <2>1, FS_Subset, BoundsAssumption
<1>5. opened = gone + P + A /\ P + D <= MaxSessions + N - 1 /\ opened \in Nat /\ gone \in Nat
  BY DEF CountInv, CountersAgree, TableBounded
<1>6. P' = P + dP
  OBVIOUS
<1> HIDE DEF A, D, P, N
<1>7. opened' = gone' + P' + A'
  <2>1. PICK a \in Int : a = (IF p = "abortPrey" THEN 1 ELSE 0) - (IF pc[r] = "abortPrey" THEN 1 ELSE 0)
    OBVIOUS
  <2>2. A' = A + a
    BY <1>1, <1>2, <2>1
  <2>3. opened' - opened = (gone' - gone) + dP + a
    BY <1>5, <2>1
  <2>4. opened \in Nat /\ gone \in Nat /\ opened = gone + P + A
    BY <1>5
  <2>5. \A o2, g2 \in Nat : o2 - opened = (g2 - gone) + dP + a => o2 = g2 + (P + dP) + (A + a)
    BY <1>1, <2>1, <2>4, Balance
  <2>6. opened' = gone' + (P + dP) + (A + a)
    BY <2>3, <2>5
  <2> QED
    BY <1>6, <2>2, <2>6
<1>8. P' + D' <= MaxSessions + N - 1
  <2>1. D' \in Int /\ P' \in Int
    BY <1>1, <1>3, <1>6
  <2>2. CASE dP + (IF p \in {"dial", "insert"} THEN 1 ELSE 0)
                - (IF pc[r] \in {"dial", "insert"} THEN 1 ELSE 0) <= 0
    <3>1. PICK d \in Int : d = (IF p \in {"dial", "insert"} THEN 1 ELSE 0)
                               - (IF pc[r] \in {"dial", "insert"} THEN 1 ELSE 0)
      OBVIOUS
    <3>2. D' = D + d
      BY <1>1, <1>3, <3>1
    <3>3. dP + d <= 0
      BY <2>2, <3>1
    <3> QED
      BY <1>1, <1>5, <1>6, <3>2, <3>3
  <2>3. CASE P' < MaxSessions
    BY <1>1, <1>4, <2>1, <2>3, BelowBound
  <2> QED
    BY <2>2, <2>3 DEF P
<1> QED
  BY <1>7, <1>8 DEF CountInv, CountersAgree, TableBounded, A, D, P, N

\* The check of the bound, and the eviction that finds nothing to evict.
LEMMA BoundKeeps ==
    ASSUME IndInv, TableInv, NEW r \in Readers, EvictIfNeeded(r) \/ PickAny(r)
    PROVE  TableInv'
<1> DEFINE m == my[r]
<1>1. /\ r \in Threads /\ r # Closer /\ m \in Locals
      /\ UNCHANGED <<closed, table, counters, left>>
      /\ pc[r] \in {"evict", "pickAny"}
  BY ThreadsAssumption DEF IndInv, Types, Threads, EvictIfNeeded, PickAny
<1>2. CASE Move(r, "pick", m)
  BY <1>1, <1>2, QuietStep DEF PCs, Keyed, Handed
<1>3. CASE \E k \in Present : Move(r, "fetch", [m EXCEPT !.prey = k])
  <2>1. PICK k \in Keys : Move(r, "fetch", [m EXCEPT !.prey = k])
    BY <1>3 DEF Present
  <2>2. [m EXCEPT !.prey = k] \in Locals
    BY <1>1, LocalsWritten
  <2> QED
    BY <1>1, <2>1, <2>2, QuietStep DEF PCs, Keyed, Hunting, Handed
<1>4. CASE Move(r, "dial", m) /\ Cardinality(Present) < MaxSessions
  <2>1. "dial" \in PCs /\ "dial" \notin Handed
    BY DEF PCs, Keyed, Handed
  <2>2. HandsFull'
    BY <1>1, <1>4, <2>1, HandStep DEF TableInv
  <2>3. /\ Present' = Present /\ Cardinality(Present) \in Nat /\ opened \in Nat /\ gone \in Nat
        /\ opened' = opened /\ gone' = gone
    BY <1>1, Tallies DEF Present, counters, TableInv, CountInv
  <2>4. Cardinality(Present)' = Cardinality(Present) + 0
        /\ Cardinality(Present)' < MaxSessions
        /\ opened' - opened = (gone' - gone) + 0 + (IF "dial" = "abortPrey" THEN 1 ELSE 0)
                              - (IF pc[r] = "abortPrey" THEN 1 ELSE 0)
    BY <1>1, <1>4, <2>3
  <2>5. CountInv'
    BY <1>1, <1>4, <2>1, <2>3, <2>4, CountStep DEF TableInv
  <2>6. \A k \in Keys : table'[k] = table[k] /\ table[k] # None /\ CloserCovers(k)
                        => CloserCovers(k)'
    BY <1>1, <1>4, <2>1, CloserStays
  <2>7. CloseInv'
    BY <1>1, <1>4, <2>1, <2>6, CoverStep DEF TableInv
  <2> QED
    BY <2>2, <2>5, <2>7 DEF TableInv
<1>5. Present = {} => Cardinality(Present) < MaxSessions
  BY FS_EmptySet, BoundsAssumption
<1>6. ~Full => Cardinality(Present) < MaxSessions
  BY Tallies, BoundsAssumption DEF Full
<1> QED
  BY <1>2, <1>3, <1>4, <1>5, <1>6 DEF EvictIfNeeded, PickAny, Goto

\* A reader takes an entry out of the table, or puts one in.
LEMMA EntrySteps ==
    ASSUME IndInv, TableInv, NEW r \in Readers, NEW p \in PCs, NEW m \in Locals, Move(r, p, m),
           closed' = closed, left' = left, p \in Handed => m.hand # None,
           CountInv',
           \A k \in Keys : \/ table'[k] = None \/ table'[k] = table[k]
                           \/ p = "recheck" /\ m.key = k /\ m.hand = table'[k],
           closed /\ pc[r] \in {"recheck", "undo"} =>
               table'[my[r].key] = None \/ table[my[r].key] # my[r].hand
    PROVE  TableInv'
<1>1. r \in Threads /\ r # Closer /\ left'[Closer] = left[Closer]
  BY ThreadsAssumption DEF Threads
<1>2. HandsFull'
  BY <1>1, HandStep DEF TableInv
<1>3. \A k \in Keys : table'[k] = table[k] /\ table[k] # None /\ CloserCovers(k)
                      => CloserCovers(k)'
  BY <1>1, CloserStays
<1>4. CloseInv'
  BY <1>1, <1>3, CoverStep DEF TableInv
<1> QED
  BY <1>2, <1>4 DEF TableInv

LEMMA EvictionKeeps ==
    ASSUME IndInv, TableInv, NEW r \in Readers, Claim(r) \/ AbortPrey(r)
    PROVE  TableInv'
<1> DEFINE m == my[r]
<1>1. /\ r \in Threads /\ m \in Locals /\ table \in [Keys -> Nat]
      /\ opened \in Nat /\ gone \in Nat /\ Cardinality(Present) \in Nat
      /\ closed' = closed /\ left' = left
  BY Tallies DEF IndInv, Types, Threads, TableInv, CountInv, Claim, AbortPrey
<1>2. CASE Claim(r)
  <2>1. /\ pc[r] = "claim" /\ m.prey \in Keys /\ m.hand # None
        /\ table' = RemoveIf(m.prey, m.hand) /\ opened' = opened /\ gone' = gone
    BY <1>1, <1>2 DEF IndInv, Fits, Hunting, TableInv, HandsFull, Handed, Claim, counters
  <2>2. CASE table[m.prey] = m.hand
    <3>1. Move(r, "abortPrey", m)
      BY <1>2, <2>2 DEF Claim, Goto
    <3>2. Cardinality(Present)' = Cardinality(Present) - 1
      BY <2>1, <2>2, EntryGoes
    <3>3. /\ "abortPrey" \in PCs /\ "abortPrey" \notin Handed /\ -1 \in Int
          /\ Cardinality(Present)' = Cardinality(Present) + (-1)
          /\ opened' - opened = (gone' - gone) + (-1) + (IF "abortPrey" = "abortPrey" THEN 1 ELSE 0)
                                - (IF pc[r] = "abortPrey" THEN 1 ELSE 0)
          /\ (-1) + (IF "abortPrey" \in {"dial", "insert"} THEN 1 ELSE 0)
                - (IF pc[r] \in {"dial", "insert"} THEN 1 ELSE 0) <= 0
      BY <1>1, <2>1, <3>2 DEF PCs, Keyed, Answerable, Handed
    <3>4. CountInv'
      BY <1>1, <2>1, <3>1, <3>3, CountStep DEF TableInv
    <3>5. \A k \in Keys : table'[k] = None \/ table'[k] = table[k]
      BY <1>1, <2>1 DEF RemoveIf
    <3> QED
      BY <1>1, <2>1, <3>1, <3>3, <3>4, <3>5, EntrySteps
  <2>3. CASE table[m.prey] # m.hand
    <3>1. Move(r, "evict", m) /\ table' = table
      BY <1>2, <2>1, <2>3 DEF Claim, Goto, RemoveIf
    <3> QED
      BY <1>1, <1>2, <2>1, <3>1, QuietStep DEF Claim, PCs, Keyed, Handed
  <2> QED
    BY <2>2, <2>3
<1>3. CASE AbortPrey(r)
  <2> DEFINE n == [m EXCEPT !.hand = None, !.prey = None]
  <2>1. /\ pc[r] = "abortPrey" /\ n \in Locals /\ Move(r, "evict", n) /\ table' = table
        /\ opened' = opened /\ gone' = gone + 1
    BY <1>1, <1>3 DEF AbortPrey, Locals, KeyOrNone, None
  <2> HIDE DEF n
  <2>2. /\ "evict" \in PCs /\ "evict" \notin Handed
        /\ Cardinality(Present)' = Cardinality(Present) + 0
        /\ opened' - opened = (gone' - gone) + 0 + (IF "evict" = "abortPrey" THEN 1 ELSE 0)
                              - (IF pc[r] = "abortPrey" THEN 1 ELSE 0)
        /\ 0 + (IF "evict" \in {"dial", "insert"} THEN 1 ELSE 0)
              - (IF pc[r] \in {"dial", "insert"} THEN 1 ELSE 0) <= 0
    BY <1>1, <2>1 DEF PCs, Keyed, Handed, Present
  <2>3. CountInv'
    BY <1>1, <2>1, <2>2, CountStep DEF TableInv
  <2> QED
    BY <1>1, <2>1, <2>2, <2>3, EntrySteps
<1> QED
  BY <1>2, <1>3

LEMMA BirthKeeps ==
    ASSUME IndInv, TableInv, NEW r \in Readers, Dial(r) \/ Insert(r)
    PROVE  TableInv'
<1> DEFINE m == my[r]
<1>1. /\ r \in Threads /\ m \in Locals /\ table \in [Keys -> Nat] /\ born \in Nat
      /\ opened \in Nat /\ gone \in Nat /\ Cardinality(Present) \in Nat
      /\ IsFiniteSet(Present) /\ closed' = closed /\ left' = left
  BY Tallies DEF IndInv, Types, Threads, TableInv, CountInv, Dial, Insert
<1>2. /\ \A p \in {"idle", "insert", "touch", "recheck"} : p \in PCs
      /\ "idle" \notin Handed
  BY DEF PCs, Keyed, Answerable, Handed
\* The reader leaves the steps past the check with nothing in the table.
<1>3. ASSUME pc[r] \in {"dial", "insert"}, NEW p \in {"idle", "insert", "touch"},
             NEW n \in Locals, Move(r, p, n), p # "idle" => n.hand # None,
             table' = table, opened' = opened, gone' = gone
      PROVE  TableInv'
  <2>1. /\ Cardinality(Present)' = Cardinality(Present) + 0
        /\ opened' - opened = (gone' - gone) + 0 + (IF p = "abortPrey" THEN 1 ELSE 0)
                              - (IF pc[r] = "abortPrey" THEN 1 ELSE 0)
        /\ 0 + (IF p \in {"dial", "insert"} THEN 1 ELSE 0)
              - (IF pc[r] \in {"dial", "insert"} THEN 1 ELSE 0) <= 0
    BY <1>1, <1>3 DEF Present
  <2>2. CountInv'
    BY <1>1, <1>2, <1>3, <2>1, CountStep DEF TableInv
  <2> QED
    BY <1>1, <1>2, <1>3, <2>2, EntrySteps
<1>4. CASE Dial(r)
  <2>1. pc[r] = "dial" /\ table' = table /\ opened' = opened /\ gone' = gone
    BY <1>4 DEF Dial, counters
  <2>2. CASE Goto(r, "idle")
    BY <1>1, <1>3, <2>1, <2>2 DEF Goto
  <2>3. CASE Move(r, "insert", [m EXCEPT !.hand = born + 1, !.prey = None])
    <3> DEFINE n == [m EXCEPT !.hand = born + 1, !.prey = None]
    <3>1. PICK b \in Nat : b = born + 1
      BY <1>1
    <3>2. /\ [m EXCEPT !.hand = b, !.prey = None] \in Locals
          /\ [m EXCEPT !.hand = b, !.prey = None].hand = b
      BY <1>1 DEF Locals, KeyOrNone, None
    <3>3. n \in Locals /\ n.hand # None
      BY <1>1, <3>1, <3>2 DEF None
    <3> HIDE DEF n
    <3>4. Move(r, "insert", n)
      BY <2>3 DEF n
    <3> QED
      BY <1>3, <2>1, <3>3, <3>4
  <2> QED
    BY <1>4, <2>2, <2>3 DEF Dial
<1>5. CASE Insert(r)
  <2>1. /\ pc[r] = "insert" /\ gone' = gone /\ m.key \in Keys /\ m.hand # None
        /\ table[m.key] \in Nat
    BY <1>1, <1>5 DEF Insert, IndInv, Fits, Keyed, Answerable, TableInv, HandsFull, Handed
  <2>2. CASE /\ table[m.key] = None /\ Move(r, "recheck", m)
             /\ table' = [table EXCEPT ![m.key] = m.hand] /\ opened' = opened + 1
    <3>1. Present' = Present \cup {m.key} /\ m.key \notin Present
      BY <1>1, <2>1, <2>2 DEF Present
    <3>2. Cardinality(Present)' = Cardinality(Present) + 1
      BY <1>1, <3>1, FS_AddElement
    <3>3. /\ opened' - opened = (gone' - gone) + 1 + (IF "recheck" = "abortPrey" THEN 1 ELSE 0)
                                - (IF pc[r] = "abortPrey" THEN 1 ELSE 0)
          /\ 1 + (IF "recheck" \in {"dial", "insert"} THEN 1 ELSE 0)
                - (IF pc[r] \in {"dial", "insert"} THEN 1 ELSE 0) <= 0
          /\ opened' \in Nat /\ gone' \in Nat
      BY <1>1, <2>1, <2>2
    <3>4. CountInv'
      <4>1. CountInv /\ "recheck" \in PCs /\ 1 \in Int /\ Move(r, "recheck", m)
        BY <1>2, <2>2 DEF TableInv
      <4> HIDE DEF m
      <4> QED
        BY <1>1, <3>2, <3>3, <4>1, CountStep
    <3>5. \A k \in Keys : table'[k] = table[k] \/ (m.key = k /\ m.hand = table'[k])
      BY <1>1, <2>1, <2>2
    <3> QED
      BY <1>1, <1>2, <2>1, <2>2, <3>4, <3>5, EntrySteps
  <2>3. CASE /\ table[m.key] # None /\ Move(r, "touch", [m EXCEPT !.hand = table[m.key]])
             /\ table' = table /\ opened' = opened
    <3> DEFINE n == [m EXCEPT !.hand = table[m.key]]
    <3>1. n \in Locals /\ n.hand = table[m.key]
      BY <1>1, <2>1 DEF Locals
    <3> HIDE DEF n
    <3>2. Move(r, "touch", n)
      BY <2>3 DEF n
    <3> QED
      BY <1>3, <2>1, <2>3, <3>1, <3>2
  <2> QED
    BY <1>5, <2>2, <2>3 DEF Insert, Goto
<1> QED
  BY <1>4, <1>5

\* removeSession, by a reader or by a sweep.
LEMMA RemovalKeeps ==
    ASSUME IndInv, TableInv, NEW t \in Threads, RemoveSession(t)
    PROVE  TableInv'
<1> DEFINE m == my[t]
           k == m.key
           s == m.hand
<1>1. /\ m \in Locals /\ k \in Keys /\ s # None /\ pc[t] \in {"remove", "undo"}
      /\ table' = RemoveIf(k, s) /\ gone' = Counted(k, s) /\ opened' = opened
      /\ closed' = closed /\ left' = left /\ table \in [Keys -> Nat]
      /\ opened \in Nat /\ gone \in Nat
  BY DEF IndInv, Types, Fits, Keyed, Answerable, TableInv, HandsFull, Handed, CountInv,
         RemoveSession
<1>2. PICK p \in {"unlog", "idle", "sweep", "undoUnlog", "undoAbort"} :
         /\ Move(t, p, m) /\ (t \notin Readers => p \in {"unlog", "sweep"})
  BY DEF RemoveSession, Goto, After, IndInv, Fits, Answerable
<1>3. p \in PCs /\ p \notin Handed /\ p # "abortPrey" /\ p \notin {"dial", "insert"}
  BY DEF PCs, Keyed, Answerable, Handed
<1>4. \A x \in Keys : table'[x] = None \/ table'[x] = table[x]
  BY <1>1 DEF RemoveIf
<1>5. table'[k] = None \/ table[k] # s
  BY <1>1 DEF RemoveIf
<1>6. CountInv'
  <2> DEFINE A == Cardinality(ReadersAt({"abortPrey"}))
             D == Cardinality(ReadersAt({"dial", "insert"}))
             P == Cardinality(Present)
             N == Cardinality(Readers)
  <2>1. P \in Nat /\ A \in Nat /\ D \in Nat /\ N \in Nat /\ MaxSessions \in Nat
    BY Tallies, BoundsAssumption
  <2>2. A' = A /\ D' = D
    <3>1. CASE t \in Readers
      <4>1. /\ A' = A + (IF p \in {"abortPrey"} THEN 1 ELSE 0)
                      - (IF pc[t] \in {"abortPrey"} THEN 1 ELSE 0)
            /\ D' = D + (IF p \in {"dial", "insert"} THEN 1 ELSE 0)
                      - (IF pc[t] \in {"dial", "insert"} THEN 1 ELSE 0)
        BY <1>1, <1>2, <1>3, <3>1, Readership
      <4> QED
        BY <1>1, <1>3, <2>1, <4>1
    <3>2. CASE t \notin Readers
      BY <1>1, <1>2, <1>3, <3>2, Readership
    <3> QED
      BY <3>1, <3>2
  <2>3. \/ P' = P - 1 /\ gone' = gone + 1
        \/ P' = P /\ gone' = gone
    <3>1. /\ table[k] = s => P' = P - 1
          /\ table[k] # s => Present' = Present
      BY <1>1, EntryGoes
    <3> QED
      BY <1>1, <3>1 DEF Counted
  <2>4. opened = gone + P + A /\ P + D <= MaxSessions + N - 1
    BY DEF TableInv, CountInv, CountersAgree, TableBounded
  <2> HIDE DEF A, D, P, N
  <2>5. gone' \in Nat /\ opened = gone' + P' + A /\ P' + D <= MaxSessions + N - 1
    BY <1>1, <2>1, <2>3, <2>4
  <2> QED
    BY <1>1, <2>2, <2>5 DEF CountInv, CountersAgree, TableBounded, A, D, P, N
<1>7. HandsFull'
  BY <1>1, <1>2, <1>3, HandStep DEF TableInv
<1>8. \A x \in Keys : table'[x] = table[x] /\ table[x] # None /\ CloserCovers(x)
                      => CloserCovers(x)'
  <2>1. CASE t # Closer
    BY <1>1, <1>2, <1>3, <2>1, CloserStays
  <2>2. CASE t = Closer
    <3>1. pc[Closer] = "remove" /\ pc'[Closer] # "idle"
      <4>1. pc'[t] = p
        BY <1>1, <1>2, <1>3, Moved DEF IndInv, Types
      <4> QED
        BY <1>1, <1>2, <2>2, <4>1, ThreadsAssumption DEF IndInv, Fits, Answerable
    <3> QED
      BY <1>1, <1>5, <2>2, <3>1 DEF CloserCovers
  <2> QED
    BY <2>1, <2>2
<1>9. CloseInv'
  BY <1>1, <1>2, <1>3, <1>4, <1>5, <1>8, CoverStep DEF TableInv
<1> QED
  BY <1>6, <1>7, <1>9 DEF TableInv

\* A sweep's visit: close() ends every session it finds.
LEMMA VisitCounts ==
    ASSUME IndInv, TableInv, NEW t \in Sweepers, NEW k \in left[t], NEW end \in BOOLEAN,
           Visit(t, k, end), end => table[k] # None, t = Closer => (end <=> table[k] # None)
    PROVE  TableInv'
<1> DEFINE m == [NoLocals EXCEPT !.key = k, !.hand = table[k]]
           p == IF end THEN "remove" ELSE "sweep"
<1>1. /\ t \in Threads /\ t \notin Readers /\ k \in Keys /\ pc[t] = "sweep" /\ Closer \in Sweepers
      /\ left \in [Sweepers -> SUBSET Keys] /\ left' = [left EXCEPT ![t] = left[t] \ {k}]
      /\ table' = table /\ UNCHANGED counters /\ closed' = closed /\ Move(t, p, m)
      /\ table \in [Keys -> Nat]
  BY ThreadsAssumption DEF IndInv, Types, Threads, Sweepers, Visit
<1>2. m \in Locals /\ m.key = k /\ m.hand = table[k]
  BY <1>1 DEF Locals, KeyOrNone, NoLocals, None
<1>3. p \in PCs /\ (p \in Handed => end) /\ (end => p = "remove") /\ p # "idle"
  BY DEF PCs, Keyed, Handed
<1> HIDE DEF m, p
<1>4. HandsFull'
  BY <1>1, <1>2, <1>3, HandStep DEF TableInv
<1>5. CountInv'
  BY <1>1, <1>2, <1>3, QuietCount DEF TableInv
<1>6. \A x \in Keys : table'[x] = table[x] /\ table[x] # None /\ CloserCovers(x)
                      => CloserCovers(x)'
  <2>1. CASE t # Closer
    BY <1>1, <1>2, <1>3, <2>1, CloserStays
  <2>2. ASSUME t = Closer, NEW x \in Keys, table[x] # None, CloserCovers(x)
        PROVE  CloserCovers(x)'
    <3>1. pc'[t] = p /\ (end => my'[t] = m)
      BY <1>1, <1>2, <1>3, Moved DEF IndInv, Types
    <3>2. x \in left[t]
      BY <1>1, <2>2 DEF CloserCovers
    <3>3. CASE x # k
      BY <1>1, <1>3, <2>2, <3>1, <3>2, <3>3 DEF CloserCovers
    <3>4. CASE x = k
      BY <1>1, <1>2, <1>3, <2>2, <3>1, <3>4 DEF CloserCovers
    <3> QED
      BY <3>3, <3>4
  <2> QED
    BY <2>1, <2>2
<1>7. CloseInv'
  BY <1>1, <1>2, <1>3, <1>6, CoverStep DEF TableInv
<1> QED
  BY <1>4, <1>5, <1>7 DEF TableInv

\* The steps of a sweep between its visits, close() setting `closed` among them.
LEMMA SweepCounts ==
    ASSUME IndInv, TableInv,
           \/ TickStart \/ TickEnd \/ CloseStart \/ CloseIterate \/ CloseEnd
           \/ Unlog(Ticker) \/ Unlog(Closer)
    PROVE  TableInv'
<1>1. PICK t \in Sweepers, p \in {"idle", "closing", "sweep"} :
         /\ Move(t, p, my[t]) /\ table' = table /\ UNCHANGED counters
         /\ \/ (TickStart \/ TickEnd \/ Unlog(Ticker)) /\ t = Ticker
            \/ CloseStart /\ t = Closer /\ p = "closing"
            \/ CloseIterate /\ t = Closer /\ p = "sweep"
            \/ CloseEnd /\ t = Closer
            \/ Unlog(Closer) /\ t = Closer /\ p = "sweep"
  <2>1. pc[Ticker] \notin Answerable /\ pc[Closer] \notin Answerable
    BY ThreadsAssumption DEF IndInv, Fits, Threads, Sweepers
  <2>2. ASSUME NEW t \in Sweepers, Unlog(t), pc[t] \notin Answerable
        PROVE  Move(t, "sweep", my[t]) /\ table' = table /\ UNCHANGED counters
    BY <2>2, ThreadsAssumption DEF Unlog, Goto, After, Answerable, Sweepers
  <2>3. Ticker \in Sweepers /\ Closer \in Sweepers
    BY DEF Sweepers
  <2>4. ASSUME TickStart \/ TickEnd
        PROVE  /\ table' = table /\ UNCHANGED counters
               /\ Move(Ticker, "sweep", my[Ticker]) \/ Move(Ticker, "idle", my[Ticker])
    BY <2>4 DEF TickStart, TickEnd, Goto
  <2>5. CloseStart => table' = table /\ UNCHANGED counters /\ Move(Closer, "closing", my[Closer])
    BY DEF CloseStart, Goto
  <2>6. CloseIterate => table' = table /\ UNCHANGED counters /\ Move(Closer, "sweep", my[Closer])
    BY DEF CloseIterate, Goto
  <2>7. CloseEnd => table' = table /\ UNCHANGED counters /\ Move(Closer, "idle", my[Closer])
    BY DEF CloseEnd, Goto
  <2>8. CASE TickStart \/ TickEnd \/ Unlog(Ticker)
    BY <2>1, <2>2, <2>3, <2>4, <2>8
  <2>9. CASE CloseStart \/ CloseIterate \/ CloseEnd \/ Unlog(Closer)
    BY <2>1, <2>2, <2>3, <2>5, <2>6, <2>7, <2>9
  <2> QED
    BY <2>8, <2>9
<1>2. /\ t \in Threads /\ t \notin Readers /\ my[t] \in Locals /\ p \in PCs /\ p \notin Handed
      /\ left \in [Sweepers -> SUBSET Keys] /\ Closer \in Sweepers /\ Ticker # Closer
  BY ThreadsAssumption DEF IndInv, Types, Threads, Sweepers, PCs, Handed
<1>3. HandsFull'
  BY <1>1, <1>2, HandStep DEF TableInv
<1>4. CountInv'
  BY <1>1, <1>2, QuietCount DEF TableInv
<1>5. pc'[t] = p /\ (t = Closer => pc'[Closer] = p)
  BY <1>1, <1>2, Moved DEF IndInv, Types
<1>6. CASE CloseStart
  <2>1. t = Closer /\ p = "closing" /\ closed' = TRUE
    <3>1. pc[Closer] = "idle" /\ ~closed /\ Goto(Closer, "closing") /\ closed' = TRUE
      BY <1>6 DEF CloseStart
    <3>2. t # Ticker
      <4> SUFFICES ASSUME t = Ticker PROVE FALSE
        OBVIOUS
      <4>1. TickStart \/ TickEnd \/ Unlog(Ticker)
        BY <1>1, <1>2
      <4>2. closed' = closed
        BY <4>1 DEF TickStart, TickEnd, Unlog
      <4> QED
        BY <3>1, <4>2
    <3>3. ~CloseIterate /\ ~CloseEnd /\ ~Unlog(Closer)
      BY <3>1 DEF CloseIterate, CloseEnd, Unlog
    <3> QED
      BY <1>1, <3>1, <3>2, <3>3
  <2>2. CloseInv'
    BY <1>5, <2>1 DEF CloseInv, Covered, CloserCovers
  <2> QED
    BY <1>3, <1>4, <2>2 DEF TableInv
<1>7. CASE ~CloseStart
  <2>1. closed' = closed
    BY <1>1, <1>7 DEF TickStart, TickEnd, CloseIterate, CloseEnd, Unlog
  <2>2. \A x \in Keys : table'[x] = table[x] /\ table[x] # None /\ CloserCovers(x)
                        => CloserCovers(x)'
    <3>1. CASE t = Ticker
      <4>1. left'[Closer] = left[Closer]
        BY <1>1, <1>2, <3>1 DEF TickStart, TickEnd, Unlog, Iterate
      <4> QED
        BY <1>1, <1>2, <3>1, <4>1, CloserStays
    <3>2. CASE t = Closer /\ CloseIterate /\ p = "sweep"
      <4>1. \A x \in Keys : table[x] # None => x \in left'[Closer]
        BY <1>2, <3>2 DEF CloseIterate, Iterate, Present
      <4> QED
        BY <1>5, <3>2, <4>1 DEF CloserCovers
    <3>3. CASE t = Closer /\ CloseEnd
      BY <3>3 DEF CloseEnd, CloserCovers
    <3>4. CASE t = Closer /\ Unlog(Closer) /\ p = "sweep"
      BY <1>5, <3>4 DEF Unlog, CloserCovers
    <3> QED
      BY <1>1, <1>2, <1>7, <3>1, <3>2, <3>3, <3>4
  <2>3. CloseInv'
    BY <1>1, <1>2, <2>1, <2>2, CoverStep DEF TableInv
  <2> QED
    BY <1>3, <1>4, <2>3 DEF TableInv
<1> QED
  BY <1>6, <1>7

LEMMA OutsideCounts ==
    ASSUME TableInv, UNCHANGED <<closed, table, counters, pc, my, left>>
    PROVE  TableInv'
<1>1. Present' = Present /\ \A ps : ReadersAt(ps)' = ReadersAt(ps)
  BY DEF Present, ReadersAt
<1>2. HandsFull'
  BY DEF TableInv, HandsFull
<1>3. CountInv'
  BY <1>1 DEF TableInv, CountInv, CountersAgree, TableBounded, counters
<1>4. CloseInv'
  BY <1>1 DEF TableInv, CloseInv, Covered, CloserCovers
<1> QED
  BY <1>2, <1>3, <1>4 DEF TableInv

LEMMA InitTable == Init => TableInv
<1> SUFFICES ASSUME Init PROVE TableInv
  OBVIOUS
<1>1. HandsFull
  BY DEF Init, HandsFull, Handed
<1>2. CloseInv
  BY DEF Init, CloseInv
<1>3. Present = {} /\ ReadersAt({"abortPrey"}) = {} /\ ReadersAt({"dial", "insert"}) = {}
  BY DEF Init, Present, ReadersAt, Threads
<1>4. Cardinality(Readers) \in Nat /\ MaxSessions \in Nat \ {0}
  BY BoundsAssumption, FS_CardinalityType
<1>5. opened = 0 /\ gone = 0
  BY DEF Init
<1>6. CountersAgree
  BY <1>3, <1>5, FS_EmptySet DEF CountersAgree
<1>7. TableBounded
  BY <1>3, <1>4, FS_EmptySet DEF TableBounded
<1> QED
  BY <1>1, <1>2, <1>5, <1>6, <1>7 DEF TableInv, CountInv

LEMMA NextTable ==
    ASSUME IndInv, TableInv, [Next]_vars
    PROVE  TableInv'
<1>1. ASSUME NEW r \in Readers, Enter(r) \/ ReaderStep(r) PROVE TableInv'
  <2>1. r \in Threads
    BY DEF Threads
  <2> QED
    BY <1>1, <2>1, QuietReads, BoundKeeps, EvictionKeeps, BirthKeeps, RemovalKeeps
    DEF ReaderStep
<1>2. CASE TickStep
  <2>1. CASE TickVisit
    <3>1. PICK k \in left[Ticker], end \in BOOLEAN :
            Visit(Ticker, k, end) /\ (end => table[k] # None)
      BY <2>1 DEF TickVisit, Ended
    <3> QED
      BY <3>1, VisitCounts, ThreadsAssumption DEF Sweepers
  <2> QED
    BY <1>2, <2>1, SweepCounts, RemovalKeeps DEF TickStep, Threads, Sweepers
<1>3. CASE CloseStart \/ CloseStep
  <2>1. CASE CloseVisit
    <3>1. PICK k \in left[Closer] : Visit(Closer, k, table[k] # None)
      BY <2>1 DEF CloseVisit
    <3>2. PICK end \in BOOLEAN : end = (table[k] # None)
      OBVIOUS
    <3> QED
      BY <3>1, <3>2, VisitCounts DEF Sweepers
  <2> QED
    BY <1>3, <2>1, SweepCounts, RemovalKeeps DEF CloseStep, Threads, Sweepers
<1>4. CASE UpstreamFails
  BY <1>4, OutsideCounts DEF UpstreamFails
<1>5. CASE UNCHANGED vars
  BY <1>5, OutsideCounts DEF vars
<1> QED
  BY <1>1, <1>2, <1>3, <1>4, <1>5 DEF Next

LEMMA TableInvariant == Spec => [](IndInv /\ TableInv)
<1>1. IndInv /\ TableInv /\ [Next]_vars => (IndInv /\ TableInv)'
  BY NextInd, NextTable
<1> QED
  BY <1>1, InitInd, InitTable, PTL DEF Spec

\* Every birth and every end is counted once, whichever threads met on it: flowsOpened is
\* flowsClosed and the flows there are.
THEOREM CountersAreRight == Spec => []CountersAgree
<1>1. IndInv /\ TableInv => CountersAgree
  BY DEF TableInv, CountInv
<1> QED
  BY <1>1, TableInvariant, PTL

\* maxSessions is passed by the readers that are past the check together, and by no more.
THEOREM TableStaysBounded == Spec => []TableBounded
<1>1. IndInv /\ TableInv => TableBounded
  BY DEF TableInv, CountInv
<1> QED
  BY <1>1, TableInvariant, PTL

\* Once close() has returned and the readers have left, neither a session nor an entry of
\* the dispatcher lives on.
THEOREM CloseLeavesNothing == Spec => []ClosedIsEmpty
<1>1. IndInv /\ TableInv => ClosedIsEmpty
  <2> SUFFICES ASSUME IndInv, TableInv, closed, \A t \in Threads : pc[t] = "idle"
               PROVE  live = {} /\ Present = {}
    BY DEF ClosedIsEmpty
  <2>1. \A t \in Threads : pc[t] = "idle"
    OBVIOUS
  <2>2. pc[Closer] = "idle" /\ \A r \in Readers : pc[r] = "idle"
    BY <2>1 DEF Threads, Sweepers
  <2>3. Present = {}
    BY <2>2 DEF TableInv, CloseInv, Covered, CloserCovers
  <2>4. \A s \in live : \E k \in Keys : table[k] = s
    BY <2>2 DEF IndInv, NoLeak, ReadersAt
  <2>5. None \notin live
    BY DEF IndInv, Types, None
  <2> QED
    BY <2>3, <2>4, <2>5 DEF Present
<1> QED
  BY <1>1, TableInvariant, PTL

=============================================================================
