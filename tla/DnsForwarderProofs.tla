------------------------- MODULE DnsForwarderProofs -------------------------
(***************************************************************************)
(* TLAPS proofs that the DNS relay answers each question with its own      *)
(* answer and at most once, loses and mints no slot, keeps its bound and   *)
(* keeps every waiting query timed, for any ids, questions and bounds.     *)
(*                                                                         *)
(* Three invariants, each proved from the one before: the types; Counted,  *)
(* which follows how many slots are filled and given up; and Identified,   *)
(* which follows which query is where.                                     *)
(***************************************************************************)
EXTENDS DnsForwarder, FiniteSetTheorems, TLAPS

Asked == [id : Ids, question : Questions]
ReaderPCs == {"idle", "evict", "any", "alloc", "victim", "unlog", "insert", "track", "send",
              "unlogFailed", "closing", "clear", "closed"}
ReceiverPCs == {"check", "receive", "backoff", "peek", "claim", "unlog", "done"}
TimerPCs == {"off", "armed", "due", "unlog"}
\* Before the id is drawn, after it, and with a datagram in hand.
Evicting == {"evict", "any", "alloc", "victim", "unlog"}
Filing == {"insert", "track", "send", "unlogFailed"}
Holding == {"peek", "claim", "unlog"}

Types ==
    /\ closed \in BOOLEAN /\ active \in BOOLEAN
    /\ pending \in [Ids -> Nat]
    /\ lru \in Seq(Ids)
    /\ queries \in Seq(Asked)
    /\ timer \in [1..MaxQueries -> TimerPCs]
    /\ sent \in SUBSET Asked
    /\ counts \in [timedOut : Nat, evicted : Nat, replied : Nat, failed : Nat]
    /\ reader \in [pc : ReaderPCs, id : Ids \cup {None}, query : Nat]
    /\ receiver \in [pc : ReceiverPCs, id : Ids \cup {None},
                     question : Questions \cup {None}, peeked : Nat]
    /\ reader.pc = "victim" => reader.id \in Ids
    /\ receiver.pc \in Holding => receiver.id \in Ids
    /\ Newest <= MaxQueries
    /\ reader.pc \in Evicting => Newest < MaxQueries
    /\ reader.pc \in Filing => Newest >= 1

-----------------------------------------------------------------------------

\* Deleting an id from the log leaves a log of ids.
LEMMA Unlogged ==
    ASSUME NEW q \in Seq(Ids), NEW id
    PROVE  Without(q, id) \in Seq(Ids)
<1>1. CASE \E i \in 1..Len(q) : q[i] = id
  <2> DEFINE j == CHOOSE i \in 1..Len(q) : q[i] = id
  <2>1. j \in 1..Len(q)
    BY <1>1
  <2>2. Without(q, id) = SubSeq(q, 1, j - 1) \o SubSeq(q, j + 1, Len(q))
    BY <1>1 DEF Without, RemoveAt
  <2> HIDE DEF j
  <2> QED
    BY <2>1, <2>2
<1>2. CASE ~\E i \in 1..Len(q) : q[i] = id
  BY <1>2 DEF Without
<1> QED
  BY <1>1, <1>2

\* A step of the reader to pc p keeps what it evicts.
LEMMA ReaderAt ==
    ASSUME Types, NEW p \in ReaderPCs, Goto(p)
    PROVE  /\ reader' \in [pc : ReaderPCs, id : Ids \cup {None}, query : Nat]
           /\ reader'.pc = p /\ reader'.id = reader.id /\ reader'.query = reader.query
BY DEF Types, Goto

\* The receiver drops its datagram on its way to pc p.
LEMMA ReceiverAt ==
    ASSUME NEW p \in ReceiverPCs, ReceiverGoto(p)
    PROVE  /\ receiver' \in [pc : ReceiverPCs, id : Ids \cup {None},
                             question : Questions \cup {None}, peeked : Nat]
           /\ receiver'.pc = p
BY DEF ReceiverGoto, NoDatagram, None

\* Cancelling a timer keeps it a timer, and changes no timer but an armed one.
LEMMA CancelledTimer ==
    ASSUME Types, NEW q
    PROVE  /\ Cancelled(q) \in [1..MaxQueries -> TimerPCs]
           /\ \A k \in 1..MaxQueries : k # q => Cancelled(q)[k] = timer[k]
           /\ \A k \in 1..MaxQueries : Cancelled(q)[k] = "unlog" <=> timer[k] = "unlog"
BY DEF Types, Cancelled, TimerPCs

\* So does cancelling them all.
LEMMA NoneArmedTimer ==
    ASSUME Types
    PROVE  /\ NoneArmed \in [1..MaxQueries -> TimerPCs]
           /\ \A k \in 1..MaxQueries : NoneArmed[k] = "unlog" <=> timer[k] = "unlog"
BY DEF Types, NoneArmed, TimerPCs

\* Every query has an id and a question.
LEMMA AskedIs ==
    ASSUME Types, NEW q \in Query
    PROVE  queries[q] \in Asked /\ queries[q].id \in Ids /\ Newest \in Nat
<1>1. queries \in Seq(Asked) /\ q \in 1..Len(queries)
  BY DEF Types, Query, Newest
<1>2. queries[q] \in Asked /\ Len(queries) \in Nat
  BY <1>1
<1> QED
  BY <1>2 DEF Asked, Newest

LEMMA InitTypes == Init => Types
<1> SUFFICES ASSUME Init PROVE Types
  OBVIOUS
<1>1. /\ pending \in [Ids -> Nat] /\ timer \in [1..MaxQueries -> TimerPCs]
      /\ lru \in Seq(Ids) /\ queries \in Seq(Asked) /\ Newest = 0
  BY DEF Init, TimerPCs, None, Newest
<1>2. counts \in [timedOut : Nat, evicted : Nat, replied : Nat, failed : Nat]
  BY DEF Init
<1>3. /\ reader \in [pc : ReaderPCs, id : Ids \cup {None}, query : Nat]
      /\ reader.pc = "idle"
  BY DEF Init, ReaderPCs, None
<1>4. /\ receiver \in [pc : ReceiverPCs, id : Ids \cup {None},
                       question : Questions \cup {None}, peeked : Nat]
      /\ receiver.pc = "check"
  BY DEF Init, ReceiverPCs, None
<1>5. closed \in BOOLEAN /\ active \in BOOLEAN /\ sent \in SUBSET Asked
  BY DEF Init
<1> QED
  BY <1>1, <1>2, <1>3, <1>4, <1>5, BoundsAssumption DEF Types, Evicting, Filing, Holding

LEMMA ForwardTypes ==
    ASSUME Types, Enter \/ ForwardStep
    PROVE  Types'
<1>1. CASE Enter
  BY <1>1, ReaderAt DEF Enter, Types, ReaderPCs, Evicting, Filing, Newest, slots, history
<1>2. CASE PickEldest
  <2>1. Head(lru) \in Ids /\ Tail(lru) \in Seq(Ids)
    BY <1>2 DEF PickEldest, Types
  <2> QED
    BY <1>2, <2>1 DEF PickEldest, Victim, Types, ReaderPCs, Evicting, Filing, Newest, slots, history
<1>3. CASE LogIsEmpty
  BY <1>3, ReaderAt DEF LogIsEmpty, Types, ReaderPCs, Evicting, Filing, Newest, slots, history
<1>4. CASE PickAny
  <2>1. CASE Goto("alloc")
    BY <1>4, <2>1, ReaderAt DEF PickAny, Types, ReaderPCs, Evicting, Filing, Newest, slots, history
  <2>2. CASE \E id \in Present : Victim(id)
    BY <1>4, <2>2 DEF PickAny, Victim, Present, Types, ReaderPCs, Evicting, Filing,
           Newest, slots, history
  <2> QED
    BY <1>4, <2>1, <2>2 DEF PickAny
<1>5. CASE Evict
  <2>1. CASE Goto("evict")
    BY <1>5, <2>1, ReaderAt
    DEF Evict, Vacate, None, Types, ReaderPCs, Evicting, Filing, Newest, slots, history
  <2>2. CASE reader' = [reader EXCEPT !.pc = "unlog", !.query = pending[reader.id]]
    BY <1>5, <2>2 DEF Evict, Vacate, None, Types, ReaderPCs, Evicting, Filing, Newest,
           slots, history
  <2> QED
    BY <1>5, <2>1, <2>2 DEF Evict
<1>6. CASE Evicted
  <2>1. PICK n \in Nat : n = counts.evicted + 1
    BY DEF Types
  <2>2. counts' = [counts EXCEPT !.evicted = n]
    BY <1>6, <2>1 DEF Evicted, Types
  <2> QED
    BY <1>6, <2>2, ReaderAt, CancelledTimer, Unlogged
    DEF Evicted, Unlog, Types, ReaderPCs, Evicting, Filing, Newest, slots, history
<1>7. CASE Alloc
  <2>1. PICK id \in Ids, question \in Questions :
            queries' = Append(queries, [id |-> id, question |-> question])
    BY <1>7 DEF Alloc, FreeIds
  <2>2. [id |-> id, question |-> question] \in Asked
    BY DEF Asked
  <2>3. queries' \in Seq(Asked) /\ Len(queries') = Len(queries) + 1
    BY <2>1, <2>2 DEF Types
  <2>4. timer' \in [1..MaxQueries -> TimerPCs]
    BY <1>7 DEF Alloc, Types, TimerPCs
  <2>5. /\ Goto("insert") /\ reader.pc \in Evicting
        /\ UNCHANGED <<closed, active, slots, sent, counts, receiver>>
    BY <1>7 DEF Alloc, Evicting
  <2>6. Newest' = Newest + 1 /\ Newest \in Nat /\ MaxQueries \in Nat /\ Newest < MaxQueries
    BY <2>3, <2>5, BoundsAssumption DEF Types, Newest
  <2> QED
    BY <2>3, <2>4, <2>5, <2>6, ReaderAt DEF Types, ReaderPCs, Evicting, Filing, slots
<1>8. CASE Insert
  <2>1. pending' \in [Ids -> Nat]
    <3>1. pending \in [Ids -> Nat] /\ Newest \in Nat
      BY DEF Types, Newest
    <3>2. pending' = [pending EXCEPT ![queries[Newest].id] = Newest]
      BY <1>8 DEF Insert
    <3> HIDE DEF Types
    <3> QED
      BY <3>1, <3>2
  <2> QED
    BY <1>8, <2>1, ReaderAt DEF Insert, Types, ReaderPCs, Evicting, Filing, Newest, history
<1>9. CASE Track
  <2>1. queries[Newest] \in Asked /\ queries[Newest].id \in Ids
    <3>1. Newest \in Query
      BY <1>9 DEF Track, Types, Filing, Newest, Query
    <3> QED
      BY <3>1, AskedIs
  <2>2. Append(Without(lru, queries[Newest].id), queries[Newest].id) \in Seq(Ids)
    BY <2>1, Unlogged DEF Types
  <2> QED
    BY <1>9, <2>2, ReaderAt DEF Track, Types, ReaderPCs, Evicting, Filing, Newest, slots, history
<1>10. CASE Send
  <2>1. queries[Newest] \in Asked
    BY <1>10 DEF Send, Types, Filing, Newest, slots, history
  <2> QED
    BY <1>10, <2>1, ReaderAt DEF Send, Types, ReaderPCs, Evicting, Filing, Newest, slots, history
<1>11. CASE SendThrows
  BY <1>11, ReaderAt
  DEF SendThrows, Vacate, None, Types, ReaderPCs, Evicting, Filing, Newest, slots, history
<1>12. CASE Failed
  <2>1. PICK n \in Nat : n = counts.failed + 1
    BY DEF Types
  <2>2. counts' = [counts EXCEPT !.failed = n]
    BY <1>12, <2>1 DEF Failed, Types
  <2> QED
    BY <1>12, <2>2, ReaderAt, CancelledTimer, Unlogged
    DEF Failed, Unlog, Types, ReaderPCs, Evicting, Filing, Newest, slots, history
<1> QED
  BY <1>1, <1>2, <1>3, <1>4, <1>5, <1>6, <1>7, <1>8, <1>9, <1>10, <1>11, <1>12
  DEF ForwardStep

LEMMA OthersTypes ==
    ASSUME Types,
           \/ CloseStart \/ CloseStep \/ Teardown \/ \E q \in Query : TimerStep(q)
           \/ Receive \/ ReceiveThrows \/ ReceiverStep \/ UNCHANGED vars
    PROVE  Types'
<1>1. CASE CloseStart
  BY <1>1, ReaderAt DEF CloseStart, Types, ReaderPCs, Evicting, Filing, Newest, slots, history
<1>2. CASE CloseSocket
  BY <1>2, ReaderAt, NoneArmedTimer DEF CloseSocket, Types, ReaderPCs, Evicting,
         Filing, Newest, slots, history
<1>3. CASE CloseClear
  BY <1>3, ReaderAt DEF CloseClear, None, Types, ReaderPCs, Evicting, Filing, Newest, slots, history
<1>4. CASE Teardown
  BY <1>4, NoneArmedTimer DEF Teardown, Types, Newest, slots, history
<1>5. ASSUME NEW q \in Query, TimerDue(q) PROVE Types'
  BY <1>5 DEF TimerDue, Types, TimerPCs, Newest, slots, history
<1>6. ASSUME NEW q \in Query, TimerClaim(q) PROVE Types'
  BY <1>6 DEF TimerClaim, Vacate, None, Types, TimerPCs, Newest, slots, history
<1>7. ASSUME NEW q \in Query, TimedOut(q) PROVE Types'
  <2>1. PICK n \in Nat : n = counts.timedOut + 1
    BY DEF Types
  <2>2. counts' = [counts EXCEPT !.timedOut = n]
    BY <1>7, <2>1 DEF TimedOut, Types
  <2> QED
    BY <1>7, <2>2, Unlogged DEF TimedOut, Unlog, Types, TimerPCs, Newest, slots, history
<1>8. CASE Check
  BY <1>8, ReceiverAt DEF Check, Types, ReceiverPCs, Holding, Newest, slots, history
<1>9. CASE Receive
  <2>1. PICK d \in Asked :
          receiver' = [pc |-> "peek", id |-> d.id, question |-> d.question, peeked |-> None]
    BY <1>9 DEF Receive, Types
  <2> QED
    BY <1>9, <2>1 DEF Receive, Types, Asked, ReceiverPCs, None, Newest, slots, history
<1>10. CASE ReceiveThrows
  BY <1>10, ReceiverAt DEF ReceiveThrows, Types, ReceiverPCs, Holding, Newest, slots, history
<1>11. CASE Backoff
  BY <1>11, ReceiverAt DEF Backoff, Types, ReceiverPCs, Holding, Newest, slots, history
<1>12. CASE Peek
  <2>1. CASE ReceiverGoto("check")
    BY <1>12, <2>1, ReceiverAt DEF Peek, Types, ReceiverPCs, Holding, Newest, slots, history
  <2>2. CASE receiver' = [receiver EXCEPT !.pc = "claim", !.peeked = pending[receiver.id]]
    BY <1>12, <2>2 DEF Peek, Types, ReceiverPCs, Holding, Newest, slots, history
  <2> QED
    BY <1>12, <2>1, <2>2 DEF Peek
<1>13. CASE Claim
  <2>1. CASE ReceiverGoto("check")
    BY <1>13, <2>1, ReceiverAt DEF Claim, Vacate, None, Types, ReceiverPCs, Holding,
           Newest, slots, history
  <2>2. CASE receiver' = [receiver EXCEPT !.pc = "unlog"]
    BY <1>13, <2>2 DEF Claim, Vacate, None, Types, ReceiverPCs, Holding, Newest, slots, history
  <2> QED
    BY <1>13, <2>1, <2>2 DEF Claim
<1>14. CASE Deliver
  <2>1. PICK n \in Nat : n = counts.replied + 1
    BY DEF Types
  <2>2. counts' = [counts EXCEPT !.replied = n]
    BY <1>14, <2>1 DEF Deliver, Types
  <2> QED
    BY <1>14, <2>2, ReceiverAt, CancelledTimer, Unlogged
    DEF Deliver, Unlog, Types, ReceiverPCs, Holding, Newest, slots, history
<1>15. CASE UNCHANGED vars
  BY <1>15 DEF vars, slots, history, Types, Newest, slots, history
<1> QED
  BY <1>1, <1>2, <1>3, <1>4, <1>5, <1>6, <1>7, <1>8, <1>9, <1>10, <1>11, <1>12, <1>13, <1>14, <1>15
  DEF CloseStep, TimerStep, ReceiverStep

LEMMA NextTypes == Types /\ [Next]_vars => Types'
BY ForwardTypes, OthersTypes DEF Next

-----------------------------------------------------------------------------
(* Slots filled and slots given up *)

\* Timers that have taken a slot and not counted it yet.
Claimants == {q \in Query : timer[q] = "unlog"}

\* SlotsAccounted, with the set it counts named.
Tally ==
    reader.pc # "closed" =>
        Newest - Is(reader.pc = "insert") =
            Cardinality(Present)
              + counts.timedOut + counts.evicted + counts.replied + counts.failed
              + Is(reader.pc \in {"unlog", "unlogFailed"}) + Is(receiver.pc = "unlog")
              + Cardinality(Claimants)

Counted ==
    /\ Tally /\ PendingBounded
    /\ reader.pc = "insert" => pending[queries[Newest].id] = None
    /\ reader.pc = "alloc" => Present = {}

LEMMA Sizes ==
    ASSUME Types
    PROVE  /\ IsFiniteSet(Present) /\ Cardinality(Present) \in Nat
           /\ IsFiniteSet(Claimants) /\ Cardinality(Claimants) \in Nat
           /\ counts.timedOut \in Nat /\ counts.evicted \in Nat
           /\ counts.replied \in Nat /\ counts.failed \in Nat
           /\ MaxPending \in Nat \ {0} /\ Newest \in Nat
<1>1. IsFiniteSet(Present)
  BY FS_Subset, BoundsAssumption DEF Present
<1>2. Newest \in Nat
  BY DEF Types, Newest
<1>3. IsFiniteSet(Query)
  BY <1>2, FS_Interval DEF Query, Newest
<1>4. IsFiniteSet(Claimants)
  BY <1>3, FS_Subset DEF Claimants
<1>5. /\ counts.timedOut \in Nat /\ counts.evicted \in Nat
      /\ counts.replied \in Nat /\ counts.failed \in Nat
  BY DEF Types
<1> QED
  BY <1>1, <1>2, <1>4, <1>5, FS_CardinalityType, BoundsAssumption

\* A slot vacated is one slot fewer, if somebody waited in it.
LEMMA Vacated ==
    ASSUME Types, NEW id \in Ids, Vacate(id)
    PROVE  /\ Present' = Present \ {id} /\ pending'[id] = None
           /\ \A k \in Ids \ {id} : pending'[k] = pending[k]
           /\ pending[id] = None => pending' = pending /\ Present' = Present
           /\ pending[id] # None => Cardinality(Present') = Cardinality(Present) - 1
<1>1. /\ pending'[id] = None /\ \A k \in Ids \ {id} : pending'[k] = pending[k]
      /\ pending[id] = None => pending' = pending
  BY DEF Types, Vacate
<1>2. Present' = Present \ {id}
  BY <1>1 DEF Present
<1>3. pending[id] # None => id \in Present
  BY DEF Present
<1>4. pending[id] # None => Cardinality(Present \ {id}) = Cardinality(Present) - 1
  BY <1>3, Sizes, FS_RemoveElement
<1> QED
  BY <1>1, <1>2, <1>4 DEF Present

\* A slot vacated under the reader's nose does not fill the one it found free.
LEMMA VacatedKeepsFree ==
    ASSUME Types, Counted, NEW id \in Ids, Vacate(id), UNCHANGED <<queries, reader>>
    PROVE  /\ reader'.pc = "insert" => pending'[queries'[Newest'].id] = None
           /\ reader'.pc = "alloc" => Present' = {}
<1>1. /\ Present' = Present \ {id} /\ pending'[id] = None
      /\ \A k \in Ids \ {id} : pending'[k] = pending[k]
  BY Vacated
<1>2. reader.pc = "insert" => queries[Newest].id \in Ids
  <2>1. reader.pc = "insert" => Newest \in Query
    BY DEF Types, Filing, Query, Newest
  <2> QED
    BY <2>1, AskedIs
<1>3. queries' = queries /\ Newest' = Newest /\ reader' = reader
  BY DEF Newest
<1> QED
  BY <1>1, <1>2, <1>3 DEF Counted

\* Where no slot changes hands, nothing is to be counted.
LEMMA QuietKeepsCount ==
    ASSUME Counted, UNCHANGED <<pending, queries, counts>>, Claimants' = Claimants,
           \A p \in {"insert", "unlog", "unlogFailed", "closed"} :
               reader'.pc = p <=> reader.pc = p,
           reader'.pc = "alloc" => Present = {},
           receiver'.pc = "unlog" <=> receiver.pc = "unlog"
    PROVE  Counted'
<1>1. /\ Present' = Present /\ Newest' = Newest
      /\ Is(reader'.pc = "insert") = Is(reader.pc = "insert")
      /\ Is(reader'.pc \in {"unlog", "unlogFailed"}) = Is(reader.pc \in {"unlog", "unlogFailed"})
      /\ Is(receiver'.pc = "unlog") = Is(receiver.pc = "unlog")
      /\ Cardinality(Claimants)' = Cardinality(Claimants)
  BY DEF Present, Newest, Is
<1>2. PendingBounded'
  BY <1>1 DEF Counted, PendingBounded
<1>3. Tally'
  BY <1>1 DEF Counted, Tally
<1> QED
  BY <1>1, <1>2, <1>3 DEF Counted

\* Timers that are not about to count, before and after, do not matter.
LEMMA SameClaimants ==
    ASSUME Types, queries' = queries,
           \A q \in 1..MaxQueries : timer'[q] = "unlog" <=> timer[q] = "unlog"
    PROVE  Claimants' = Claimants
<1>1. Query' = Query /\ Query \in SUBSET (1..MaxQueries)
  BY BoundsAssumption DEF Types, Query, Newest
<1> QED
  BY <1>1 DEF Claimants

LEMMA QuietSteps ==
    ASSUME Types, Counted,
           \/ Enter \/ PickEldest \/ LogIsEmpty \/ PickAny \/ Track \/ Send
           \/ CloseStart \/ CloseSocket \/ Teardown \/ \E q \in Query : TimerDue(q)
           \/ Check \/ Receive \/ ReceiveThrows \/ Backoff \/ Peek \/ UNCHANGED vars
    PROVE  Counted'
<1>1. UNCHANGED <<pending, queries, counts>>
  BY DEF Enter, PickEldest, LogIsEmpty, PickAny, Track, Send, CloseStart, CloseSocket, Teardown,
         TimerDue, Check, Receive, ReceiveThrows, Backoff, Peek, vars, slots
<1>2. \A p \in {"insert", "unlog", "unlogFailed", "closed"} : reader'.pc = p <=> reader.pc = p
  BY DEF Enter, PickEldest, LogIsEmpty, PickAny, Track, Send, CloseStart, CloseSocket, Teardown,
         TimerDue, Check, Receive, ReceiveThrows, Backoff, Peek, vars, Goto, Victim, Types
<1>3. receiver'.pc = "unlog" <=> receiver.pc = "unlog"
  <2>1. CASE receiver' = receiver
    BY <2>1
  <2>2. CASE Check \/ Receive \/ ReceiveThrows \/ Backoff
    BY <2>2 DEF Check, Receive, ReceiveThrows, Backoff, ReceiverGoto, NoDatagram
  <2>3. CASE Peek
    BY <2>3 DEF Peek, ReceiverGoto, NoDatagram, Types
  <2> QED
    BY <2>1, <2>2, <2>3
    DEF Enter, PickEldest, LogIsEmpty, PickAny, Track, Send, CloseStart, CloseSocket, Teardown,
        TimerDue, vars
<1>5. reader'.pc = "alloc" => Present = {}
  BY DEF Enter, PickEldest, LogIsEmpty, PickAny, Track, Send, CloseStart, CloseSocket, Teardown,
         TimerDue, Check, Receive, ReceiveThrows, Backoff, Peek, vars, Goto, Victim, Types, Counted
<1>4. \A q \in 1..MaxQueries : timer'[q] = "unlog" <=> timer[q] = "unlog"
  <2>1. CASE \E q \in Query : TimerDue(q)
    BY <2>1 DEF TimerDue, Types
  <2>2. CASE CloseSocket \/ Teardown
    BY <2>2, NoneArmedTimer DEF CloseSocket, Teardown
  <2>3. CASE timer' = timer
    BY <2>3
  <2> QED
    BY <2>1, <2>2, <2>3
    DEF Enter, PickEldest, LogIsEmpty, PickAny, Track, Send, CloseStart,
        Check, Receive, ReceiveThrows, Backoff, Peek, vars
<1> QED
  BY <1>1, <1>2, <1>3, <1>4, <1>5, SameClaimants, QuietKeepsCount

\* The reader takes a slot, fills one, or counts one it took.
LEMMA ReaderCounts ==
    ASSUME Types, Counted,
           Evict \/ Evicted \/ Alloc \/ Insert \/ SendThrows \/ Failed \/ CloseClear
    PROVE  Counted'
<1> USE Sizes
<1>1. CASE Evict
  <2>1. /\ reader.pc = "victim" /\ reader.id \in Ids /\ Vacate(reader.id)
        /\ UNCHANGED <<queries, timer, counts, receiver>>
        /\ reader'.pc = IF pending[reader.id] # None THEN "unlog" ELSE "evict"
    BY <1>1 DEF Evict, Goto, Types
  <2>2. Claimants' = Claimants /\ Newest' = Newest
    BY <2>1, SameClaimants DEF Newest
  <2>3. Cardinality(Present') = Cardinality(Present) - Is(pending[reader.id] # None)
    BY <2>1, Vacated DEF Is
  <2> QED
    BY <2>1, <2>2, <2>3 DEF Counted, Tally, PendingBounded, Is
<1>2. CASE Evicted
  <2>1. /\ reader.pc = "unlog" /\ reader'.pc = "evict" /\ Present' = Present
        /\ UNCHANGED <<queries, receiver>> /\ Newest' = Newest
        /\ timer' = Cancelled(reader.query)
        /\ counts'.evicted = counts.evicted + 1 /\ counts'.failed = counts.failed
        /\ counts'.timedOut = counts.timedOut /\ counts'.replied = counts.replied
    BY <1>2 DEF Evicted, Goto, Types, Present, Newest
  <2>2. Claimants' = Claimants
    BY <2>1, CancelledTimer, SameClaimants
  <2> QED
    BY <2>1, <2>2 DEF Counted, Tally, PendingBounded, Is
<1>3. CASE Alloc
  <2>1. PICK id \in Ids \ Present, question \in Questions :
            queries' = Append(queries, [id |-> id, question |-> question])
    BY <1>3 DEF Alloc, FreeIds
  <2>2. /\ reader.pc \in {"evict", "alloc"} /\ reader'.pc = "insert" /\ Present' = Present
        /\ pending' = pending /\ UNCHANGED <<counts, receiver>>
        /\ timer' = [timer EXCEPT ![Newest + 1] = IF active THEN "armed" ELSE "off"]
    BY <1>3 DEF Alloc, Goto, Types, Present, slots
  <2>3. Newest' = Newest + 1 /\ Query = 1..Newest /\ Query' = 1..(Newest + 1)
    BY <2>1, Sizes DEF Newest, Query, Types
  <2>4. queries'[Newest'].id = id
    BY <2>1, <2>3 DEF Types, Newest
  <2>5. Newest + 1 \in 1..MaxQueries
    <3>1. Newest < MaxQueries /\ MaxQueries \in Nat /\ Newest \in Nat
      BY <2>2, BoundsAssumption DEF Types, Evicting
    <3> QED
      BY <3>1
  <2>6. Claimants' = Claimants
    <3>1. timer'[Newest + 1] # "unlog" /\ \A q \in 1..Newest : timer'[q] = timer[q]
      BY <2>2, <2>5 DEF Types
    <3>2. \A q : q \in 1..(Newest + 1) <=> q \in 1..Newest \/ q = Newest + 1
      BY Sizes
    <3> QED
      BY <2>3, <3>1, <3>2 DEF Claimants
  <2>7. Cardinality(Present) + 1 <= MaxPending
    <3>1. CASE reader.pc = "evict"
      BY <1>3, <3>1 DEF Alloc, Full
    <3>2. CASE reader.pc = "alloc"
      <4>1. Cardinality(Present) = 0
        BY <3>2, FS_EmptySet DEF Counted
      <4> QED
        BY <4>1
    <3> QED
      BY <2>2, <3>1, <3>2
  <2>8. pending'[queries'[Newest'].id] = None
    BY <2>1, <2>2, <2>4 DEF Present
  <2>9. /\ UNCHANGED <<counts, receiver>> /\ reader'.pc = "insert"
        /\ reader.pc \in {"evict", "alloc"} /\ Present' = Present /\ Newest' = Newest + 1
    BY <2>2, <2>3
  <2> QED
    BY <2>6, <2>7, <2>8, <2>9 DEF Counted, Tally, PendingBounded, Is
<1>4. CASE Insert
  <2>1. /\ reader.pc = "insert" /\ reader'.pc = "track" /\ Newest \in Query
        /\ UNCHANGED <<queries, timer, counts, receiver>> /\ Newest' = Newest
        /\ pending' = [pending EXCEPT ![queries[Newest].id] = Newest]
    BY <1>4 DEF Insert, Goto, Types, Filing, Newest, Query
  <2>2. queries[Newest].id \in Ids \ Present /\ Newest # None
    BY <2>1, AskedIs DEF Counted, Present, Query, None
  <2>3. Present' = Present \cup {queries[Newest].id}
    BY <2>1, <2>2 DEF Present, Types
  <2>4. Cardinality(Present') = Cardinality(Present) + 1
    BY <2>2, <2>3, FS_AddElement
  <2>5. Claimants' = Claimants
    BY <2>1, SameClaimants
  <2>6. /\ UNCHANGED <<counts, receiver>> /\ Newest' = Newest
        /\ reader.pc = "insert" /\ reader'.pc = "track"
    BY <2>1
  <2> QED
    BY <2>4, <2>5, <2>6 DEF Counted, Tally, PendingBounded, Is
<1>5. CASE SendThrows
  <2>1. /\ reader.pc = "send" /\ Newest \in Query /\ Vacate(queries[Newest].id)
        /\ UNCHANGED <<queries, timer, counts, receiver>> /\ Newest' = Newest
        /\ reader'.pc = IF pending[queries[Newest].id] # None THEN "unlogFailed" ELSE "idle"
    BY <1>5 DEF SendThrows, Goto, Types, Filing, Newest, Query
  <2>2. Claimants' = Claimants
    BY <2>1, SameClaimants
  <2>3. Cardinality(Present') = Cardinality(Present) - Is(pending[queries[Newest].id] # None)
    BY <2>1, AskedIs, Vacated DEF Is
  <2> QED
    BY <2>1, <2>2, <2>3 DEF Counted, Tally, PendingBounded, Is
<1>6. CASE Failed
  <2>1. /\ reader.pc = "unlogFailed" /\ reader'.pc = "idle" /\ Present' = Present
        /\ UNCHANGED <<queries, receiver>> /\ Newest' = Newest
        /\ timer' = Cancelled(Newest)
        /\ counts'.failed = counts.failed + 1 /\ counts'.evicted = counts.evicted
        /\ counts'.timedOut = counts.timedOut /\ counts'.replied = counts.replied
    BY <1>6 DEF Failed, Goto, Types, Present, Newest
  <2>2. Claimants' = Claimants
    BY <2>1, CancelledTimer, SameClaimants
  <2> QED
    BY <2>1, <2>2 DEF Counted, Tally, PendingBounded, Is
<1>7. CASE CloseClear
  <2>1. reader'.pc = "closed" /\ pending' = [id \in Ids |-> None]
    BY <1>7 DEF CloseClear, Goto, Types
  <2>2. Present' = {}
    BY <2>1 DEF Present
  <2>3. Cardinality({}) = 0
    BY FS_EmptySet
  <2> QED
    BY <2>1, <2>2, <2>3 DEF Counted, Tally, PendingBounded, Is
<1> QED
  BY <1>1, <1>2, <1>3, <1>4, <1>5, <1>6, <1>7

\* A timer or the receiver takes a slot, or counts one it took.
LEMMA OthersCount ==
    ASSUME Types, Counted,
           (\E q \in Query : TimerClaim(q) \/ TimedOut(q)) \/ Claim \/ Deliver
    PROVE  Counted'
<1> USE Sizes
<1>1. ASSUME NEW q \in Query, TimerClaim(q) PROVE Counted'
  <2>1. queries[q].id \in Ids /\ Query' = Query /\ Newest' = Newest /\ q \in 1..MaxQueries
    BY <1>1, AskedIs, BoundsAssumption DEF TimerClaim, Query, Newest, Types
  <2>2. /\ timer[q] = "due" /\ Vacate(queries[q].id)
        /\ UNCHANGED <<queries, counts, reader, receiver>>
        /\ timer' = [timer EXCEPT ![q] = IF pending[queries[q].id] # None THEN "unlog" ELSE "off"]
    BY <1>1 DEF TimerClaim
  <2>3. CASE pending[queries[q].id] # None
    <3>1. Claimants' = Claimants \cup {q} /\ q \notin Claimants
      BY <2>1, <2>2, <2>3 DEF Claimants, Types
    <3>2. Cardinality(Claimants') = Cardinality(Claimants) + 1
      BY <3>1, FS_AddElement
    <3>3. Cardinality(Present') = Cardinality(Present) - 1
      BY <2>1, <2>2, <2>3, Vacated
    <3>4. /\ reader'.pc = "insert" => pending'[queries'[Newest'].id] = None
          /\ reader'.pc = "alloc" => Present' = {}
      BY <2>1, <2>2, VacatedKeepsFree
    <3>5. UNCHANGED <<counts, reader, receiver>> /\ Newest' = Newest
      BY <2>1, <2>2
    <3> QED
      BY <3>2, <3>3, <3>4, <3>5 DEF Counted, Tally, PendingBounded, Is
  <2>4. CASE pending[queries[q].id] = None
    <3>1. Claimants' = Claimants
      BY <2>1, <2>2, <2>4 DEF Claimants, Types
    <3>2. pending' = pending
      BY <2>1, <2>2, <2>4, Vacated
    <3>3. /\ UNCHANGED <<pending, queries, counts>> /\ reader' = reader /\ receiver' = receiver
          /\ reader'.pc = "alloc" => Present = {}
      BY <2>2, <3>2 DEF Counted
    <3> QED
      BY <3>1, <3>3, QuietKeepsCount
  <2> QED
    BY <2>3, <2>4
<1>2. ASSUME NEW q \in Query, TimedOut(q) PROVE Counted'
  <2>1. /\ Query' = Query /\ Newest' = Newest /\ q \in 1..MaxQueries
        /\ timer[q] = "unlog" /\ timer' = [timer EXCEPT ![q] = "off"] /\ Present' = Present
        /\ UNCHANGED <<pending, queries, reader, receiver>>
        /\ counts'.timedOut = counts.timedOut + 1 /\ counts'.evicted = counts.evicted
        /\ counts'.failed = counts.failed /\ counts'.replied = counts.replied
    BY <1>2, BoundsAssumption DEF TimedOut, Query, Newest, Types, Present
  <2>2. Claimants' = Claimants \ {q} /\ q \in Claimants
    BY <2>1 DEF Claimants, Types
  <2>3. Cardinality(Claimants') = Cardinality(Claimants) - 1
    BY <2>2, FS_RemoveElement
  <2> QED
    BY <2>1, <2>3 DEF Counted, Tally, PendingBounded, Is
<1>3. CASE Claim
  <2>1. /\ receiver.pc = "claim" /\ receiver.id \in Ids /\ Vacate(receiver.id)
        /\ UNCHANGED <<queries, timer, counts, reader>> /\ Newest' = Newest
        /\ receiver'.pc = IF pending[receiver.id] # None THEN "unlog" ELSE "check"
    BY <1>3 DEF Claim, ReceiverGoto, NoDatagram, Types, Holding, Newest
  <2>2. Claimants' = Claimants
    BY <2>1, SameClaimants
  <2>3. Cardinality(Present') = Cardinality(Present) - Is(pending[receiver.id] # None)
    BY <2>1, Vacated DEF Is
  <2>4. /\ reader'.pc = "insert" => pending'[queries'[Newest'].id] = None
        /\ reader'.pc = "alloc" => Present' = {}
    BY <2>1, VacatedKeepsFree
  <2> QED
    BY <2>1, <2>2, <2>3, <2>4 DEF Counted, Tally, PendingBounded, Is
<1>4. CASE Deliver
  <2>1. /\ receiver.pc = "unlog" /\ receiver'.pc = "check" /\ Present' = Present
        /\ UNCHANGED <<pending, queries, reader>> /\ Newest' = Newest
        /\ timer' = Cancelled(receiver.peeked)
        /\ counts'.replied = counts.replied + 1 /\ counts'.evicted = counts.evicted
        /\ counts'.timedOut = counts.timedOut /\ counts'.failed = counts.failed
    BY <1>4 DEF Deliver, ReceiverGoto, NoDatagram, Types, Present, Newest
  <2>2. Claimants' = Claimants
    BY <2>1, CancelledTimer, SameClaimants
  <2> QED
    BY <2>1, <2>2 DEF Counted, Tally, PendingBounded, Is
<1> QED
  BY <1>1, <1>2, <1>3, <1>4

LEMMA InitCounted == Init => Counted
<1> SUFFICES ASSUME Init PROVE Counted
  OBVIOUS
<1>1. Present = {} /\ Newest = 0 /\ reader.pc = "idle" /\ receiver.pc = "check"
  BY DEF Init, Present, Newest
<1>2. Claimants = {}
  BY DEF Init, Claimants, Query
<1>3. /\ counts.timedOut = 0 /\ counts.evicted = 0 /\ counts.replied = 0
      /\ counts.failed = 0
  BY DEF Init
<1>4. Cardinality({}) = 0
  BY FS_EmptySet
<1> QED
  BY <1>1, <1>2, <1>3, <1>4, BoundsAssumption DEF Counted, Tally, PendingBounded, Is

LEMMA NextCounted == Types /\ Counted /\ [Next]_vars => Counted'
BY QuietSteps, ReaderCounts, OthersCount
DEF Next, ForwardStep, CloseStep, TimerStep, ReceiverStep

-----------------------------------------------------------------------------
(* Which query is where *)

\* Query q has no slot, and the reader is not about to fill one for it.
Slotless(q) ==
    /\ \A id \in Ids : pending[id] # q
    /\ ~(reader.pc = "insert" /\ q = Newest)

\* A query waits only under its own id, and only after the reader put it there.
Homes ==
    \A id \in Present :
        /\ pending[id] \in Query /\ queries[pending[id]].id = id
        /\ ~(reader.pc = "insert" /\ pending[id] = Newest)

\* Whoever took a slot holds a query that has none; so does whoever got an answer.
ReaderFits ==
    /\ reader.pc = "unlog" => reader.query \in Query /\ Slotless(reader.query)
    /\ reader.pc = "unlogFailed" => Slotless(Newest)

TimersFit == \A q \in Query : timer[q] = "unlog" => Slotless(q)

\* The query that was peeked matches the datagram, and no answer reached it before.
ReceiverFits ==
    /\ receiver.pc \in {"claim", "unlog"} =>
         /\ receiver.peeked \in Query
         /\ queries[receiver.peeked] = [id |-> receiver.id, question |-> receiver.question]
         /\ ~(reader.pc = "insert" /\ receiver.peeked = Newest)
         /\ \A e \in emitted : e[1] # receiver.peeked
    /\ receiver.pc = "unlog" => Slotless(receiver.peeked)

AnswersFit ==
    /\ \A e \in emitted : /\ e[1] \in Query /\ queries[e[1]].question = e[2]
                          /\ Slotless(e[1])
    /\ IsFiniteSet(emitted) /\ Cardinality(emitted) = counts.replied

Timed ==
    active => \A q \in Query :
        Slotless(q) \/ timer[q] \in {"armed", "due"} \/ q \in early

Identified == Homes /\ ReaderFits /\ TimersFit /\ ReceiverFits /\ AnswersFit /\ Timed

\* Every step but the two that bring a new query in.
NoNewQuery ==
    \/ Enter \/ PickEldest \/ LogIsEmpty \/ PickAny \/ Evict \/ Evicted
    \/ Track \/ Send \/ SendThrows \/ Failed
    \/ CloseStart \/ CloseSocket \/ CloseClear \/ Teardown
    \/ \E q \in Query : TimerDue(q) \/ TimerClaim(q) \/ TimedOut(q)
    \/ Check \/ Receive \/ ReceiveThrows \/ Backoff \/ Peek \/ Claim \/ Deliver
    \/ UNCHANGED vars

\* These steps only empty slots ...
LEMMA OnlyEmptied ==
    ASSUME Types, NoNewQuery
    PROVE  /\ queries' = queries /\ Newest' = Newest /\ Query' = Query
           /\ \A id \in Ids : pending'[id] = pending[id] \/ pending'[id] = None
           /\ reader'.pc = "insert" => reader.pc = "insert"
<1>1. queries' = queries
  BY DEF NoNewQuery, Enter, PickEldest, LogIsEmpty, PickAny, Evict, Evicted, Track, Send,
         SendThrows, Failed, CloseStart, CloseSocket, CloseClear, Teardown, TimerDue, TimerClaim,
         TimedOut, Check, Receive, ReceiveThrows, Backoff, Peek, Claim, Deliver, vars
<1>2. reader'.pc = "insert" => reader.pc = "insert"
  BY DEF NoNewQuery, Enter, PickEldest, LogIsEmpty, PickAny, Evict, Evicted, Track, Send,
         SendThrows, Failed, CloseStart, CloseSocket, CloseClear, Teardown, TimerDue, TimerClaim,
         TimedOut, Check, Receive, ReceiveThrows, Backoff, Peek, Claim, Deliver, vars,
         Goto, Victim, Types
<1>3. \A id \in Ids : pending'[id] = pending[id] \/ pending'[id] = None
  <2>1. CASE pending' = pending
    BY <2>1
  <2>2. ASSUME NEW id, Vacate(id)
        PROVE  \A k \in Ids : pending'[k] = pending[k] \/ pending'[k] = None
    BY <2>2 DEF Vacate, Types
  <2>3. CASE Evict \/ SendThrows \/ Claim \/ \E q \in Query : TimerClaim(q)
    BY <2>2, <2>3 DEF Evict, SendThrows, Claim, TimerClaim
  <2>4. CASE CloseClear
    BY <2>4 DEF CloseClear
  <2> QED
    BY <2>1, <2>3, <2>4
    DEF NoNewQuery, Enter, PickEldest, LogIsEmpty, PickAny, Evicted, Track, Send,
        Failed, CloseStart, CloseSocket, Teardown, TimerDue,
        TimedOut, Check, Receive, ReceiveThrows, Backoff, Peek, Deliver, vars, slots
<1> QED
  BY <1>1, <1>2, <1>3 DEF Newest, Query

\* ... so a query without a slot stays without, and the others are where they were.
LEMMA SlotlessStays ==
    ASSUME Types, NoNewQuery, Homes
    PROVE  /\ Homes' /\ \A q \in Query : Slotless(q) => Slotless(q)'
<1>1. /\ queries' = queries /\ Newest' = Newest /\ Query' = Query
      /\ \A id \in Ids : pending'[id] = pending[id] \/ pending'[id] = None
      /\ reader'.pc = "insert" => reader.pc = "insert"
  BY OnlyEmptied
<1>2. \A q \in Query : q # None
  BY DEF Query, None
<1>3. ASSUME NEW q \in Query, Slotless(q) PROVE Slotless(q)'
  BY <1>1, <1>2, <1>3 DEF Slotless
<1>4. Homes'
  BY <1>1 DEF Homes, Present
<1> QED
  BY <1>3, <1>4

LEMMA ReaderFitsStays ==
    ASSUME Types, Identified, NoNewQuery
    PROVE  ReaderFits'
<1>1. /\ queries' = queries /\ Newest' = Newest /\ Query' = Query
      /\ \A q \in Query : Slotless(q) => Slotless(q)'
  BY OnlyEmptied, SlotlessStays DEF Identified
<1>2. CASE Evict
  <2>1. reader.id \in Ids /\ Vacate(reader.id) /\ reader.pc = "victim"
    BY <1>2 DEF Evict, Types
  <2>2. CASE pending[reader.id] = None
    BY <1>2, <2>2 DEF Evict, Goto, Types, ReaderFits
  <2>3. CASE pending[reader.id] # None
    <3> PICK q : q = pending[reader.id]
      OBVIOUS
    <3>1. reader'.pc = "unlog" /\ reader'.query = q
      BY <1>2, <2>3 DEF Evict, Goto, Types
    <3>2. q \in Query /\ queries[q].id = reader.id
      BY <2>1, <2>3 DEF Identified, Homes, Present
    <3>3. \A id \in Ids : pending[id] = q => id = reader.id
      BY <3>2 DEF Identified, Homes, Present, Query, None
    <3>4. \A id \in Ids : pending'[id] # q
      BY <2>1, <3>2, <3>3, Vacated DEF Query, None
    <3> QED
      BY <1>1, <3>1, <3>2, <3>4 DEF ReaderFits, Slotless
  <2> QED
    BY <2>2, <2>3
<1>3. CASE SendThrows
  <2>1. /\ reader.pc = "send" /\ Newest \in Query /\ queries[Newest].id \in Ids
        /\ Vacate(queries[Newest].id)
    BY <1>3, AskedIs DEF SendThrows, Types, Filing, Query, Newest
  <2>2. reader'.pc = "idle" \/ reader'.pc = "unlogFailed"
    BY <1>3 DEF SendThrows, Goto, Types
  <2>3. \A id \in Ids : pending[id] = Newest => id = queries[Newest].id
    BY <2>1 DEF Identified, Homes, Present, Query, None
  <2>4. \A id \in Ids : pending'[id] # Newest
    BY <2>1, <2>3, Vacated DEF Query, None
  <2> QED
    BY <1>1, <2>2, <2>4 DEF ReaderFits, Slotless
<1>4. CASE reader' = reader
  BY <1>1, <1>4 DEF Identified, ReaderFits, Types, Filing, Query, Newest
<1>5. CASE reader'.pc \notin {"unlog", "unlogFailed"}
  BY <1>5 DEF ReaderFits
<1>6. Evict \/ SendThrows \/ reader' = reader \/ reader'.pc \notin {"unlog", "unlogFailed"}
  BY DEF NoNewQuery, Enter, PickEldest, LogIsEmpty, PickAny, Evicted, Track, Send,
         Failed, CloseStart, CloseSocket, CloseClear, Teardown, TimerDue, TimerClaim,
         TimedOut, Check, Receive, ReceiveThrows, Backoff, Peek, Claim, Deliver, vars,
         Goto, Victim, Types
<1> QED
  BY <1>2, <1>3, <1>4, <1>5, <1>6

\* A timer that claims takes its own query's slot or that of a later query with the
\* same id; either way its own query is left without one, unless it has yet to get it.
LEMMA ClaimedByTimer ==
    ASSUME Types, Counted, Identified, NEW q \in Query, TimerClaim(q)
    PROVE  /\ Slotless(q)' \/ q \in early'
           /\ pending[queries[q].id] # None => Slotless(q)'
<1>1. /\ queries[q].id \in Ids /\ Vacate(queries[q].id) /\ reader' = reader
      /\ Newest' = Newest /\ q # None
      /\ reader.pc = "insert" /\ q = Newest => q \in early'
  BY AskedIs DEF TimerClaim, Query, None, Newest
<1>2. \A id \in Ids : pending[id] = q => id = queries[q].id
  BY <1>1 DEF Identified, Homes, Present
<1>3. \A id \in Ids : pending'[id] # q
  BY <1>1, <1>2, Vacated
<1>4. pending[queries[q].id] # None => ~(reader.pc = "insert" /\ q = Newest)
  BY DEF Counted
<1> QED
  BY <1>1, <1>3, <1>4 DEF Slotless

LEMMA TimersFitStays ==
    ASSUME Types, Counted, Identified, NoNewQuery
    PROVE  TimersFit'
<1> SUFFICES ASSUME NEW q \in Query', timer'[q] = "unlog" PROVE Slotless(q)'
  BY DEF TimersFit
<1>1. /\ q \in Query /\ Query' = Query /\ q \in 1..MaxQueries
      /\ Slotless(q) => Slotless(q)'
  BY OnlyEmptied, SlotlessStays, BoundsAssumption DEF Identified, Query, Newest, Types
<1>2. CASE timer[q] = "unlog"
  BY <1>1, <1>2 DEF Identified, TimersFit
<1>3. ASSUME NEW k \in Query, TimerClaim(k) PROVE Slotless(q)'
  <2>1. CASE k = q
    <3>1. pending[queries[q].id] # None
      BY <1>1, <1>3, <2>1 DEF TimerClaim, Types
    <3> QED
      BY <1>3, <2>1, <3>1, ClaimedByTimer
  <2>2. CASE k # q
    BY <1>1, <1>2, <1>3, <2>2 DEF TimerClaim, Types
  <2> QED
    BY <2>1, <2>2
<1>4. CASE timer[q] # "unlog" /\ ~\E k \in Query : TimerClaim(k)
  <2>1. CASE timer' = timer
    BY <1>4, <2>1
  <2>2. CASE CloseSocket \/ Teardown
    BY <1>1, <1>4, <2>2, NoneArmedTimer DEF CloseSocket, Teardown
  <2>3. CASE Evicted \/ Failed \/ Deliver
    BY <1>1, <1>4, <2>3, CancelledTimer DEF Evicted, Failed, Deliver
  <2>4. CASE \E k \in Query : TimerDue(k) \/ TimedOut(k)
    BY <1>1, <1>4, <2>4 DEF TimerDue, TimedOut, Types
  <2> QED
    BY <1>4, <2>1, <2>2, <2>3, <2>4
    DEF NoNewQuery, Enter, PickEldest, LogIsEmpty, PickAny, Evict, Track, Send, SendThrows,
        CloseStart, CloseClear, Check, Receive, ReceiveThrows, Backoff, Peek, Claim, vars
<1> QED
  BY <1>2, <1>3, <1>4

LEMMA ReceiverFitsStays ==
    ASSUME Types, Identified, NoNewQuery
    PROVE  ReceiverFits'
<1>1. /\ queries' = queries /\ Newest' = Newest /\ Query' = Query
      /\ reader'.pc = "insert" => reader.pc = "insert"
      /\ \A q \in Query : Slotless(q) => Slotless(q)'
  BY OnlyEmptied, SlotlessStays DEF Identified
<1>2. CASE receiver' = receiver /\ emitted' = emitted
  BY <1>1, <1>2 DEF Identified, ReceiverFits
<1>3. CASE receiver'.pc \notin {"claim", "unlog"}
  BY <1>3 DEF ReceiverFits
<1>4. CASE Peek /\ receiver' # [NoDatagram EXCEPT !.pc = "check"]
  <2> PICK p : p = pending[receiver.id]
    OBVIOUS
  <2>1. /\ receiver.id \in Present /\ p = pending[receiver.id] /\ emitted' = emitted
        /\ queries[p].question = receiver.question /\ reader' = reader
        /\ receiver'.pc = "claim" /\ receiver'.peeked = p
        /\ receiver'.id = receiver.id /\ receiver'.question = receiver.question
    BY <1>4 DEF Peek, ReceiverGoto, QuestionMatches, Present, Types, Holding, history
  <2>2. /\ p \in Query /\ queries[p].id = receiver.id
        /\ ~(reader.pc = "insert" /\ p = Newest)
    BY <2>1 DEF Identified, Homes
  <2>3. queries[p] = [id |-> receiver.id, question |-> receiver.question]
    <3>1. queries[p] \in Asked
      BY <2>2, AskedIs
    <3> QED
      BY <2>1, <2>2, <3>1 DEF Asked
  <2>4. \A e \in emitted : e[1] # p
    BY <2>1 DEF Identified, AnswersFit, Slotless, Present
  <2> QED
    BY <1>1, <2>1, <2>2, <2>3, <2>4 DEF ReceiverFits
<1>5. CASE Claim /\ receiver'.pc = "unlog"
  <2> PICK p : p = receiver.peeked
    OBVIOUS
  <2>1. /\ receiver.pc = "claim" /\ receiver.id \in Ids /\ Vacate(receiver.id)
        /\ UNCHANGED <<emitted, reader>> /\ receiver'.peeked = p
        /\ receiver'.id = receiver.id /\ receiver'.question = receiver.question
    BY <1>5 DEF Claim, ReceiverGoto, NoDatagram, Types, Holding, history
  <2>2. /\ p \in Query /\ ~(reader.pc = "insert" /\ p = Newest)
        /\ queries[p] = [id |-> receiver.id, question |-> receiver.question]
        /\ \A e \in emitted : e[1] # p
    BY <2>1 DEF Identified, ReceiverFits
  <2>3. \A id \in Ids : pending[id] = p => id = receiver.id
    BY <2>2 DEF Identified, Homes, Present, Query, None
  <2>4. \A id \in Ids : pending'[id] # p
    BY <2>1, <2>2, <2>3, Vacated DEF Query, None
  <2> QED
    BY <1>1, <2>1, <2>2, <2>4 DEF ReceiverFits, Slotless
<1>6. \/ receiver' = receiver /\ emitted' = emitted
      \/ receiver'.pc \notin {"claim", "unlog"}
      \/ Peek /\ receiver' # [NoDatagram EXCEPT !.pc = "check"]
      \/ Claim /\ receiver'.pc = "unlog"
  <2>1. CASE Peek
    BY <2>1 DEF NoDatagram
  <2>2. CASE Claim
    BY <2>2 DEF Claim, ReceiverGoto, NoDatagram, Types
  <2>3. CASE Check \/ Receive \/ ReceiveThrows \/ Backoff \/ Deliver
    BY <2>3 DEF Check, Receive, ReceiveThrows, Backoff, Deliver, ReceiverGoto, NoDatagram
  <2> QED
    BY <2>1, <2>2, <2>3
    DEF NoNewQuery, Enter, PickEldest, LogIsEmpty, PickAny, Evict, Evicted, Track, Send,
        SendThrows, Failed, CloseStart, CloseSocket, CloseClear, Teardown, TimerDue, TimerClaim,
        TimedOut, vars, history
<1> QED
  BY <1>2, <1>3, <1>4, <1>5, <1>6

LEMMA AnswersFitStays ==
    ASSUME Types, Identified, NoNewQuery
    PROVE  AnswersFit'
<1>1. /\ queries' = queries /\ Query' = Query
      /\ \A q \in Query : Slotless(q) => Slotless(q)'
  BY OnlyEmptied, SlotlessStays DEF Identified
<1>2. CASE emitted' = emitted /\ counts'.replied = counts.replied
  BY <1>1, <1>2 DEF Identified, AnswersFit
<1>3. CASE Deliver
  <2> DEFINE answer == <<receiver.peeked, receiver.question>>
  <2>1. /\ receiver.pc = "unlog" /\ emitted' = emitted \cup {answer}
        /\ counts'.replied = counts.replied + 1
    BY <1>3 DEF Deliver, Types
  <2>2. /\ receiver.peeked \in Query /\ Slotless(receiver.peeked)
        /\ queries[receiver.peeked].question = receiver.question
        /\ \A e \in emitted : e[1] # receiver.peeked
    BY <2>1 DEF Identified, ReceiverFits
  <2>3. answer[1] = receiver.peeked /\ answer[2] = receiver.question
    OBVIOUS
  <2>4. answer \notin emitted
    BY <2>2, <2>3
  <2> PICK a : a = answer
    OBVIOUS
  <2>5. IsFiniteSet(emitted \cup {a}) /\ Cardinality(emitted \cup {a}) = Cardinality(emitted) + 1
    BY <2>4, FS_AddElement DEF Identified, AnswersFit
  <2> QED
    BY <1>1, <2>1, <2>2, <2>3, <2>5 DEF Identified, AnswersFit
<1>4. Deliver \/ (emitted' = emitted /\ counts'.replied = counts.replied)
  BY DEF NoNewQuery, Enter, PickEldest, LogIsEmpty, PickAny, Evict, Evicted, Track, Send,
         SendThrows, Failed, CloseStart, CloseSocket, CloseClear, Teardown, TimerDue, TimerClaim,
         TimedOut, Check, Receive, ReceiveThrows, Backoff, Peek, Claim, vars, history, Types
<1> QED
  BY <1>2, <1>3, <1>4

LEMMA TimedStays ==
    ASSUME Types, Counted, Identified, NoNewQuery
    PROVE  Timed'
<1> SUFFICES ASSUME active', NEW q \in Query'
             PROVE  Slotless(q)' \/ timer'[q] \in {"armed", "due"} \/ q \in early'
  BY DEF Timed
<1>1. /\ q \in Query /\ Query' = Query /\ q \in 1..MaxQueries
      /\ \A k \in Query : Slotless(k) => Slotless(k)'
  BY OnlyEmptied, SlotlessStays, BoundsAssumption DEF Identified, Query, Newest, Types
<1>2. CASE active /\ early \in SUBSET early' /\ timer'[q] = timer[q]
  BY <1>1, <1>2 DEF Identified, Timed
<1>3. CASE Evicted \/ Failed \/ Deliver
  <2>1. PICK k \in Query : timer' = Cancelled(k) /\ Slotless(k)
    <3>1. CASE Evicted
      BY <3>1 DEF Evicted, Identified, ReaderFits
    <3>2. CASE Failed
      <4>1. Newest \in Query
        BY <3>2 DEF Failed, Types, Filing, Query, Newest
      <4> QED
        BY <3>2, <4>1 DEF Failed, Identified, ReaderFits
    <3>3. CASE Deliver
      BY <3>3 DEF Deliver, Identified, ReceiverFits
    <3> QED
      BY <1>3, <3>1, <3>2, <3>3
  <2>2. CASE k = q
    BY <1>1, <2>1, <2>2
  <2>3. CASE k # q
    <3>1. timer'[q] = timer[q]
      BY <1>1, <2>1, <2>3, CancelledTimer
    <3> QED
      BY <1>2, <1>3, <3>1 DEF Evicted, Failed, Deliver, history
  <2> QED
    BY <2>2, <2>3
<1>4. ASSUME NEW k \in Query, TimerDue(k) \/ TimerClaim(k) \/ TimedOut(k)
      PROVE  Slotless(q)' \/ timer'[q] \in {"armed", "due"} \/ q \in early'
  <2>1. CASE k # q
    BY <1>1, <1>2, <1>4, <2>1 DEF TimerDue, TimerClaim, TimedOut, Types, history
  <2>2. CASE k = q /\ TimerDue(q)
    BY <1>1, <2>2 DEF TimerDue, Types
  <2>3. CASE k = q /\ TimerClaim(q)
    BY <1>1, <2>3, ClaimedByTimer
  <2>4. CASE k = q /\ TimedOut(q)
    BY <1>1, <2>4 DEF TimedOut, Identified, TimersFit
  <2> QED
    BY <1>4, <2>1, <2>2, <2>3, <2>4
<1>5. \/ active /\ early \in SUBSET early' /\ timer'[q] = timer[q]
      \/ Evicted \/ Failed \/ Deliver
      \/ \E k \in Query : TimerDue(k) \/ TimerClaim(k) \/ TimedOut(k)
  BY DEF NoNewQuery, Enter, PickEldest, LogIsEmpty, PickAny, Evict, Track, Send, SendThrows,
         CloseStart, CloseSocket, CloseClear, Teardown,
         Check, Receive, ReceiveThrows, Backoff, Peek, Claim, vars, history
<1> QED
  BY <1>2, <1>3, <1>4, <1>5

\* The new query has no slot yet, and its timer is armed while the scope lives.
LEMMA AllocIdentified ==
    ASSUME Types, Identified, Alloc
    PROVE  Identified'
<1>1. PICK id \in Ids, question \in Questions :
          queries' = Append(queries, [id |-> id, question |-> question])
  BY DEF Alloc, FreeIds
<1>2. /\ reader.pc \in {"evict", "alloc"} /\ reader'.pc = "insert"
      /\ UNCHANGED <<pending, active, early, emitted, counts, receiver>>
      /\ timer' = [timer EXCEPT ![Newest + 1] = IF active THEN "armed" ELSE "off"]
  BY DEF Alloc, Goto, Types, slots, history
<1>3. /\ Newest \in Nat /\ Newest' = Newest + 1
      /\ Query = 1..Newest /\ Query' = 1..(Newest + 1)
      /\ \A q \in Query : queries'[q] = queries[q]
  BY <1>1 DEF Newest, Query, Types
<1>4. /\ \A q \in Query : timer'[q] = timer[q]
      /\ timer'[Newest + 1] = IF active THEN "armed" ELSE "off"
  <2>1. Newest < MaxQueries /\ MaxQueries \in Nat /\ timer \in [1..MaxQueries -> TimerPCs]
    BY <1>2, BoundsAssumption DEF Types, Evicting
  <2> QED
    BY <1>2, <1>3, <2>1
<1>5. \A q \in Query : q \in Query' /\ (Slotless(q) => Slotless(q)')
  BY <1>2, <1>3 DEF Slotless
<1>6. Homes'
  BY <1>2, <1>3 DEF Identified, Homes, Present
<1>7. ReaderFits'
  BY <1>2 DEF ReaderFits
<1>8. TimersFit'
  BY <1>3, <1>4, <1>5 DEF Identified, TimersFit
<1>9. ReceiverFits'
  BY <1>2, <1>3, <1>5 DEF Identified, ReceiverFits
<1>10. AnswersFit'
  BY <1>2, <1>3, <1>5 DEF Identified, AnswersFit
<1>11. Timed'
  BY <1>2, <1>3, <1>4, <1>5 DEF Identified, Timed
<1> QED
  BY <1>6, <1>7, <1>8, <1>9, <1>10, <1>11 DEF Identified

\* It is filed under its own id, which was free.
LEMMA InsertIdentified ==
    ASSUME Types, Counted, Identified, Insert
    PROVE  Identified'
<1>1. /\ reader.pc = "insert" /\ reader'.pc = "track"
      /\ UNCHANGED <<queries, active, timer, early, emitted, counts, receiver>>
      /\ Newest \in Query /\ Newest' = Newest /\ Query' = Query /\ Newest # None
  BY DEF Insert, Goto, Types, Filing, Newest, Query, history, None
<1>2. queries[Newest].id \in Ids
  BY <1>1, AskedIs
<1>3. /\ pending'[queries[Newest].id] = Newest
      /\ \A id \in Ids : id # queries[Newest].id => pending'[id] = pending[id]
  BY <1>2 DEF Insert, Types
<1>4. \A q \in Query : (Slotless(q) <=> Slotless(q)') /\ (Slotless(q) => q # Newest)
  BY <1>1, <1>2, <1>3 DEF Slotless, Counted, Query, None
<1>5. Homes'
  BY <1>1, <1>2, <1>3 DEF Identified, Homes, Present
<1>6. ReaderFits'
  BY <1>1 DEF ReaderFits
<1>7. TimersFit'
  BY <1>1, <1>4 DEF Identified, TimersFit
<1>8. ReceiverFits'
  BY <1>1, <1>4 DEF Identified, ReceiverFits
<1>9. AnswersFit'
  BY <1>1, <1>4 DEF Identified, AnswersFit
<1>10. Timed'
  BY <1>1, <1>4 DEF Identified, Timed
<1> QED
  BY <1>5, <1>6, <1>7, <1>8, <1>9, <1>10 DEF Identified

LEMMA InitIdentified == Init => Identified
<1> SUFFICES ASSUME Init PROVE Identified
  OBVIOUS
<1>1. /\ Present = {} /\ Query = {} /\ emitted = {} /\ counts.replied = 0
      /\ reader.pc = "idle" /\ receiver.pc = "check"
  BY DEF Init, Present, Query, Newest
<1>2. IsFiniteSet({}) /\ Cardinality({}) = 0
  BY FS_EmptySet
<1> QED
  BY <1>1, <1>2
  DEF Identified, Homes, ReaderFits, TimersFit, ReceiverFits, AnswersFit, Timed

LEMMA NextIdentified == Types /\ Counted /\ Identified /\ [Next]_vars => Identified'
<1> SUFFICES ASSUME Types, Counted, Identified, [Next]_vars PROVE Identified'
  OBVIOUS
<1>1. CASE NoNewQuery
  <2>1. Homes'
    BY <1>1, SlotlessStays DEF Identified
  <2> QED
    BY <1>1, <2>1, ReaderFitsStays, TimersFitStays, ReceiverFitsStays, AnswersFitStays, TimedStays
    DEF Identified
<1>2. NoNewQuery \/ Alloc \/ Insert
  BY DEF NoNewQuery, Next, ForwardStep, CloseStep, TimerStep, ReceiverStep
<1> QED
  BY <1>1, <1>2, AllocIdentified, InsertIdentified

-----------------------------------------------------------------------------

IndInv == Types /\ Counted /\ Identified

LEMMA Invariance == Spec => []IndInv
<1>1. Init => IndInv
  BY InitTypes, InitCounted, InitIdentified DEF IndInv
<1>2. IndInv /\ [Next]_vars => IndInv'
  BY NextTypes, NextCounted, NextIdentified DEF IndInv
<1> QED
  BY <1>1, <1>2, PTL DEF Spec

\* Whatever ids are drawn and however late and often the upstream answers, an answer
\* is delivered to a query that asked its question, and to each query at most once
\* (receiveLoop, peek and removal).
THEOREM AnswersAreRight == Spec => []RightAnswer
<1>1. IndInv => RightAnswer
  BY DEF IndInv, Identified, AnswersFit, RightAnswer
<1> QED
  BY <1>1, Invariance, PTL

\* Until close() clears them, the slots filled are the slots that wait and those given
\* up, each once, to an answer, a timeout, an eviction or a failed send (removePending).
THEOREM SlotsAreAccounted == Spec => []SlotsAccounted
<1>1. IndInv => SlotsAccounted
  BY DEF IndInv, Counted, Tally, SlotsAccounted, Claimants
<1> QED
  BY <1>1, Invariance, PTL

\* No more than maxPending queries wait, a slot about to be filled included
\* (evictIfNeeded).
THEOREM PendingIsBounded == Spec => []PendingBounded
<1>1. IndInv => PendingBounded
  BY DEF IndInv, Counted
<1> QED
  BY <1>1, Invariance, PTL

\* While its scope lives, no query waits without a timer still to come, unless that
\* timer ran before the slot was filled (forward, launch before insert).
THEOREM WaitingIsTimed == Spec => []StillTimed
<1>1. IndInv => StillTimed
  <2> SUFFICES ASSUME IndInv, active, NEW id \in Present
               PROVE  timer[pending[id]] \in {"armed", "due"} \/ pending[id] \in early
    BY DEF StillTimed
  <2>1. pending[id] \in Query /\ ~Slotless(pending[id])
    BY DEF IndInv, Identified, Homes, Slotless, Present
  <2> QED
    BY <2>1 DEF IndInv, Identified, Timed
<1> QED
  BY <1>1, Invariance, PTL

=============================================================================
