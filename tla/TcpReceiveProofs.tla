--------------------------- MODULE TcpReceiveProofs ---------------------------
(***************************************************************************)
(* TLAPS proof that a TCP session gives its upstream the client's stream:  *)
(* every byte once and in order, whatever segments arrive in whatever      *)
(* order, for every length of the stream, size of the sequence space and   *)
(* cap of the reassembly buffer.  The proofs argue about positions in the  *)
(* stream; the first lemmas say how the sequence numbers name them.        *)
(***************************************************************************)
EXTENDS TcpSession, FiniteSetTheorems, FunctionTheorems, SequenceTheorems, TLAPS

(* Induction, for sets: a set of naturals that holds 0 and every successor is Nat. *)

LEMMA SetInduction ==
    ASSUME NEW S \in SUBSET Nat, 0 \in S, \A n \in S : n + 1 \in S
    PROVE  S = Nat
<1> SUFFICES ASSUME NEW m \in Nat, m \notin S PROVE FALSE
  OBVIOUS
<1> DEFINE A == {n \in S : n <= m}
           f == [n \in A |-> n + 1]
<1>1. IsFiniteSet(A)
  BY FS_BoundedSetOfNaturals
<1>2. f \in [A -> A]
  <2> SUFFICES ASSUME NEW n \in A PROVE n + 1 \in A
    OBVIOUS
  <2>1. n \in Nat /\ n # m /\ n <= m /\ n + 1 \in S
    OBVIOUS
  <2> QED
    BY <2>1
<1>3. (\A a, b \in A : f[a] = f[b] => a = b) /\ 0 \in A /\ \A a \in A : f[a] # 0
  OBVIOUS
<1> HIDE DEF f, A
<1>4. f \in Injection(A, A)
  BY <1>2, <1>3, Fun_IsInj
<1>5. f \in Surjection(A, A)
  BY <1>1, <1>4, FS_Injection
<1> QED
  BY <1>3, <1>5, Fun_SurjectionProperties

\* A set of naturals that is not empty has a least element.
LEMMA Least ==
    ASSUME NEW T \in SUBSET Nat, T # {}
    PROVE  \E m \in T : \A n \in T : m <= n
<1> DEFINE S == {n \in Nat : \A i \in 0..n : i \notin T}
<1> SUFFICES ASSUME \A m \in T : \E n \in T : n < m PROVE FALSE
  OBVIOUS
<1>1. 0 \in S
  OBVIOUS
<1>2. ASSUME NEW n \in S PROVE n + 1 \in S
  <2>1. n + 1 \notin T
    OBVIOUS
  <2>2. \A i \in 0..(n + 1) : i \in 0..n \/ i = n + 1
    OBVIOUS
  <2> QED
    BY <2>1, <2>2
<1> HIDE DEF S
<1>3. S \in SUBSET Nat
  BY DEF S
<1>4. S = Nat
  BY <1>1, <1>2, <1>3, SetInduction
<1>5. \A n \in Nat : n \notin T
  <2> SUFFICES ASSUME NEW n \in Nat PROVE n \notin T
    OBVIOUS
  <2>1. n \in S
    BY <1>4
  <2> QED
    BY <2>1 DEF S
<1> QED
  BY <1>5

-----------------------------------------------------------------------------
(* Sequence numbers *)

LEMMA SeqAddAt ==
    ASSUME NEW b \in SeqNos, NEW i \in 0..(SeqMod - 1)
    PROVE  /\ SeqAdd(b, i) = IF b + i < SeqMod THEN b + i ELSE b + i - SeqMod
           /\ SeqAdd(b, i) \in SeqNos
<1>1. /\ SeqMod \in Nat /\ SeqMod > 1 /\ b \in Int /\ i \in Int
      /\ 0 <= b + i /\ b + i < 2 * SeqMod
  BY SessionAssumption DEF SeqNos
<1>2. ASSUME NEW x \in Int, 0 <= x, x < 2 * SeqMod
      PROVE  x % SeqMod = IF x < SeqMod THEN x ELSE x - SeqMod
  BY <1>1, <1>2
<1> QED
  BY <1>1, <1>2 DEF SeqAdd, SeqNos

LEMMA SeqAddTwice ==
    ASSUME NEW b \in SeqNos, NEW i \in Nat, NEW n \in Nat, i + n < SeqMod
    PROVE  SeqAdd(SeqAdd(b, i), n) = SeqAdd(b, i + n)
<1>1. SeqMod \in Nat /\ b \in Nat /\ b < SeqMod
  BY SessionAssumption DEF SeqNos
<1>2. i \in 0..(SeqMod - 1) /\ n \in 0..(SeqMod - 1) /\ i + n \in 0..(SeqMod - 1)
  BY <1>1
<1>3. SeqAdd(b, i) \in SeqNos
  BY <1>2, SeqAddAt
<1> QED
  BY <1>1, <1>2, <1>3, SeqAddAt

LEMMA SeqDiffAt ==
    ASSUME NEW b \in SeqNos, NEW i \in 0..(SeqMod - 1), NEW j \in 0..(SeqMod - 1),
           2 * (i - j) < SeqMod, 2 * (j - i) < SeqMod
    PROVE  SeqDiff(SeqAdd(b, i), SeqAdd(b, j)) = i - j
<1> DEFINE x == SeqAdd(b, i) - SeqAdd(b, j)
<1>1. SeqMod \in Nat /\ SeqMod > 1 /\ b \in Nat /\ b < SeqMod
  BY SessionAssumption DEF SeqNos
<1>2. /\ x \in Int /\ x < SeqMod /\ 0 - x < SeqMod
      /\ x = i - j \/ x = i - j + SeqMod \/ x = i - j - SeqMod
  <2>1. /\ SeqAdd(b, i) = (IF b + i < SeqMod THEN b + i ELSE b + i - SeqMod)
        /\ SeqAdd(b, j) = (IF b + j < SeqMod THEN b + j ELSE b + j - SeqMod)
    BY SeqAddAt
  <2> QED
    BY <1>1, <2>1
<1> HIDE DEF x
<1>3. x % SeqMod = IF x < 0 THEN x + SeqMod ELSE x
  BY <1>1, <1>2
<1>4. x % SeqMod = IF i < j THEN i - j + SeqMod ELSE i - j
  BY <1>1, <1>2, <1>3
<1>5. SeqDiff(SeqAdd(b, i), SeqAdd(b, j)) =
        LET d == x % SeqMod IN IF 2 * d >= SeqMod THEN d - SeqMod ELSE d
  BY DEF SeqDiff, x
<1> QED
  BY <1>1, <1>4, <1>5

\* Positions of the client's stream: byte i + 1 follows the i bytes before it, and the FIN
\* comes behind the last byte.
LEMMA ClientSeqs ==
    /\ \A i \in 0..(ClientBytes + 2) : ClientSeq(i) \in SeqNos
    /\ \A i, j \in 0..(ClientBytes + 2) :
          /\ SeqDiff(ClientSeq(i), ClientSeq(j)) = i - j
          /\ SeqGt(ClientSeq(i), ClientSeq(j)) <=> i > j
          /\ SeqGe(ClientSeq(i), ClientSeq(j)) <=> i >= j
          /\ ClientSeq(i) = ClientSeq(j) => i = j
    /\ \A i \in 0..(ClientBytes + 2), n \in Nat :
          i + n <= ClientBytes + 2 => SeqAdd(ClientSeq(i), n) = ClientSeq(i + n)
<1>1. /\ SeqMod \in Nat /\ ClientBytes \in Nat /\ ClientIsn \in SeqNos
      /\ 2 * (ClientBytes + 3) < SeqMod
  BY SessionAssumption DEF SeqNos
<1>2. ASSUME NEW i \in 0..(ClientBytes + 2), NEW j \in 0..(ClientBytes + 2)
      PROVE  /\ ClientSeq(i) \in SeqNos
             /\ SeqDiff(ClientSeq(i), ClientSeq(j)) = i - j
             /\ SeqDiff(ClientSeq(j), ClientSeq(j)) = 0
  <2>1. i + 1 \in 0..(SeqMod - 1) /\ j + 1 \in 0..(SeqMod - 1)
        /\ 2 * ((i + 1) - (j + 1)) < SeqMod /\ 2 * ((j + 1) - (i + 1)) < SeqMod
        /\ 2 * ((j + 1) - (j + 1)) < SeqMod
    BY <1>1
  <2>2. /\ SeqDiff(ClientSeq(i), ClientSeq(j)) = (i + 1) - (j + 1)
        /\ SeqDiff(ClientSeq(j), ClientSeq(j)) = (j + 1) - (j + 1)
    BY <1>1, <2>1, SeqDiffAt DEF ClientSeq
  <2> QED
    BY <1>1, <2>1, <2>2, SeqAddAt DEF ClientSeq
<1>3. ASSUME NEW i \in 0..(ClientBytes + 2), NEW n \in Nat, i + n <= ClientBytes + 2
      PROVE  SeqAdd(ClientSeq(i), n) = ClientSeq(i + n)
  <2>1. i + 1 \in Nat /\ (i + 1) + n < SeqMod /\ (i + 1) + n = (i + n) + 1
    BY <1>1, <1>3
  <2> QED
    BY <1>1, <2>1, SeqAddTwice DEF ClientSeq
<1>4. \A i, j \in 0..(ClientBytes + 2) :
          /\ SeqGt(ClientSeq(i), ClientSeq(j)) <=> i > j
          /\ SeqGe(ClientSeq(i), ClientSeq(j)) <=> i >= j
          /\ ClientSeq(i) = ClientSeq(j) => i = j
  BY <1>2 DEF SeqGt, SeqGe
<1> QED
  BY <1>2, <1>3, <1>4

-----------------------------------------------------------------------------
(* The reassembly buffer *)

\* An entry holds bytes of the client's stream, under the number of the first.
IsEntry(e) ==
    /\ e \in [seq : SeqNos, data : Pieces]
    /\ e.data.len > 0 /\ e.data.from + e.data.len - 1 <= ClientBytes
    /\ e.seq = ClientSeq(e.data.from - 1)

Apart(e, f) == \/ e.data.from + e.data.len <= f.data.from
               \/ f.data.from + f.data.len <= e.data.from

SeqsOf(e) == {SeqAdd(e.seq, k) : k \in 0..(e.data.len - 1)}
Held(buf) == UNION {SeqsOf(e) : e \in buf}

\* What drainReassem and bufferSegment keep: entries of the stream, no byte twice, and
\* the counter is right.
Buffered(buf, bytes) ==
    /\ IsFiniteSet(buf) /\ Cardinality(buf) <= ReasmEntriesCap
    /\ \A e \in buf : IsEntry(e)
    /\ \A e, f \in buf : e # f => Apart(e, f)
    /\ bytes = Cardinality(Held(buf)) /\ bytes <= ReasmCap

\* The numbers of an entry's bytes.
LEMMA EntrySeqs ==
    ASSUME NEW e, IsEntry(e)
    PROVE  /\ e.data.from \in Nat \ {0} /\ e.data.len \in Nat
           /\ \A k \in 0..(e.data.len - 1) :
                 /\ e.data.from - 1 + k \in 0..(ClientBytes + 2)
                 /\ SeqAdd(e.seq, k) = ClientSeq(e.data.from - 1 + k)
           /\ SeqAdd(e.seq, e.data.len) = ClientSeq(e.data.from - 1 + e.data.len)
<1>1. /\ ClientBytes \in Nat /\ ServerBytes \in Nat
      /\ e.data.from \in 1..(ClientBytes + ServerBytes + 1)
      /\ e.data.len \in 0..(ClientBytes + ServerBytes)
  BY SessionAssumption DEF IsEntry, Pieces
<1>2. ASSUME NEW k \in 0..e.data.len
      PROVE  /\ e.data.from - 1 + k \in 0..(ClientBytes + 2)
             /\ SeqAdd(e.seq, k) = ClientSeq(e.data.from - 1 + k)
  <2>1. /\ e.data.from - 1 \in 0..(ClientBytes + 2) /\ k \in Nat
        /\ e.data.from - 1 + k <= ClientBytes + 2
    BY <1>1 DEF IsEntry
  <2> QED
    BY <2>1, ClientSeqs DEF IsEntry
<1> QED
  BY <1>1, <1>2

LEMMA EntryHolds ==
    ASSUME NEW e, IsEntry(e)
    PROVE  /\ IsFiniteSet(SeqsOf(e)) /\ Cardinality(SeqsOf(e)) = e.data.len
           /\ SeqsOf(e) \subseteq SeqNos
<1> DEFINE K == 0..(e.data.len - 1)
           f == [k \in K |-> SeqAdd(e.seq, k)]
<1>1. /\ e.data.len \in Nat /\ e.data.from \in Nat /\ K \subseteq Nat
      /\ \A k \in K : e.data.from - 1 + k \in 0..(ClientBytes + 2)
      /\ \A k \in K : f[k] = ClientSeq(e.data.from - 1 + k)
  BY EntrySeqs
<1>2. f \in [K -> SeqsOf(e)]
  BY DEF SeqsOf
<1>3. \A s \in SeqsOf(e) : \E k \in K : f[k] = s
  BY DEF SeqsOf
<1>4. IsFiniteSet(K) /\ Cardinality(K) = e.data.len
  <2>1. 0 \in Int /\ e.data.len - 1 \in Int /\ e.data.len > 0
    BY <1>1 DEF IsEntry
  <2>2. IsFiniteSet(K) /\ Cardinality(K) = IF 0 > e.data.len - 1 THEN 0 ELSE e.data.len - 1 - 0 + 1
    BY <2>1, FS_Interval
  <2> HIDE DEF K
  <2> QED
    BY <1>1, <2>1, <2>2
<1> HIDE DEF f, K
<1>5. \A a, b \in K : f[a] = f[b] => a = b
  <2> SUFFICES ASSUME NEW a \in K, NEW b \in K, f[a] = f[b] PROVE a = b
    OBVIOUS
  <2>1. /\ e.data.from - 1 + a \in 0..(ClientBytes + 2)
        /\ e.data.from - 1 + b \in 0..(ClientBytes + 2)
        /\ ClientSeq(e.data.from - 1 + a) = ClientSeq(e.data.from - 1 + b)
    BY <1>1
  <2>2. e.data.from - 1 + a = e.data.from - 1 + b
    BY <2>1, ClientSeqs
  <2> QED
    BY <1>1, <2>2
<1>6. SeqsOf(e) \subseteq SeqNos
  <2> SUFFICES ASSUME NEW s \in SeqsOf(e) PROVE s \in SeqNos
    OBVIOUS
  <2>1. PICK k \in K : s = ClientSeq(e.data.from - 1 + k)
    BY <1>1, <1>3
  <2> QED
    BY <1>1, <2>1, ClientSeqs
<1>7. f \in Bijection(K, SeqsOf(e))
  BY <1>2, <1>3, <1>5, Fun_IsBij
<1> QED
  BY <1>4, <1>6, <1>7, FS_Bijection DEF ExistsBijection

LEMMA ApartHold ==
    ASSUME NEW e, NEW f, IsEntry(e), IsEntry(f), Apart(e, f)
    PROVE  SeqsOf(e) \cap SeqsOf(f) = {}
<1> SUFFICES ASSUME NEW i \in 0..(e.data.len - 1), NEW j \in 0..(f.data.len - 1),
                    SeqAdd(e.seq, i) = SeqAdd(f.seq, j)
             PROVE  FALSE
  BY DEF SeqsOf
<1>1. /\ e.data.from \in Nat /\ f.data.from \in Nat /\ e.data.len \in Nat /\ f.data.len \in Nat
      /\ e.data.from - 1 + i \in 0..(ClientBytes + 2)
      /\ f.data.from - 1 + j \in 0..(ClientBytes + 2)
      /\ SeqAdd(e.seq, i) = ClientSeq(e.data.from - 1 + i)
      /\ SeqAdd(f.seq, j) = ClientSeq(f.data.from - 1 + j)
  BY EntrySeqs
<1>2. e.data.from - 1 + i = f.data.from - 1 + j
  BY <1>1, ClientSeqs
<1> QED
  BY <1>1, <1>2 DEF Apart

LEMMA HeldIsFinite ==
    ASSUME NEW buf, \A e \in buf : IsEntry(e)
    PROVE  IsFiniteSet(Held(buf)) /\ Cardinality(Held(buf)) \in Nat
<1>1. IsFiniteSet(SeqNos)
  BY SessionAssumption, FS_Interval DEF SeqNos
<1>2. Held(buf) \subseteq SeqNos
  BY EntryHolds DEF Held
<1> QED
  BY <1>1, <1>2, FS_Subset, FS_CardinalityType

LEMMA BufferedAdd ==
    ASSUME NEW buf, NEW bytes, Buffered(buf, bytes), NEW x, IsEntry(x),
           \A e \in buf : Apart(e, x),
           bytes + x.data.len <= ReasmCap, Cardinality(buf) < ReasmEntriesCap
    PROVE  Buffered(buf \cup {x}, bytes + x.data.len)
<1>1. Held(buf \cup {x}) = Held(buf) \cup SeqsOf(x)
  BY DEF Held
<1>2. Held(buf) \cap SeqsOf(x) = {}
  BY ApartHold DEF Held, Buffered
<1>3. IsFiniteSet(Held(buf)) /\ Cardinality(Held(buf)) = bytes
      /\ IsFiniteSet(SeqsOf(x)) /\ Cardinality(SeqsOf(x)) = x.data.len
      /\ bytes \in Nat /\ x.data.len \in Nat
  BY HeldIsFinite, EntryHolds, EntrySeqs DEF Buffered
<1>4. Cardinality(Held(buf \cup {x})) = bytes + x.data.len
  <2>1. Cardinality(Held(buf) \cap SeqsOf(x)) = 0
    BY <1>2, FS_EmptySet
  <2>2. Cardinality(Held(buf) \cup SeqsOf(x)) =
          Cardinality(Held(buf)) + Cardinality(SeqsOf(x)) - Cardinality(Held(buf) \cap SeqsOf(x))
    BY <1>3, FS_Union
  <2>3. Cardinality(Held(buf) \cup SeqsOf(x)) = bytes + x.data.len
    BY <1>3, <2>1, <2>2
  <2> QED
    BY <1>1, <2>3
<1>5. IsFiniteSet(buf \cup {x}) /\ Cardinality(buf \cup {x}) <= ReasmEntriesCap
  <2>1. IsFiniteSet(buf) /\ Cardinality(buf) \in Nat
    BY FS_CardinalityType DEF Buffered
  <2>2. IsFiniteSet(buf \cup {x}) /\ Cardinality(buf \cup {x}) =
          IF x \in buf THEN Cardinality(buf) ELSE Cardinality(buf) + 1
    BY <2>1, FS_AddElement
  <2>3. ReasmEntriesCap \in Nat
    BY SessionAssumption
  <2> QED
    BY <2>1, <2>2, <2>3
<1>6. \A e, f \in buf \cup {x} : e # f => Apart(e, f)
  BY DEF Buffered, Apart
<1> QED
  BY <1>4, <1>5, <1>6 DEF Buffered

LEMMA BufferedRemove ==
    ASSUME NEW buf, NEW bytes, Buffered(buf, bytes), NEW x \in buf
    PROVE  /\ Buffered(buf \ {x}, bytes - x.data.len)
           /\ Cardinality(buf) \in Nat /\ Cardinality(buf \ {x}) = Cardinality(buf) - 1
           /\ bytes \in Nat /\ x.data.len \in Nat
<1> DEFINE rest == buf \ {x}
<1>1. Held(buf) = Held(rest) \cup SeqsOf(x)
  BY DEF Held
<1>2. Held(rest) \cap SeqsOf(x) = {}
  BY ApartHold DEF Held, Buffered
<1>3. IsFiniteSet(Held(rest)) /\ Cardinality(Held(rest)) \in Nat
      /\ IsFiniteSet(SeqsOf(x)) /\ Cardinality(SeqsOf(x)) = x.data.len
      /\ bytes \in Nat /\ x.data.len \in Nat
  <2>1. IsEntry(x) /\ (\A e \in rest : IsEntry(e)) /\ bytes = Cardinality(Held(buf))
    BY DEF Buffered
  <2> QED
    BY <2>1, HeldIsFinite, EntryHolds, EntrySeqs DEF Buffered
<1>4. Cardinality(Held(rest)) = bytes - x.data.len
  <2>1. Cardinality(Held(rest) \cap SeqsOf(x)) = 0
    BY <1>2, FS_EmptySet
  <2>2. Cardinality(Held(rest) \cup SeqsOf(x)) = Cardinality(Held(rest)) + x.data.len - 0
    BY <1>3, <2>1, FS_Union
  <2>3. bytes = Cardinality(Held(rest) \cup SeqsOf(x))
    BY <1>1 DEF Buffered
  <2> QED
    BY <1>3, <2>2, <2>3
<1>5. IsFiniteSet(rest) /\ Cardinality(rest) = Cardinality(buf) - 1 /\ Cardinality(buf) \in Nat
  BY FS_RemoveElement, FS_CardinalityType DEF Buffered
<1>6. bytes - x.data.len <= ReasmCap /\ Cardinality(rest) <= ReasmEntriesCap
  BY <1>3, <1>5, SessionAssumption DEF Buffered
<1> QED
  BY <1>3, <1>4, <1>5, <1>6 DEF Buffered

LEMMA EmptyBuffered == Buffered({}, 0)
<1>1. Held({}) = {}
  BY DEF Held
<1> QED
  BY <1>1, FS_EmptySet, SessionAssumption DEF Buffered

\* The bytes before an entry, and those before and in it.
Pos(e) == e.data.from - 1
End(e) == e.data.from - 1 + e.data.len

\* Entries are compared by the bytes before them.
LEMMA EntryOrder ==
    ASSUME NEW e, IsEntry(e)
    PROVE  /\ Pos(e) \in 0..(ClientBytes + 2) /\ End(e) \in 0..ClientBytes /\ Pos(e) < End(e)
           /\ Pos(e) \in Nat /\ e.data.len = End(e) - Pos(e)
           /\ e.seq = ClientSeq(Pos(e)) /\ EndOf(e) = ClientSeq(End(e))
           /\ \A q \in 0..(ClientBytes + 2) :
                 /\ SeqGe(ClientSeq(q), e.seq) <=> q >= Pos(e)
                 /\ SeqGe(e.seq, ClientSeq(q)) <=> Pos(e) >= q
                 /\ SeqDiff(EndOf(e), ClientSeq(q)) = End(e) - q
                 /\ SeqDiff(ClientSeq(q), e.seq) = q - Pos(e)
                 /\ e.seq = ClientSeq(q) <=> Pos(e) = q
<1>1. /\ ClientBytes \in Nat /\ e.data.from \in Nat \ {0} /\ e.data.len \in Nat
      /\ e.data.len > 0 /\ e.data.from + e.data.len - 1 <= ClientBytes
      /\ e.seq = ClientSeq(e.data.from - 1)
      /\ SeqAdd(e.seq, e.data.len) = ClientSeq(e.data.from - 1 + e.data.len)
  BY SessionAssumption, EntrySeqs DEF IsEntry
<1>2. /\ Pos(e) \in 0..(ClientBytes + 2) /\ End(e) \in 0..ClientBytes /\ Pos(e) < End(e)
      /\ Pos(e) \in Nat /\ e.data.len = End(e) - Pos(e) /\ End(e) \in 0..(ClientBytes + 2)
  BY <1>1 DEF Pos, End
<1>3. e.seq = ClientSeq(Pos(e)) /\ EndOf(e) = ClientSeq(End(e))
  BY <1>1 DEF Pos, End, EndOf
<1> QED
  BY <1>2, <1>3, ClientSeqs

\* Two entries of the buffer lie one behind the other.
LEMMA EntriesApart ==
    ASSUME NEW buf, NEW bytes, Buffered(buf, bytes), NEW e \in buf, NEW f \in buf, e # f
    PROVE  End(e) <= Pos(f) \/ End(f) <= Pos(e)
<1>1. IsEntry(e) /\ IsEntry(f) /\ Apart(e, f)
  BY DEF Buffered
<1> QED
  BY <1>1, EntrySeqs DEF Apart, Pos, End

\* The entry at or before a segment: `cover` of its bytes are held already, and by nobody
\* else than that entry.
LEMMA FloorCovers ==
    ASSUME NEW buf, NEW bytes, Buffered(buf, bytes), NEW lo \in 0..ClientBytes
    PROVE  LET over == {SeqDiff(EndOf(e), ClientSeq(lo)) : e \in FloorEntry(buf, ClientSeq(lo))}
               cover == IF \E n \in over : n > 0 THEN CHOOSE n \in over : TRUE ELSE 0
           IN  /\ cover \in Nat
               /\ \A e \in buf : Pos(e) <= lo => End(e) <= lo + cover
               /\ \A e \in buf : Pos(e) > lo => Pos(e) >= lo + cover
<1> DEFINE seq == ClientSeq(lo)
           floor == FloorEntry(buf, seq)
           over == {SeqDiff(EndOf(e), seq) : e \in floor}
           cover == IF \E n \in over : n > 0 THEN CHOOSE n \in over : TRUE ELSE 0
<1>1. \A e \in buf : IsEntry(e) /\ Pos(e) \in Nat /\ End(e) \in Nat /\ Pos(e) < End(e)
  BY EntryOrder DEF Buffered
<1>2. ClientBytes \in Nat /\ lo \in 0..(ClientBytes + 2) /\ lo \in Nat
  BY SessionAssumption
<1>3. \A e \in buf : SeqDiff(EndOf(e), seq) = End(e) - lo /\ (SeqGe(seq, e.seq) <=> lo >= Pos(e))
  BY <1>1, <1>2, EntryOrder
<1>4. \A e, f \in buf : SeqGe(e.seq, f.seq) <=> Pos(e) >= Pos(f)
  <2> SUFFICES ASSUME NEW e \in buf, NEW f \in buf
               PROVE  SeqGe(e.seq, f.seq) <=> Pos(e) >= Pos(f)
    OBVIOUS
  <2>1. f.seq = ClientSeq(Pos(f)) /\ Pos(f) \in 0..(ClientBytes + 2)
    BY <1>1, EntryOrder
  <2> QED
    BY <1>1, <2>1, EntryOrder
<1>5. floor = {e \in buf : Pos(e) <= lo /\ \A f \in buf : Pos(f) <= lo => Pos(e) >= Pos(f)}
  BY <1>1, <1>2, <1>3, <1>4 DEF FloorEntry
<1>6. \A e, f \in buf : e # f => End(e) <= Pos(f) \/ End(f) <= Pos(e)
  BY EntriesApart
<1>7. \A e, f \in floor : e = f
  BY <1>1, <1>5, <1>6
<1>8. \A e \in buf : Pos(e) <= lo /\ End(e) > lo => e \in floor
  BY <1>1, <1>2, <1>5, <1>6
<1>9. \A n \in over : \E e \in floor : n = End(e) - lo
  BY <1>3, <1>5
<1>10. \A e \in floor : (End(e) - lo) \in over
  BY <1>3, <1>5
<1>11. \A n, m \in over : n = m
  BY <1>7, <1>9
<1> HIDE DEF over, floor
<1> SUFFICES /\ cover \in Nat
             /\ \A e \in buf : Pos(e) <= lo => End(e) <= lo + cover
             /\ \A e \in buf : Pos(e) > lo => Pos(e) >= lo + cover
  BY DEF over, floor
<1>12. CASE \E n \in over : n > 0
  <2>1. PICK n \in over : n > 0 /\ cover = n
    BY <1>11, <1>12
  <2> HIDE DEF cover
  <2>2. PICK e \in floor : n = End(e) - lo
    BY <1>9
  <2>3. e \in buf /\ Pos(e) <= lo /\ End(e) = lo + n /\ n \in Nat
    BY <1>1, <1>2, <1>5, <2>1, <2>2
  <2>4. \A f \in buf : Pos(f) <= lo => End(f) <= lo + n
    BY <1>1, <1>2, <1>6, <2>1, <2>3
  <2>5. \A f \in buf : Pos(f) > lo => Pos(f) >= lo + n
    BY <1>1, <1>2, <1>6, <2>1, <2>3
  <2> QED
    BY <2>1, <2>3, <2>4, <2>5
<1>13. CASE ~ \E n \in over : n > 0
  <2>1. cover = 0
    BY <1>13
  <2> HIDE DEF cover
  <2>2. \A e \in buf : Pos(e) <= lo => End(e) <= lo
    <3> SUFFICES ASSUME NEW e \in buf, Pos(e) <= lo, End(e) > lo PROVE FALSE
      BY <1>1, <1>2
    <3>1. (End(e) - lo) \in over /\ End(e) - lo > 0
      BY <1>1, <1>2, <1>8, <1>10
    <3> QED
      BY <1>13, <3>1
  <2> QED
    BY <1>1, <1>2, <2>1, <2>2
<1> QED
  BY <1>12, <1>13

\* The entry at or after a place: the new bytes are cut where it starts.
LEMMA CeilingCuts ==
    ASSUME NEW buf, NEW bytes, Buffered(buf, bytes),
           NEW q \in 0..ClientBytes, NEW h \in q..ClientBytes
    PROVE  LET under == {SeqDiff(ClientSeq(h), e.seq) : e \in CeilingEntry(buf, ClientSeq(q))}
               cut == IF \E n \in under : n > 0 THEN CHOOSE n \in under : TRUE ELSE 0
           IN  /\ cut \in 0..(h - q)
               /\ \A e \in buf : Pos(e) >= q => Pos(e) >= h - cut
<1> DEFINE s == ClientSeq(q)
           ceiling == CeilingEntry(buf, s)
           under == {SeqDiff(ClientSeq(h), e.seq) : e \in ceiling}
           cut == IF \E n \in under : n > 0 THEN CHOOSE n \in under : TRUE ELSE 0
<1>1. \A e \in buf : IsEntry(e) /\ Pos(e) \in Nat /\ End(e) \in Nat /\ Pos(e) < End(e)
  BY EntryOrder DEF Buffered
<1>2. /\ ClientBytes \in Nat /\ q \in 0..(ClientBytes + 2) /\ q \in Nat
      /\ h \in 0..(ClientBytes + 2) /\ h \in Nat /\ q <= h
  BY SessionAssumption
<1>3. \A e \in buf : SeqDiff(ClientSeq(h), e.seq) = h - Pos(e) /\ (SeqGe(e.seq, s) <=> Pos(e) >= q)
  BY <1>1, <1>2, EntryOrder
<1>4. \A e, f \in buf : SeqGe(e.seq, f.seq) <=> Pos(e) >= Pos(f)
  <2> SUFFICES ASSUME NEW e \in buf, NEW f \in buf
               PROVE  SeqGe(e.seq, f.seq) <=> Pos(e) >= Pos(f)
    OBVIOUS
  <2>1. f.seq = ClientSeq(Pos(f)) /\ Pos(f) \in 0..(ClientBytes + 2)
    BY <1>1, EntryOrder
  <2> QED
    BY <1>1, <2>1, EntryOrder
<1>5. ceiling = {e \in buf : Pos(e) >= q /\ \A f \in buf : Pos(f) >= q => Pos(f) >= Pos(e)}
  BY <1>1, <1>2, <1>3, <1>4 DEF CeilingEntry
<1>6. \A n \in under : \E e \in ceiling : n = h - Pos(e)
  BY <1>3, <1>5
<1>7. \A e \in ceiling : (h - Pos(e)) \in under
  BY <1>3, <1>5
<1>8. \A n, m \in under : n = m
  <2> SUFFICES ASSUME NEW n \in under, NEW m \in under PROVE n = m
    OBVIOUS
  <2>1. PICK e \in ceiling, f \in ceiling : n = h - Pos(e) /\ m = h - Pos(f)
    BY <1>6
  <2>2. e \in buf /\ f \in buf /\ Pos(e) >= Pos(f) /\ Pos(f) >= Pos(e)
    BY <1>5
  <2> QED
    BY <1>1, <2>1, <2>2
<1>9. ASSUME NEW e \in buf, Pos(e) >= q PROVE \E f \in ceiling : Pos(e) >= Pos(f)
  <2> DEFINE T == {Pos(f) : f \in {g \in buf : Pos(g) >= q}}
  <2>1. T \in SUBSET Nat /\ Pos(e) \in T
    BY <1>1, <1>9
  <2>2. PICK m \in T : \A n \in T : m <= n
    BY <2>1, Least
  <2>3. PICK f \in buf : Pos(f) >= q /\ m = Pos(f)
    OBVIOUS
  <2>4. \A g \in buf : Pos(g) >= q => Pos(g) >= Pos(f)
    BY <1>1, <2>2, <2>3
  <2> QED
    BY <1>5, <1>9, <2>3, <2>4
<1> HIDE DEF under, ceiling
<1> SUFFICES /\ cut \in 0..(h - q)
             /\ \A e \in buf : Pos(e) >= q => Pos(e) >= h - cut
  BY DEF under, ceiling
<1>10. CASE \E n \in under : n > 0
  <2>1. PICK n \in under : n > 0 /\ cut = n
    BY <1>8, <1>10
  <2> HIDE DEF cut
  <2>2. PICK e \in ceiling : n = h - Pos(e)
    BY <1>6
  <2>3. e \in buf /\ Pos(e) >= q /\ \A f \in buf : Pos(f) >= q => Pos(f) >= Pos(e)
    BY <1>5
  <2> QED
    BY <1>1, <1>2, <2>1, <2>2, <2>3
<1>11. CASE ~ \E n \in under : n > 0
  <2>1. cut = 0
    BY <1>11
  <2> HIDE DEF cut
  <2>2. \A e \in buf : Pos(e) >= q => Pos(e) >= h
    <3> SUFFICES ASSUME NEW e \in buf, Pos(e) >= q PROVE Pos(e) >= h
      OBVIOUS
    <3>1. PICK f \in ceiling : Pos(e) >= Pos(f)
      BY <1>9
    <3>2. f \in buf /\ ~(h - Pos(f) > 0)
      BY <1>5, <1>7, <1>11
    <3> QED
      BY <1>1, <1>2, <3>1, <3>2
  <2> QED
    BY <1>1, <1>2, <2>1, <2>2
<1> QED
  BY <1>10, <1>11

\* bufferSegment keeps the bytes of a segment ahead of the next one expected that no entry
\* holds yet, or refuses them.
LEMMA BufferKeeps ==
    ASSUME NEW room, Buffered(reassem, reassemBytes), NEW lo \in 0..ClientBytes,
           NEW n \in Nat, lo + n <= ClientBytes
    PROVE  LET r == BufferSegment(Inbound(room), ClientSeq(lo), Piece(lo + 1, n))
           IN  /\ r.refused \in BOOLEAN /\ r.aborted = FALSE
               /\ r.rcv = rcvNxt /\ r.out = <<>>
               /\ Buffered(r.buf, r.bytes)
               /\ \A e \in r.buf : e \in reassem \/ Pos(e) >= lo
<1> DEFINE in == Inbound(room)
           seq == ClientSeq(lo)
           data == Piece(lo + 1, n)
           ahead == SeqDiff(seq, in.rcv)
           over == {SeqDiff(EndOf(e), seq) : e \in FloorEntry(in.buf, seq)}
           cover == IF \E m \in over : m > 0 THEN CHOOSE m \in over : TRUE ELSE 0
           s == SeqAdd(seq, cover)
           uncovered == Drop(data, cover)
           under == {SeqDiff(EndOf([seq |-> s, data |-> uncovered]), e.seq) :
                       e \in CeilingEntry(in.buf, s)}
           cut == IF \E m \in under : m > 0 THEN CHOOSE m \in under : TRUE ELSE 0
           d == Take(uncovered, uncovered.len - cut)
           others == {e \in in.buf : e.seq # s}
           replaced == {e.data.len : e \in in.buf \ others}
           freed == IF replaced = {} THEN 0 ELSE CHOOSE m \in replaced : TRUE
           r == BufferSegment(in, seq, data)
           kept == [in EXCEPT !.buf = others \cup {[seq |-> s, data |-> d]},
                              !.bytes = @ - freed + d.len]
<1>1. r = IF ahead <= 0 \/ ahead > ReasmCap THEN [in EXCEPT !.refused = TRUE]
          ELSE IF cover >= data.len \/ d.len = 0 THEN in
          ELSE IF \/ in.bytes + d.len > ReasmCap
                  \/ others = in.buf /\ Cardinality(in.buf) >= ReasmEntriesCap
          THEN [in EXCEPT !.refused = TRUE]
          ELSE kept
  BY DEF BufferSegment
<1>2. in = [rcv |-> rcvNxt, buf |-> reassem, bytes |-> reassemBytes,
            out |-> <<>>, room |-> room, aborted |-> FALSE, refused |-> FALSE]
  BY DEF Inbound
<1> SUFFICES /\ r.refused \in BOOLEAN /\ r.aborted = FALSE
             /\ r.rcv = rcvNxt /\ r.out = <<>>
             /\ Buffered(r.buf, r.bytes)
             /\ \A e \in r.buf : e \in reassem \/ Pos(e) >= lo
  OBVIOUS
<1>3. /\ cover \in Nat
      /\ \A e \in reassem : Pos(e) <= lo => End(e) <= lo + cover
      /\ \A e \in reassem : Pos(e) > lo => Pos(e) >= lo + cover
  <2> DEFINE over1 == {SeqDiff(EndOf(e), seq) : e \in FloorEntry(reassem, seq)}
             cover1 == IF \E m \in over1 : m > 0 THEN CHOOSE m \in over1 : TRUE ELSE 0
  <2>1. /\ cover1 \in Nat
        /\ \A e \in reassem : Pos(e) <= lo => End(e) <= lo + cover1
        /\ \A e \in reassem : Pos(e) > lo => Pos(e) >= lo + cover1
    BY FloorCovers
  <2>2. over = over1
    BY <1>2
  <2> HIDE DEF over, over1
  <2>3. cover = cover1
    BY <2>2
  <2> HIDE DEF cover, cover1
  <2> QED
    BY <2>1, <2>3
<1>4. data.from = lo + 1 /\ data.len = n
  BY DEF Piece
<1>5. ClientBytes \in Nat /\ ServerBytes \in Nat /\ lo \in Nat /\ lo \in 0..(ClientBytes + 2)
  BY SessionAssumption
<1> HIDE DEF over, cover, data
<1>6. ASSUME cover < n, d.len # 0
      PROVE  /\ d = Piece(lo + cover + 1, d.len) /\ d.len > 0 /\ s = ClientSeq(lo + cover)
             /\ \A e \in reassem : End(e) <= lo + cover \/ Pos(e) >= lo + cover + d.len
             /\ lo + cover \in 0..ClientBytes /\ d.len \in Nat /\ lo + cover + d.len <= lo + n
  <2>1. /\ lo + cover \in 0..ClientBytes /\ lo + n \in (lo + cover)..ClientBytes
        /\ lo + cover <= ClientBytes + 2
        /\ lo + cover \in 0..(ClientBytes + 2) /\ n - cover \in Nat
        /\ (lo + cover) + (n - cover) = lo + n /\ lo + n <= ClientBytes + 2
    BY <1>3, <1>5, <1>6
  <2>2. s = ClientSeq(lo + cover)
    BY <1>3, <1>5, <2>1, ClientSeqs
  <2>3. uncovered = Piece(lo + cover + 1, n - cover)
    BY <1>3, <1>4, <1>5, <1>6 DEF Drop, AtMost, Piece
  <2>4. uncovered.len = n - cover /\ uncovered.from = lo + cover + 1
    BY <2>3 DEF Piece
  <2>5. EndOf([seq |-> s, data |-> uncovered]) = ClientSeq(lo + n)
    <3>1. EndOf([seq |-> s, data |-> uncovered]) = SeqAdd(s, n - cover)
      BY <2>4 DEF EndOf
    <3> QED
      BY <2>1, <2>2, <3>1, ClientSeqs
  <2> DEFINE under1 == {SeqDiff(ClientSeq(lo + n), e.seq) :
                          e \in CeilingEntry(reassem, ClientSeq(lo + cover))}
             cut1 == IF \E m \in under1 : m > 0 THEN CHOOSE m \in under1 : TRUE ELSE 0
  <2>6. under = under1
    BY <1>2, <2>2, <2>5
  <2>7. /\ cut \in 0..((lo + n) - (lo + cover))
        /\ \A e \in reassem : Pos(e) >= lo + cover => Pos(e) >= (lo + n) - cut
    <3>1. /\ cut1 \in 0..((lo + n) - (lo + cover))
          /\ \A e \in reassem : Pos(e) >= lo + cover => Pos(e) >= (lo + n) - cut1
      BY <2>1, CeilingCuts
    <3> HIDE DEF under, under1
    <3>2. cut = cut1
      BY <2>6
    <3> HIDE DEF cut, cut1
    <3> QED
      BY <3>1, <3>2
  <2>8. d = Piece(lo + cover + 1, n - cover - cut) /\ d.len = n - cover - cut
    BY <2>4 DEF Take, Piece
  <2> HIDE DEF under, cut, uncovered, s, d
  <2>9. ASSUME NEW e \in reassem
        PROVE  End(e) <= lo + cover \/ Pos(e) >= lo + cover + d.len
    <3>1. IsEntry(e) /\ Pos(e) \in Nat
      BY EntryOrder DEF Buffered
    <3> QED
      BY <1>3, <1>5, <2>1, <2>7, <2>8, <3>1
  <2> QED
    BY <1>3, <1>5, <1>6, <2>1, <2>2, <2>7, <2>8, <2>9
<1>7. ASSUME cover < n, d.len # 0 PROVE others = reassem /\ freed = 0
  <2>1. ASSUME NEW e \in reassem PROVE e.seq # s
    <3>1. /\ Pos(e) \in Nat /\ End(e) \in Nat /\ Pos(e) < End(e)
          /\ \A q \in 0..(ClientBytes + 2) : e.seq = ClientSeq(q) <=> Pos(e) = q
      BY EntryOrder DEF Buffered
    <3>2. /\ End(e) <= lo + cover \/ Pos(e) >= lo + cover + d.len
          /\ lo + cover \in 0..ClientBytes /\ d.len \in Nat /\ d.len > 0
          /\ s = ClientSeq(lo + cover)
      BY <1>6, <1>7
    <3> HIDE DEF d, s
    <3>3. lo + cover \in 0..(ClientBytes + 2)
      BY <1>5, <3>2
    <3> QED
      BY <1>3, <1>5, <3>1, <3>2, <3>3
  <2>2. others = reassem
    BY <1>2, <2>1
  <2>3. replaced = {}
    BY <1>2, <2>2
  <2> QED
    BY <2>2, <2>3
<1> HIDE DEF s, d, others, freed, kept, r, ahead, in
<1>8. CASE r = in
  BY <1>2, <1>8
<1>9. CASE r = [in EXCEPT !.refused = TRUE]
  BY <1>2, <1>9
<1>10. CASE /\ r = kept /\ cover < n /\ d.len # 0
            /\ ~(in.bytes + d.len > ReasmCap)
            /\ ~(others = in.buf /\ Cardinality(in.buf) >= ReasmEntriesCap)
  <2> DEFINE x == [seq |-> s, data |-> d]
  <2>1. others = reassem /\ freed = 0
    BY <1>7, <1>10
  <2>2. /\ d = Piece(lo + cover + 1, d.len) /\ d.len > 0 /\ s = ClientSeq(lo + cover)
        /\ \A e \in reassem : End(e) <= lo + cover \/ Pos(e) >= lo + cover + d.len
        /\ lo + cover \in 0..ClientBytes /\ d.len \in Nat /\ lo + cover + d.len <= lo + n
    BY <1>6, <1>10
  <2>3. reassemBytes \in Nat /\ Cardinality(reassem) \in Nat
        /\ ReasmCap \in Nat /\ ReasmEntriesCap \in Nat
    BY HeldIsFinite, FS_CardinalityType, SessionAssumption DEF Buffered
  <2>4. r = [in EXCEPT !.buf = reassem \cup {x}, !.bytes = reassemBytes + d.len]
    <3>1. in.bytes - freed + d.len = reassemBytes + d.len
      BY <1>2, <2>1, <2>2, <2>3
    <3> QED
      BY <1>10, <2>1, <3>1 DEF kept
  <2>5. IsEntry(x) /\ x.data.len = d.len /\ Pos(x) = lo + cover
    <3>1. x.seq \in SeqNos
      <4>1. lo + cover \in 0..(ClientBytes + 2)
        BY <1>5, <2>2
      <4> QED
        BY <2>2, <4>1, ClientSeqs
    <3>2. d.from = lo + cover + 1
      BY <2>2 DEF Piece
    <3>3. d = [from |-> lo + cover + 1, len |-> d.len]
      BY <2>2 DEF Piece
    <3>4. lo + cover + 1 \in 1..(ClientBytes + ServerBytes + 1)
          /\ d.len \in 0..(ClientBytes + ServerBytes)
      BY <1>3, <1>5, <2>2
    <3>5. d \in Pieces
      BY <3>3, <3>4 DEF Pieces
    <3>6. lo + cover + 1 - 1 = lo + cover
          /\ lo + cover + 1 + d.len - 1 <= ClientBytes
      BY <1>3, <1>5, <2>2
    <3> QED
      BY <2>2, <3>1, <3>2, <3>5, <3>6 DEF IsEntry, Pos
  <2>6. \A e \in reassem : Apart(e, x)
    <3> SUFFICES ASSUME NEW e \in reassem PROVE Apart(e, x)
      OBVIOUS
    <3>1. e.data.from \in Nat /\ e.data.len \in Nat /\ x.data.from \in Nat /\ x.data.len \in Nat
      BY <2>5, EntrySeqs DEF Buffered
    <3>2. End(e) <= lo + cover \/ Pos(e) >= lo + cover + d.len
      BY <2>2
    <3> QED
      BY <1>3, <1>5, <2>2, <2>5, <3>1, <3>2 DEF Apart, Pos, End
  <2>7. reassemBytes + x.data.len <= ReasmCap /\ Cardinality(reassem) < ReasmEntriesCap
    BY <1>2, <1>10, <2>1, <2>2, <2>3
  <2>8. Buffered(reassem \cup {x}, reassemBytes + d.len)
    BY <2>5, <2>6, <2>7, BufferedAdd
  <2>9. Pos(x) >= lo
    BY <1>3, <1>5, <2>5
  <2> HIDE DEF x
  <2>10. /\ r.refused = FALSE /\ r.aborted = FALSE /\ r.rcv = rcvNxt /\ r.out = <<>>
         /\ r.buf = reassem \cup {x} /\ r.bytes = reassemBytes + d.len
    BY <1>2, <2>4
  <2> QED
    BY <2>8, <2>9, <2>10
<1> QED
  <2>1. ~(cover >= data.len) => cover < n
    BY <1>3, <1>4
  <2> QED
    BY <1>1, <1>8, <1>9, <1>10, <2>1

-----------------------------------------------------------------------------
(* Passing bytes on to the upstream *)

\* The first n bytes of the client's stream.
Stream(n) == [i \in 1..n |-> i]

LEMMA StreamIsSeq ==
    ASSUME NEW n \in Nat
    PROVE  Stream(n) \in Seq(Nat) /\ Len(Stream(n)) = n
BY DEF Stream

LEMMA StreamGrows ==
    ASSUME NEW n \in Nat, NEW len \in Nat
    PROVE  Stream(n) \o Positions(Piece(n + 1, len)) = Stream(n + len)
<1> DEFINE more == [i \in 1..len |-> n + i]
<1>1. Positions(Piece(n + 1, len)) = more
  <2>1. \A i \in 1..len : n + 1 + i - 1 = n + i
    OBVIOUS
  <2> QED
    BY <2>1 DEF Positions, Piece
<1>2. more \in Seq(Nat) /\ Len(more) = len /\ Stream(n) \in Seq(Nat) /\ Len(Stream(n)) = n
  BY StreamIsSeq
<1>3. /\ Stream(n) \o more \in Seq(Nat) /\ Len(Stream(n) \o more) = n + len
      /\ \A i \in 1..(n + len) :
            (Stream(n) \o more)[i] = IF i <= n THEN Stream(n)[i] ELSE more[i - n]
  <2> HIDE DEF more
  <2>1. /\ Stream(n) \o more \in Seq(Nat)
        /\ Len(Stream(n) \o more) = Len(Stream(n)) + Len(more)
        /\ \A i \in 1..(Len(Stream(n)) + Len(more)) :
              (Stream(n) \o more)[i] = IF i <= Len(Stream(n)) THEN Stream(n)[i]
                                       ELSE more[i - Len(Stream(n))]
    BY <1>2, ConcatProperties
  <2> QED
    BY <1>2, <2>1
<1>4. \A i \in 1..(n + len) : (Stream(n) \o more)[i] = i
  BY <1>3 DEF Stream
<1>5. Stream(n + len) \in Seq(Nat) /\ Len(Stream(n + len)) = n + len
      /\ \A i \in 1..(n + len) : Stream(n + len)[i] = i
  BY StreamIsSeq DEF Stream
<1> HIDE DEF more
<1> QED
  BY <1>1, <1>3, <1>4, <1>5, SeqEqual

LEMMA AppendInTwo ==
    ASSUME NEW a \in Seq(Nat), NEW b \in Seq(Nat), NEW c \in Seq(Nat)
    PROVE  (a \o b) \o c = a \o (b \o c)
OBVIOUS

LEMMA PositionsAreSeq ==
    ASSUME NEW from \in Nat \ {0}, NEW len \in Nat
    PROVE  Positions(Piece(from, len)) \in Seq(Nat)
<1>1. \A i \in 1..len : from + i - 1 \in Nat
  OBVIOUS
<1> QED
  BY <1>1 DEF Positions, Piece

\* What processRcv works on once the first p bytes are acknowledged, and what makes it sound:
\* the buffer is, and with the bytes to be written the upstream has a prefix of the stream,
\* all p bytes unless it is half closed or its overflow ended the flow.
Intake(p, buf, bytes, out, room, aborted) ==
    [rcv |-> ClientSeq(p), buf |-> buf, bytes |-> bytes, out |-> out, room |-> room,
     aborted |-> aborted, refused |-> FALSE]

IntakeSound(p, buf, bytes, out, aborted) ==
    /\ aborted \in BOOLEAN /\ p \in 0..ClientBytes
    /\ Buffered(buf, bytes)
    /\ aborted => buf = {} /\ bytes = 0
    /\ out \in Seq(Nat)
    /\ \E n \in 0..p : /\ written \o out = Stream(n)
                       /\ upstreamEof \/ aborted \/ n = p

SoundAt(in, p) ==
    \E buf, bytes, out, room, aborted :
        /\ in = Intake(p, buf, bytes, out, room, aborted)
        /\ IntakeSound(p, buf, bytes, out, aborted)

LEMMA SoundIntro ==
    ASSUME NEW p, NEW buf, NEW bytes, NEW out, NEW room, NEW aborted,
           IntakeSound(p, buf, bytes, out, aborted)
    PROVE  SoundAt(Intake(p, buf, bytes, out, room, aborted), p)
BY DEF SoundAt

\* No entry is left at or before the bytes acknowledged.
Settled(buf, p) == \A e \in buf : Pos(e) > p

\* acceptInbound, on the bytes expected next.
LEMMA AcceptSound ==
    ASSUME NEW p, NEW buf, NEW bytes, NEW out, NEW room,
           IntakeSound(p, buf, bytes, out, FALSE),
           NEW len \in Nat, p + len <= ClientBytes, written \in Seq(Nat)
    PROVE  LET got == AcceptInbound(Intake(p, buf, bytes, out, room, FALSE), Piece(p + 1, len))
           IN  SoundAt(got, p + len) /\ (got.buf = buf \/ got.buf = {})
<1> DEFINE data == Piece(p + 1, len)
           in == Intake(p, buf, bytes, out, room, FALSE)
           got == AcceptInbound(in, data)
<1> SUFFICES SoundAt(got, p + len) /\ (got.buf = buf \/ got.buf = {})
  OBVIOUS
<1>1. /\ ClientBytes \in Nat /\ p \in Nat /\ p \in 0..(ClientBytes + 2)
      /\ p + len \in 0..ClientBytes /\ p + len <= ClientBytes + 2
  BY SessionAssumption DEF IntakeSound
<1>2. data.len = len /\ Positions(data) \in Seq(Nat)
  BY <1>1, PositionsAreSeq DEF Piece
<1>3. PICK n \in 0..p : written \o out = Stream(n) /\ (upstreamEof \/ n = p)
  BY DEF IntakeSound
<1>4. n \in Nat /\ n \in 0..(p + len) /\ p + len \in 0..(p + len)
  BY <1>1, <1>3
<1>5. Stream(p) \o Positions(data) = Stream(p + len)
  BY <1>1, StreamGrows
<1> HIDE DEF data
<1>7. SeqAdd(ClientSeq(p), data.len) = ClientSeq(p + len)
  <2>1. SeqAdd(ClientSeq(p), len) = ClientSeq(p + len)
    BY <1>1, ClientSeqs
  <2> QED
    BY <1>2, <2>1
<1>8. CASE upstreamEof
  <2>1. got = Intake(p + len, buf, bytes, out, room, FALSE)
    BY <1>7, <1>8 DEF AcceptInbound, Intake
  <2> HIDE DEF got
  <2>2. IntakeSound(p + len, buf, bytes, out, FALSE)
    BY <1>1, <1>3, <1>4, <1>8 DEF IntakeSound
  <2>3. got.buf = buf
    BY <2>1 DEF Intake
  <2> QED
    BY <2>1, <2>2, <2>3, SoundIntro
<1>9. CASE ~upstreamEof /\ room = 0
  <2>1. got = Intake(p + len, {}, 0, out, room, TRUE)
    BY <1>7, <1>9 DEF AcceptInbound, Intake
  <2> HIDE DEF got
  <2>2. IntakeSound(p + len, {}, 0, out, TRUE)
    BY <1>1, <1>3, <1>4, EmptyBuffered DEF IntakeSound
  <2>3. got.buf = {}
    BY <2>1 DEF Intake
  <2> QED
    BY <2>1, <2>2, <2>3, SoundIntro
<1>10. CASE ~upstreamEof /\ room # 0
  <2> DEFINE out2 == out \o Positions(data)
             room2 == room - 1
  <2>1. got = Intake(p + len, buf, bytes, out2, room2, FALSE)
    BY <1>7, <1>10 DEF AcceptInbound, Intake
  <2>2. out \in Seq(Nat) /\ out2 \in Seq(Nat)
    BY <1>2, ConcatProperties DEF IntakeSound
  <2>3. written \o out2 = Stream(p + len)
    <3>2. written \o out2 = (written \o out) \o Positions(data)
      <4> DEFINE new == Positions(data)
      <4>1. written \in Seq(Nat) /\ out \in Seq(Nat) /\ new \in Seq(Nat)
        BY <1>2, <2>2
      <4> HIDE DEF new
      <4>2. (written \o out) \o new = written \o (out \o new)
        BY <4>1, AppendInTwo
      <4> QED
        BY <4>2 DEF new
    <3>3. written \o out = Stream(p)
      BY <1>3, <1>10
    <3> HIDE DEF out2
    <3> QED
      BY <1>5, <3>2, <3>3
  <2> HIDE DEF got, out2, room2
  <2>4. IntakeSound(p + len, buf, bytes, out2, FALSE)
    BY <1>1, <1>4, <2>2, <2>3 DEF IntakeSound
  <2>5. got.buf = buf
    BY <2>1 DEF Intake
  <2> QED
    BY <2>1, <2>4, <2>5, SoundIntro
<1> QED
  BY <1>8, <1>9, <1>10

-----------------------------------------------------------------------------
(* Draining the buffer *)

\* The first entry of a buffer that has one.
LEMMA FirstExists ==
    ASSUME NEW buf, NEW bytes, Buffered(buf, bytes), buf # {}
    PROVE  LET first == CHOOSE e \in buf : \A f \in buf : SeqGe(f.seq, e.seq)
           IN  first \in buf /\ \A f \in buf : Pos(f) >= Pos(first)
<1>1. \A e \in buf : IsEntry(e) /\ Pos(e) \in Nat
  BY EntryOrder DEF Buffered
<1>2. \A e, f \in buf : SeqGe(f.seq, e.seq) <=> Pos(f) >= Pos(e)
  <2> SUFFICES ASSUME NEW e \in buf, NEW f \in buf
               PROVE  SeqGe(f.seq, e.seq) <=> Pos(f) >= Pos(e)
    OBVIOUS
  <2>1. e.seq = ClientSeq(Pos(e)) /\ Pos(e) \in 0..(ClientBytes + 2)
    BY <1>1, EntryOrder
  <2> QED
    BY <1>1, <2>1, EntryOrder
<1>3. \E e \in buf : \A f \in buf : Pos(f) >= Pos(e)
  <2> DEFINE T == {Pos(e) : e \in buf}
  <2>1. T \in SUBSET Nat /\ T # {}
    BY <1>1
  <2>2. PICK m \in T : \A n \in T : m <= n
    BY <2>1, Least
  <2> QED
    BY <1>1, <2>2
<1>4. \E e \in buf : \A f \in buf : SeqGe(f.seq, e.seq)
  BY <1>2, <1>3
<1> DEFINE first == CHOOSE e \in buf : \A f \in buf : SeqGe(f.seq, e.seq)
<1>5. first \in buf /\ \A f \in buf : SeqGe(f.seq, first.seq)
  BY <1>4
<1> HIDE DEF first
<1>6. first \in buf /\ \A f \in buf : Pos(f) >= Pos(first)
  BY <1>2, <1>5
<1> QED
  BY <1>6 DEF first

\* One turn of the loop leaves a settled buffer alone; otherwise it takes one entry out, or
\* the overflow of the upstream empties the buffer.
LEMMA DrainOneSound ==
    ASSUME NEW in, NEW p, SoundAt(in, p), written \in Seq(Nat)
    PROVE  /\ Settled(in.buf, p) => DrainOne(in) = in
           /\ ~Settled(in.buf, p) =>
                 \E p2 \in p..ClientBytes :
                    /\ SoundAt(DrainOne(in), p2)
                    /\ \/ DrainOne(in).buf = {}
                       \/ Cardinality(DrainOne(in).buf) = Cardinality(in.buf) - 1
<1>1. PICK buf, bytes, out, room, aborted :
          /\ in = Intake(p, buf, bytes, out, room, aborted)
          /\ IntakeSound(p, buf, bytes, out, aborted)
  BY DEF SoundAt
<1> DEFINE first == CHOOSE e \in buf : \A f \in buf : SeqGe(f.seq, e.seq)
           overlap == SeqDiff(ClientSeq(p), first.seq)
           fresh == Drop(first.data, overlap)
           rest == Intake(p, buf \ {first}, bytes - first.data.len, out, room, FALSE)
<1>2. in.buf = buf /\ in.rcv = ClientSeq(p) /\ in.bytes = bytes
  BY <1>1 DEF Intake
<1>3. CASE buf = {}
  BY <1>2, <1>3 DEF Settled, DrainOne
<1>4. CASE buf # {}
  <2>0. DrainOne(in) = IF overlap < 0 THEN in
                       ELSE IF fresh.len > 0 THEN AcceptInbound(rest, fresh) ELSE rest
    <3>1. aborted = FALSE
      BY <1>1, <1>4 DEF IntakeSound
    <3>2. rest = [in EXCEPT !.buf = @ \ {first}, !.bytes = @ - first.data.len]
      <4> DEFINE buf2 == buf \ {first}
                 bytes2 == bytes - first.data.len
      <4> HIDE DEF buf2, bytes2
      <4>1. ASSUME NEW x, x = [Intake(p, buf, bytes, out, room, FALSE) EXCEPT !.buf = buf2,
                                                                              !.bytes = bytes2]
            PROVE  x = Intake(p, buf2, bytes2, out, room, FALSE)
        BY <4>1 DEF Intake
      <4>2. [in EXCEPT !.buf = @ \ {first}, !.bytes = @ - first.data.len]
            = [in EXCEPT !.buf = buf2, !.bytes = bytes2]
        BY <1>2 DEF buf2, bytes2
      <4> QED
        BY <1>1, <3>1, <4>1, <4>2 DEF buf2, bytes2
    <3> HIDE DEF rest
    <3> QED
      BY <1>2, <1>4, <3>2 DEF DrainOne
  <2> HIDE DEF rest
  <2>1. first \in buf /\ \A f \in buf : Pos(f) >= Pos(first)
    BY <1>1, <1>4, FirstExists DEF IntakeSound
  <2> HIDE DEF first
  <2>2. Buffered(buf, bytes) /\ p \in 0..ClientBytes /\ ClientBytes \in Nat
        /\ aborted = FALSE /\ IsEntry(first)
    BY <1>1, <1>4, <2>1, SessionAssumption DEF IntakeSound, Buffered
  <2>3. /\ Pos(first) \in Nat /\ End(first) \in 0..ClientBytes /\ Pos(first) < End(first)
        /\ first.data.len = End(first) - Pos(first) /\ overlap = p - Pos(first)
        /\ first.data.from = Pos(first) + 1
    <3>1. p \in 0..(ClientBytes + 2) /\ first.data.from \in Nat
      BY <2>2, EntrySeqs
    <3> QED
      BY <2>2, <3>1, EntryOrder DEF Pos
  <2> HIDE DEF overlap
  <2>4. Settled(buf, p) <=> overlap < 0
    <3>1. \A e \in buf : Pos(e) \in Nat
      BY <2>2, EntryOrder DEF Buffered
    <3> QED
      BY <2>1, <2>2, <2>3, <3>1 DEF Settled
  <2>5. ASSUME ~Settled(buf, p)
        PROVE  \E p2 \in p..ClientBytes :
                    /\ SoundAt(DrainOne(in), p2)
                    /\ \/ DrainOne(in).buf = {}
                       \/ Cardinality(DrainOne(in).buf) = Cardinality(buf) - 1
    <3> DEFINE buf2 == buf \ {first}
               bytes2 == bytes - first.data.len
    <3>1. overlap \in Nat /\ p >= Pos(first)
      BY <2>2, <2>3, <2>4, <2>5
    <3>2. IntakeSound(p, buf2, bytes2, out, FALSE) /\ Cardinality(buf2) = Cardinality(buf) - 1
      BY <1>1, <2>1, <2>2, BufferedRemove DEF IntakeSound
    <3>3. rest = Intake(p, buf2, bytes2, out, room, FALSE)
      BY <2>2 DEF rest
    <3>4. fresh.len = first.data.len - AtMost(overlap, first.data.len)
          /\ fresh = Piece(first.data.from + AtMost(overlap, first.data.len),
                           first.data.len - AtMost(overlap, first.data.len))
      BY DEF Drop, Piece
    <3> HIDE DEF buf2, bytes2, fresh
    <3>5. CASE fresh.len > 0
      <4> DEFINE len == End(first) - p
      <4>1. /\ fresh = Piece(p + 1, len) /\ len \in Nat /\ p + len = End(first)
            /\ p + len <= ClientBytes /\ p + len \in p..ClientBytes
        <5>1. overlap < first.data.len
          BY <2>2, <2>3, <3>1, <3>4, <3>5 DEF AtMost
        <5>2. /\ first.data.from + AtMost(overlap, first.data.len) = p + 1
              /\ first.data.len - AtMost(overlap, first.data.len) = len
              /\ len \in Nat /\ p + len = End(first)
              /\ p + len <= ClientBytes /\ p + len \in p..ClientBytes
          BY <2>2, <2>3, <3>1, <5>1 DEF AtMost
        <5> QED
          BY <3>4, <5>2
      <4> HIDE DEF len
      <4> DEFINE got == AcceptInbound(Intake(p, buf2, bytes2, out, room, FALSE), Piece(p + 1, len))
      <4>2. SoundAt(got, p + len) /\ (got.buf = buf2 \/ got.buf = {})
        BY <3>2, <4>1, AcceptSound
      <4>3. DrainOne(in) = got
        BY <2>0, <2>4, <2>5, <3>3, <3>5, <4>1
      <4> HIDE DEF got
      <4> QED
        BY <3>2, <4>1, <4>2, <4>3
    <3>6. CASE ~(fresh.len > 0)
      <4>1. DrainOne(in) = rest
        BY <2>0, <2>4, <2>5, <3>6
      <4>2. SoundAt(rest, p) /\ rest.buf = buf2
        BY <3>2, <3>3, SoundIntro DEF Intake
      <4> QED
        BY <2>2, <3>2, <4>1, <4>2
    <3> QED
      BY <3>5, <3>6
  <2> QED
    BY <1>2, <2>0, <2>4, <2>5
<1> QED
  BY <1>3, <1>4

\* g gives what each of k turns of drainReassem leaves.
Draining(g, k, in) == g = [n \in 0..k |-> IF n = 0 THEN in ELSE DrainOne(g[n - 1])]

\* The recursive function of drainReassem exists, turn after turn.
LEMMA DrainTurns ==
    ASSUME NEW k \in Nat, NEW in
    PROVE  \E g : Draining(g, k, in)
<1> DEFINE S == {m \in Nat :
                   \E g : g = [n \in 0..m |-> IF n = 0 THEN in ELSE DrainOne(g[n - 1])]}
<1>1. 0 \in S
  <2> DEFINE g == [n \in 0..0 |-> in]
  <2>1. g = [n \in 0..0 |-> IF n = 0 THEN in ELSE DrainOne(g[n - 1])]
    OBVIOUS
  <2> HIDE DEF g
  <2> QED
    BY <2>1
<1>2. ASSUME NEW m \in S PROVE m + 1 \in S
  <2>1. m \in Nat
    OBVIOUS
  <2>2. PICK g : g = [n \in 0..m |-> IF n = 0 THEN in ELSE DrainOne(g[n - 1])]
    OBVIOUS
  <2> DEFINE h == [n \in 0..(m + 1) |-> IF n = m + 1 THEN DrainOne(g[m]) ELSE g[n]]
  <2>3. ASSUME NEW n \in 0..(m + 1)
        PROVE  h[n] = IF n = 0 THEN in ELSE DrainOne(h[n - 1])
    <3>1. CASE n = m + 1
      <4>1. n # 0 /\ n - 1 = m /\ m \in 0..(m + 1) /\ m # m + 1
        BY <2>1, <3>1
      <4> QED
        BY <3>1, <4>1
    <3>2. CASE n # m + 1
      <4>1. n \in 0..m /\ (n # 0 => n - 1 \in 0..(m + 1) /\ n - 1 # m + 1)
        BY <2>1, <3>2
      <4>2. h[n] = g[n] /\ (n # 0 => h[n - 1] = g[n - 1])
        BY <3>2, <4>1
      <4> HIDE DEF h
      <4> QED
        BY <2>2, <4>1, <4>2
    <3> QED
      BY <3>1, <3>2
  <2>4. h = [n \in 0..(m + 1) |-> h[n]]
    OBVIOUS
  <2> HIDE DEF h
  <2>5. h = [n \in 0..(m + 1) |-> IF n = 0 THEN in ELSE DrainOne(h[n - 1])]
    BY <2>3, <2>4
  <2> QED
    BY <2>1, <2>5
<1> HIDE DEF S
<1>3. S \in SUBSET Nat
  BY DEF S
<1>4. k \in S
  BY <1>1, <1>2, <1>3, SetInduction
<1> QED
  BY <1>4 DEF S, Draining

\* drainReassem: as many turns as the buffer had entries settle it.
LEMMA DrainReassemSound ==
    ASSUME NEW in, NEW p, SoundAt(in, p), written \in Seq(Nat),
           Cardinality(reassem) \in Nat, Cardinality(in.buf) <= Cardinality(reassem)
    PROVE  \E p2 \in p..ClientBytes :
              SoundAt(DrainReassem(in), p2) /\ Settled(DrainReassem(in).buf, p2)
<1> DEFINE k == Cardinality(reassem)
           after == CHOOSE g : g = [n \in 0..k |-> IF n = 0 THEN in ELSE DrainOne(g[n - 1])]
<1>1. DrainReassem(in) = after[k]
  BY DEF DrainReassem
<1>2. after = [n \in 0..k |-> IF n = 0 THEN in ELSE DrainOne(after[n - 1])]
  <2> HIDE DEF k
  <2>1. k \in Nat
    BY DEF k
  <2>2. \E g : Draining(g, k, in)
    BY <2>1, DrainTurns
  <2> QED
    BY <2>2 DEF Draining
<1> HIDE DEF after
<1> DEFINE Good(n) == \E p2 \in p..ClientBytes :
                         /\ SoundAt(after[n], p2)
                         /\ Settled(after[n].buf, p2) \/ Cardinality(after[n].buf) <= k - n
           S == {n \in Nat : n <= k => Good(n)}
<1>3. \A q, x : SoundAt(x, q) => /\ q \in 0..ClientBytes /\ IsFiniteSet(x.buf)
                                /\ Cardinality(x.buf) \in Nat
  <2> SUFFICES ASSUME NEW q, NEW x, SoundAt(x, q)
               PROVE  /\ q \in 0..ClientBytes /\ IsFiniteSet(x.buf)
                      /\ Cardinality(x.buf) \in Nat
    OBVIOUS
  <2>1. PICK buf, bytes, out, room, aborted :
          /\ x = Intake(q, buf, bytes, out, room, aborted)
          /\ IntakeSound(q, buf, bytes, out, aborted)
    BY DEF SoundAt
  <2>2. x.buf = buf
    BY <2>1 DEF Intake
  <2> QED
    BY <2>1, <2>2, FS_CardinalityType DEF IntakeSound, Buffered
<1>4. k \in Nat /\ ClientBytes \in Nat /\ p \in 0..ClientBytes
  BY <1>3, SessionAssumption
<1>5. 0 \in S
  <2>1. after[0] = in
    BY <1>2, <1>4
  <2> HIDE DEF k
  <2>2. Cardinality(after[0].buf) <= k - 0 /\ p \in p..ClientBytes
    BY <1>3, <1>4, <2>1 DEF k
  <2> QED
    BY <2>1, <2>2
<1>6. ASSUME NEW n \in S PROVE n + 1 \in S
  <2> HIDE DEF k
  <2> SUFFICES ASSUME n + 1 <= k PROVE Good(n + 1)
    OBVIOUS
  <2>1. n \in Nat /\ n + 1 \in 0..k /\ n + 1 # 0 /\ n + 1 - 1 = n /\ Good(n)
    BY <1>4
  <2>2. after[n + 1] = DrainOne(after[n])
    <3>1. \A m \in 0..k : after[m] = IF m = 0 THEN in ELSE DrainOne(after[m - 1])
      BY <1>2, Zenon
    <3> QED
      BY <2>1, <3>1
  <2>3. PICK p2 \in p..ClientBytes :
           /\ SoundAt(after[n], p2)
           /\ Settled(after[n].buf, p2) \/ Cardinality(after[n].buf) <= k - n
    BY <2>1
  <2>4. CASE Settled(after[n].buf, p2)
    <3>1. after[n + 1] = after[n]
      BY <2>2, <2>3, <2>4, DrainOneSound
    <3> QED
      BY <2>3, <2>4, <3>1
  <2>5. CASE ~Settled(after[n].buf, p2)
    <3>1. PICK p3 \in p2..ClientBytes :
            /\ SoundAt(after[n + 1], p3)
            /\ \/ after[n + 1].buf = {}
               \/ Cardinality(after[n + 1].buf) = Cardinality(after[n].buf) - 1
      BY <2>2, <2>3, <2>5, DrainOneSound
    <3>2. p3 \in p..ClientBytes
      BY <1>4, <2>3, <3>1
    <3>3. CASE after[n + 1].buf = {}
      BY <3>1, <3>2, <3>3 DEF Settled
    <3>4. CASE Cardinality(after[n + 1].buf) = Cardinality(after[n].buf) - 1
      <4>1. Cardinality(after[n + 1].buf) <= k - (n + 1)
        BY <1>3, <1>4, <2>1, <2>3, <2>5, <3>4
      <4> QED
        BY <3>1, <3>2, <4>1
    <3> QED
      BY <3>1, <3>3, <3>4
  <2> QED
    BY <2>4, <2>5
<1> HIDE DEF S
<1>7. S \in SUBSET Nat
  BY DEF S
<1>8. k \in S
  BY <1>4, <1>5, <1>6, <1>7, SetInduction
<1>9. Good(k)
  BY <1>4, <1>8 DEF S
<1>10. PICK p2 \in p..ClientBytes :
          /\ SoundAt(after[k], p2)
          /\ Settled(after[k].buf, p2) \/ Cardinality(after[k].buf) <= k - k
  BY <1>9
<1>11. Settled(after[k].buf, p2)
  <2> SUFFICES ASSUME Cardinality(after[k].buf) <= k - k PROVE after[k].buf = {}
    BY <1>10 DEF Settled
  <2>1. IsFiniteSet(after[k].buf) /\ Cardinality(after[k].buf) \in Nat
    BY <1>3, <1>10
  <2>2. Cardinality(after[k].buf) = 0
    BY <1>4, <2>1
  <2> QED
    BY <2>1, <2>2, FS_EmptySet
<1> QED
  BY <1>1, <1>10, <1>11

\* Where the receive side of a live session stands: p bytes acknowledged (the client's FIN
\* counts as one more), everything in the buffer ahead of them, and n bytes written.
Standing(p, n) ==
    /\ p \in 0..(ClientBytes + 1) /\ rcvNxt = ClientSeq(p)
    /\ Buffered(reassem, reassemBytes) /\ Settled(reassem, p)
    /\ n \in Nat /\ n <= p /\ n <= ClientBytes /\ written = Stream(n)
    /\ upstreamEof \/ n = p \/ n = ClientBytes

\* A segment of the client's stream, carrying n bytes after its first lo.
InOrder(seg, lo, n) ==
    /\ lo \in 0..ClientBytes /\ n \in Nat /\ lo + n <= ClientBytes
    /\ seg.seq = ClientSeq(lo) /\ seg.data = Piece(lo + 1, n)

\* processRcv's data part: the segment is refused, or leaves everything in place but perhaps
\* some bytes buffered, or acknowledges bytes and settles the buffer.
LEMMA ReceiveSound ==
    ASSUME NEW p, NEW n, Standing(p, n), NEW seg, NEW lo, NEW len, InOrder(seg, lo, len),
           NEW room
    PROVE  LET r == ReceiveData(seg, room)
           IN  \/ r.refused = TRUE /\ r.aborted = FALSE
               \/ /\ r.refused = FALSE /\ r.aborted = FALSE /\ r.rcv = rcvNxt /\ r.out = <<>>
                  /\ Buffered(r.buf, r.bytes) /\ Settled(r.buf, p)
               \/ \E p2 \in p..ClientBytes : SoundAt(r, p2) /\ Settled(r.buf, p2)
<1> DEFINE back == SeqDiff(rcvNxt, seg.seq)
           data == IF back > 0 THEN Drop(seg.data, back) ELSE seg.data
           r == ReceiveData(seg, room)
<1>1. r = IF data.len = 0 THEN Inbound(room)
          ELSE IF back >= 0 THEN DrainReassem(AcceptInbound(Inbound(room), data))
          ELSE BufferSegment(Inbound(room), seg.seq, data)
  BY DEF ReceiveData
<1>2. /\ ClientBytes \in Nat /\ p \in Nat /\ p <= ClientBytes + 1 /\ lo \in Nat /\ len \in Nat
      /\ n \in Nat /\ p \in 0..(ClientBytes + 2) /\ lo \in 0..(ClientBytes + 2)
      /\ lo + len <= ClientBytes /\ seg.data.len = len /\ seg.data.from = lo + 1
  BY SessionAssumption DEF Standing, InOrder, Piece
<1>3. back = p - lo
  BY <1>2, ClientSeqs DEF Standing, InOrder
<1> HIDE DEF back
<1>4. CASE data.len = 0
  <2>1. r = Inbound(room)
    BY <1>1, <1>4
  <2> HIDE DEF r
  <2>2. /\ r.refused = FALSE /\ r.aborted = FALSE /\ r.rcv = rcvNxt /\ r.out = <<>>
        /\ r.buf = reassem /\ r.bytes = reassemBytes
    BY <2>1 DEF Inbound
  <2>3. Buffered(r.buf, r.bytes) /\ Settled(r.buf, p)
    BY <2>2 DEF Standing
  <2> QED
    BY <2>2, <2>3 DEF r
<1>5. CASE data.len # 0 /\ back >= 0
  <2> DEFINE more == lo + len - p
  <2>1. more \in Nat /\ p + more <= ClientBytes /\ data = Piece(p + 1, more)
    <3>1. CASE back > 0
      <4>1. data = Piece(lo + 1 + AtMost(back, len), len - AtMost(back, len))
        BY <1>2, <3>1 DEF Drop
      <4>2. data.len = len - AtMost(back, len)
        BY <4>1 DEF Piece
      <4>3. back < len /\ AtMost(back, len) = back
        BY <1>2, <1>3, <1>5, <4>2 DEF AtMost
      <4>4. /\ lo + 1 + AtMost(back, len) = p + 1 /\ len - AtMost(back, len) = more
            /\ more \in Nat /\ p + more <= ClientBytes
        BY <1>2, <1>3, <4>3
      <4> QED
        BY <4>1, <4>4
    <3>2. CASE ~(back > 0)
      <4>1. p = lo /\ data = Piece(lo + 1, len)
        BY <1>2, <1>3, <1>5, <3>2 DEF InOrder
      <4> QED
        BY <1>2, <4>1
    <3> QED
      BY <3>1, <3>2
  <2> DEFINE got == AcceptInbound(Inbound(room), data)
  <2>2. Inbound(room) = Intake(p, reassem, reassemBytes, <<>>, room, FALSE)
    BY DEF Inbound, Intake, Standing
  <2>3. written \in Seq(Nat) /\ written \o <<>> = written
    BY <1>2, StreamIsSeq, ConcatEmptySeq DEF Standing
  <2>4. IntakeSound(p, reassem, reassemBytes, <<>>, FALSE)
    <3>1. p \in 0..ClientBytes /\ n \in 0..p /\ (upstreamEof \/ n = p)
      BY <1>2, <2>1 DEF Standing
    <3>2. <<>> \in Seq(Nat)
      OBVIOUS
    <3> QED
      BY <2>3, <3>1, <3>2 DEF IntakeSound, Standing
  <2> HIDE DEF data, more
  <2>5. SoundAt(got, p + more) /\ (got.buf = reassem \/ got.buf = {})
    BY <2>1, <2>2, <2>3, <2>4, AcceptSound
  <2> HIDE DEF got
  <2>6. Cardinality(reassem) \in Nat /\ Cardinality(got.buf) <= Cardinality(reassem)
    <3>1. IsFiniteSet(reassem) /\ Cardinality(reassem) \in Nat /\ Cardinality({}) = 0
      BY <2>4, FS_EmptySet, FS_CardinalityType DEF IntakeSound, Buffered
    <3> QED
      BY <2>5, <3>1
  <2>7. PICK p2 \in (p + more)..ClientBytes :
           SoundAt(DrainReassem(got), p2) /\ Settled(DrainReassem(got).buf, p2)
    BY <2>3, <2>5, <2>6, DrainReassemSound
  <2>8. p2 \in p..ClientBytes /\ r = DrainReassem(got)
    BY <1>1, <1>2, <1>5, <2>1, <2>7 DEF got
  <2> HIDE DEF r
  <2>9. \E q \in p..ClientBytes : SoundAt(r, q) /\ Settled(r.buf, q)
    BY <2>7, <2>8
  <2> QED
    BY <2>9 DEF r
<1>6. CASE data.len # 0 /\ back < 0
  <2>1. data = Piece(lo + 1, len) /\ seg.seq = ClientSeq(lo) /\ p < lo
    BY <1>2, <1>3, <1>6 DEF InOrder
  <2>2. r = BufferSegment(Inbound(room), ClientSeq(lo), Piece(lo + 1, len))
    BY <1>1, <1>2, <1>3, <1>6, <2>1
  <2> HIDE DEF r
  <2>3. /\ r.refused \in BOOLEAN /\ r.aborted = FALSE
        /\ r.rcv = rcvNxt /\ r.out = <<>>
        /\ Buffered(r.buf, r.bytes)
        /\ \A e \in r.buf : e \in reassem \/ Pos(e) >= lo
    BY <1>2, <2>2, BufferKeeps DEF Standing, InOrder
  <2>4. Settled(r.buf, p)
    <3>1. \A e \in r.buf : Pos(e) \in Nat
      BY <2>3, EntryOrder DEF Buffered
    <3> QED
      BY <1>2, <2>1, <2>3, <3>1 DEF Settled, Standing
  <2> QED
    BY <2>3, <2>4 DEF r
<1>7. back >= 0 \/ back < 0
  BY <1>2, <1>3
<1> QED
  BY <1>4, <1>5, <1>6, <1>7

-----------------------------------------------------------------------------
(* The inductive invariant of the receive side *)

\* While the session is live the receive side stands somewhere in the stream, past its end
\* exactly when the FIN was consumed, and the upstream was told of it; before the SYN
\* nothing has come in, and a session that ended holds nothing.
RcvInv ==
    /\ clientFinDone \in BOOLEAN /\ closeOuts \in {0, 1}
    /\ clientFinSeq \in {None, ClientSeq(ClientBytes)}
    /\ closeOuts = 1 => clientFinDone /\ (upstreamEof \/ Len(written) = ClientBytes)
    /\ clientFinDone /\ ~terminated => closeOuts = 1
    /\ \E n \in 0..ClientBytes : written = Stream(n)
    /\ terminated => state = "CLOSED" /\ reassem = {} /\ reassemBytes = 0
    /\ state = "CLOSED" /\ ~terminated =>
          reassem = {} /\ reassemBytes = 0 /\ ~clientFinDone /\ written = Stream(0)
    /\ state = "SYN_RECV" => ~clientFinDone
    /\ state # "CLOSED" =>
          \E p, n : Standing(p, n) /\ (clientFinDone <=> p = ClientBytes + 1)

LEMMA RcvInit == Init => RcvInv
<1> SUFFICES ASSUME Init PROVE RcvInv
  OBVIOUS
<1>1. written = Stream(0) /\ \E n \in 0..ClientBytes : written = Stream(n)
  BY SessionAssumption DEF Init, Stream
<1>2. /\ state = "CLOSED" /\ terminated = FALSE /\ clientFinSeq = None /\ clientFinDone = FALSE
      /\ reassem = {} /\ reassemBytes = 0 /\ closeOuts = 0
  BY DEF Init
<1>3. closeOuts \in {0, 1} /\ closeOuts # 1
  BY <1>2
<1> QED
  BY <1>1, <1>2, <1>3, Zenon DEF RcvInv

\* A step that leaves the receive side alone.
LEMMA RcvKept ==
    ASSUME RcvInv, UNCHANGED <<rcvVars, written, closeOuts, terminated>>,
           upstreamEof => upstreamEof',
           state' = "CLOSED" <=> state = "CLOSED", state' = "SYN_RECV" => state = "SYN_RECV"
    PROVE  RcvInv'
<1>0. /\ rcvNxt' = rcvNxt /\ reassem' = reassem /\ reassemBytes' = reassemBytes
      /\ written' = written
  BY DEF rcvVars
<1>1. ASSUME NEW p, NEW n, Standing(p, n) PROVE Standing(p, n)'
  BY <1>0, <1>1 DEF Standing
<1>2. ASSUME state' # "CLOSED"
      PROVE  \E p, n : Standing(p, n)' /\ (clientFinDone' <=> p = ClientBytes + 1)
  <2>1. PICK p, n : Standing(p, n) /\ (clientFinDone <=> p = ClientBytes + 1)
    BY <1>2 DEF RcvInv
  <2>2. Standing(p, n)'
    BY <1>1, <2>1
  <2> QED
    BY <2>1, <2>2 DEF rcvVars
<1> QED
  BY <1>2 DEF RcvInv, rcvVars

\* The end of the session, which may come after a last write.
LEMMA RcvEnded ==
    ASSUME RcvInv, NEW how, Terminate(how), UNCHANGED closeOuts,
           clientFinSeq' \in {None, ClientSeq(ClientBytes)},
           clientFinDone' \in BOOLEAN, clientFinDone => clientFinDone',
           NEW n \in 0..ClientBytes, written' = Stream(n),
           closeOuts = 1 => written' = written
    PROVE  RcvInv'
BY DEF RcvInv, Terminate

LEMMA RcvEndedNow ==
    ASSUME RcvInv, NEW how, Terminate(how),
           UNCHANGED <<clientFinSeq, clientFinDone, written, closeOuts>>
    PROVE  RcvInv'
<1>1. PICK n \in 0..ClientBytes : written = Stream(n)
  BY DEF RcvInv
<1>2. /\ clientFinSeq' \in {None, ClientSeq(ClientBytes)}
      /\ clientFinDone' \in BOOLEAN /\ written' = Stream(n)
  BY <1>1 DEF RcvInv
<1> QED
  BY <1>2, RcvEnded

LEMMA SendPhaseState ==
    ASSUME NEW st, NEW una, NEW wnd, NEW eof, NEW o, SendPhase(st, una, wnd, eof, o)
    PROVE  /\ state' = "CLOSED" <=> st = "CLOSED"
           /\ state' = "SYN_RECV" => st = "SYN_RECV"
<1> DEFINE f == Flushed(st, una, wnd, o)
           fin == FinReady(st, eof, f.q)
<1>1. state' = IF ~fin THEN st ELSE IF st = "ESTABLISHED" THEN "FIN_WAIT_1" ELSE "LAST_ACK"
  BY DEF SendPhase
<1>2. fin => st \in {"ESTABLISHED", "CLOSE_WAIT"}
  BY DEF FinReady
<1> HIDE DEF fin
<1> QED
  BY <1>1, <1>2

\* What checkClientFin makes of the bytes acknowledged.
LEMMA FinAt ==
    ASSUME RcvInv, NEW seg, NEW lo, NEW len, InOrder(seg, lo, len),
           seg.fin => lo + len = ClientBytes, NEW p \in 0..(ClientBytes + 1)
    PROVE  LET finSeq == FinSeqAfter(seg, ClientSeq(p))
               consumed == FinReached(finSeq, ClientSeq(p))
           IN  /\ finSeq \in {None, ClientSeq(ClientBytes)} /\ consumed \in BOOLEAN
               /\ consumed => p >= ClientBytes /\ ~clientFinDone
<1> DEFINE finSeq == FinSeqAfter(seg, ClientSeq(p))
<1>1. /\ ClientBytes \in Nat /\ ClientBytes \in 0..(ClientBytes + 2) /\ p \in 0..(ClientBytes + 2)
      /\ lo \in 0..(ClientBytes + 2) /\ len \in Nat /\ lo + len <= ClientBytes + 2
      /\ seg.data.len = len /\ seg.seq = ClientSeq(lo)
  BY SessionAssumption DEF InOrder, Piece
<1>2. SeqAdd(seg.seq, seg.data.len) = ClientSeq(lo + len)
  BY <1>1, ClientSeqs
<1>3. finSeq \in {None, ClientSeq(ClientBytes)}
  BY <1>2 DEF FinSeqAfter, RcvInv
<1>4. SeqGe(ClientSeq(p), ClientSeq(ClientBytes)) => p >= ClientBytes
  BY <1>1, ClientSeqs
<1> HIDE DEF finSeq
<1>5. /\ FinReached(finSeq, ClientSeq(p)) \in BOOLEAN
      /\ FinReached(finSeq, ClientSeq(p)) => p >= ClientBytes /\ ~clientFinDone
  BY <1>3, <1>4 DEF FinReached
<1> QED
  BY <1>3, <1>5 DEF finSeq

\* A segment whose data is in: the client's FIN may have been reached with it.
LEMMA RcvMoved ==
    ASSUME RcvInv, ~terminated, NEW p \in 0..(ClientBytes + 1), NEW n \in Nat,
           NEW buf, NEW bytes, Buffered(buf, bytes), Settled(buf, p),
           n <= p, n <= ClientBytes, upstreamEof \/ n = p \/ n = ClientBytes,
           clientFinDone <=> p = ClientBytes + 1,
           NEW consumed \in BOOLEAN, consumed => p >= ClientBytes /\ ~clientFinDone,
           rcvNxt' = IF consumed THEN SeqAdd(ClientSeq(p), 1) ELSE ClientSeq(p),
           clientFinSeq' \in {None, ClientSeq(ClientBytes)},
           clientFinDone' = (clientFinDone \/ consumed),
           reassem' = buf, reassemBytes' = bytes, written' = Stream(n),
           closeOuts' = IF consumed THEN closeOuts + 1 ELSE closeOuts,
           UNCHANGED <<terminated, upstreamEof>>, state' # "CLOSED", state' # "SYN_RECV"
    PROVE  RcvInv'
<1> DEFINE p2 == IF consumed THEN p + 1 ELSE p
<1>1. ClientBytes \in Nat /\ n \in 0..ClientBytes /\ Len(Stream(n)) = n
  BY SessionAssumption, StreamIsSeq
<1>2. (consumed => p = ClientBytes) /\ p2 \in 0..(ClientBytes + 1)
  BY <1>1
<1>3. rcvNxt' = ClientSeq(p2)
  <2>1. p \in 0..(ClientBytes + 2) /\ (consumed => p + 1 <= ClientBytes + 2)
    BY <1>1, <1>2
  <2> QED
    BY <2>1, ClientSeqs
<1>4. Settled(buf, p2)
  <2>1. \A e \in buf : Pos(e) \in Nat /\ Pos(e) < ClientBytes
    BY <1>1, EntryOrder DEF Buffered
  <2> QED
    BY <1>1, <1>2, <2>1 DEF Settled
<1>5. clientFinDone' \in BOOLEAN /\ (clientFinDone' <=> p2 = ClientBytes + 1)
  BY <1>1, <1>2 DEF RcvInv
<1>6. upstreamEof \/ n = p2 \/ n = ClientBytes
  BY <1>1, <1>2
<1>7. n <= p2
  BY <1>1, <1>2
<1> HIDE DEF p2
<1>8. Standing(p2, n)'
  BY <1>1, <1>2, <1>3, <1>4, <1>6, <1>7 DEF Standing
<1>9. \E q, m : Standing(q, m)' /\ (clientFinDone' <=> q = ClientBytes + 1)
  BY <1>5, <1>8
<1>10. closeOuts' \in {0, 1} /\ (closeOuts' = 1 <=> clientFinDone')
  <2>1. CASE consumed
    <3>1. closeOuts = 0
      BY <2>1 DEF RcvInv
    <3>2. closeOuts' = 1
      <4>1. closeOuts' = 0 + 1
        BY <2>1, <3>1
      <4> QED
        BY <4>1
    <3>3. clientFinDone'
      BY <2>1
    <3>4. closeOuts' \in {0, 1}
      BY <3>2
    <3> QED
      BY <3>2, <3>3, <3>4
  <2>2. CASE ~consumed
    BY <2>2 DEF RcvInv
  <2> QED
    BY <2>1, <2>2
<1>11. closeOuts' = 1 => upstreamEof \/ Len(written') = ClientBytes
  BY <1>1, <1>5, <1>6, <1>10
<1>12. \E m \in 0..ClientBytes : written' = Stream(m)
  BY <1>1
<1> QED
  BY <1>5, <1>9, <1>10, <1>11, <1>12 DEF RcvInv

\* The rest of a handler that hands processRcv a segment of the client's stream.
LEMMA ReceiveThenSendRcv ==
    ASSUME RcvInv, ~terminated, state # "CLOSED", NEW seg, NEW room, NEW st, NEW una, NEW un,
           NEW lo, NEW len, InOrder(seg, lo, len), seg.fin => lo + len = ClientBytes,
           st # "CLOSED", st # "SYN_RECV", ReceiveThenSend(seg, room, st, una, un)
    PROVE  RcvInv'
<1> DEFINE r == ReceiveData(seg, room)
           finSeq == FinSeqAfter(seg, r.rcv)
           consumed == FinReached(finSeq, r.rcv)
           st2 == IF consumed THEN AfterClientFin(st, una) ELSE st
<1>1. PICK p, n : Standing(p, n) /\ (clientFinDone <=> p = ClientBytes + 1)
  BY DEF RcvInv
<1>2. /\ ClientBytes \in Nat /\ p \in 0..(ClientBytes + 1) /\ n \in Nat /\ n <= p
      /\ n <= ClientBytes /\ written = Stream(n) /\ rcvNxt = ClientSeq(p)
      /\ (upstreamEof \/ n = p \/ n = ClientBytes)
      /\ n \in 0..ClientBytes /\ written \in Seq(Nat) /\ written \o <<>> = written
  BY <1>1, SessionAssumption, StreamIsSeq, ConcatEmptySeq DEF Standing
<1>3. \/ r.refused = TRUE /\ r.aborted = FALSE
      \/ /\ r.refused = FALSE /\ r.aborted = FALSE /\ r.rcv = rcvNxt /\ r.out = <<>>
         /\ Buffered(r.buf, r.bytes) /\ Settled(r.buf, p)
      \/ \E p2 \in p..ClientBytes : SoundAt(r, p2) /\ Settled(r.buf, p2)
  BY <1>1, ReceiveSound
<1>4. \/ r.refused /\ Terminate("sent") /\ UNCHANGED <<clientFinSeq, clientFinDone, written, closeOuts>>
      \/ r.aborted /\ AbortedReceive(r, una, seg.window, finSeq, consumed)
      \/ /\ ~r.refused /\ ~r.aborted /\ Live
         /\ rcvNxt' = IF consumed THEN SeqAdd(r.rcv, 1) ELSE r.rcv
         /\ clientFinSeq' = finSeq /\ clientFinDone' = (clientFinDone \/ consumed)
         /\ reassem' = r.buf /\ reassemBytes' = r.bytes
         /\ written' = written \o r.out
         /\ closeOuts' = IF consumed THEN closeOuts + 1 ELSE closeOuts
         /\ SendPhase(st2, una, seg.window, upstreamEof, Outbound(sendQ, sendQBytes, un))
         /\ UNCHANGED upstreamEof
  BY DEF ReceiveThenSend
<1>5. st2 # "CLOSED" /\ st2 # "SYN_RECV"
  BY DEF AfterClientFin
<1>6. ASSUME NEW q \in 0..(ClientBytes + 1), r.rcv = ClientSeq(q)
      PROVE  /\ finSeq \in {None, ClientSeq(ClientBytes)} /\ consumed \in BOOLEAN
             /\ consumed => q >= ClientBytes /\ ~clientFinDone
  BY <1>6, FinAt
<1> HIDE DEF r, finSeq, consumed, st2
<1>7. ASSUME ~r.refused, ~r.aborted, NEW q \in 0..(ClientBytes + 1), NEW m \in Nat,
             r.rcv = ClientSeq(q), Buffered(r.buf, r.bytes), Settled(r.buf, q),
             m <= q, m <= ClientBytes, upstreamEof \/ m = q \/ m = ClientBytes,
             clientFinDone <=> q = ClientBytes + 1, written \o r.out = Stream(m)
      PROVE  RcvInv'
  <2>1. /\ finSeq \in {None, ClientSeq(ClientBytes)} /\ consumed \in BOOLEAN
        /\ consumed => q >= ClientBytes /\ ~clientFinDone
    BY <1>6, <1>7
  <2>2. /\ rcvNxt' = IF consumed THEN SeqAdd(ClientSeq(q), 1) ELSE ClientSeq(q)
        /\ clientFinSeq' \in {None, ClientSeq(ClientBytes)}
        /\ clientFinDone' = (clientFinDone \/ consumed)
        /\ reassem' = r.buf /\ reassemBytes' = r.bytes
        /\ written' = Stream(m)
        /\ closeOuts' = IF consumed THEN closeOuts + 1 ELSE closeOuts
        /\ UNCHANGED <<terminated, upstreamEof>>
    BY <1>4, <1>7, <2>1 DEF Live
  <2>3. state' # "CLOSED" /\ state' # "SYN_RECV"
    BY <1>4, <1>5, <1>7, SendPhaseState
  <2> QED
    BY <1>7, <2>1, <2>2, <2>3, RcvMoved
<1>8. CASE r.refused = TRUE /\ r.aborted = FALSE
  BY <1>4, <1>8, RcvEndedNow
<1>9. CASE /\ r.refused = FALSE /\ r.aborted = FALSE /\ r.rcv = rcvNxt /\ r.out = <<>>
           /\ Buffered(r.buf, r.bytes) /\ Settled(r.buf, p)
  BY <1>1, <1>2, <1>7, <1>9
<1>10. ASSUME NEW p2 \in p..ClientBytes, SoundAt(r, p2), Settled(r.buf, p2) PROVE RcvInv'
  <2>1. PICK buf, bytes, out, room2, aborted :
          /\ r = Intake(p2, buf, bytes, out, room2, aborted)
          /\ IntakeSound(p2, buf, bytes, out, aborted)
    BY <1>10 DEF SoundAt
  <2>2. /\ r.rcv = ClientSeq(p2) /\ r.buf = buf /\ r.bytes = bytes /\ r.out = out
        /\ r.aborted = aborted /\ r.refused = FALSE
    BY <2>1 DEF Intake
  <2>3. PICK m \in 0..p2 : written \o out = Stream(m) /\ (upstreamEof \/ aborted \/ m = p2)
    BY <2>1 DEF IntakeSound
  <2>4. /\ p2 \in 0..(ClientBytes + 1) /\ p <= ClientBytes /\ ~clientFinDone
        /\ m \in 0..ClientBytes /\ m \in Nat /\ m <= p2 /\ m <= ClientBytes
        /\ p2 # ClientBytes + 1
    BY <1>1, <1>2, <1>10, <2>3
  <2>5. CASE ~aborted
    BY <1>7, <1>10, <2>1, <2>2, <2>3, <2>4, <2>5 DEF IntakeSound
  <2>6. CASE aborted
    <3>1. AbortedReceive(r, una, seg.window, finSeq, consumed)
      BY <1>4, <2>2, <2>6
    <3>2. /\ finSeq \in {None, ClientSeq(ClientBytes)} /\ consumed \in BOOLEAN
      BY <1>6, <2>2, <2>4
    <3>3. /\ Terminate("sent") /\ UNCHANGED closeOuts
          /\ clientFinSeq' \in {None, ClientSeq(ClientBytes)}
          /\ clientFinDone' \in BOOLEAN /\ (clientFinDone => clientFinDone')
          /\ written' = Stream(m)
      BY <2>2, <2>3, <2>4, <3>1, <3>2 DEF AbortedReceive
    <3>4. closeOuts # 1
      BY <2>4 DEF RcvInv
    <3> QED
      BY <2>4, <3>3, <3>4, RcvEnded
  <2> QED
    BY <2>5, <2>6
<1> QED
  BY <1>3, <1>8, <1>9, <1>10

-----------------------------------------------------------------------------
(* Packets of the client *)

\* A packet that carries payload or a FIN is a part of the client's stream, or comes from
\* beyond a FIN that was consumed.
LEMMA CarriedInOrder ==
    ASSUME NEW seg \in ClientPackets, Carries(seg), state # "CLOSED"
    PROVE  \/ \E lo, len : InOrder(seg, lo, len) /\ (seg.fin => lo + len = ClientBytes)
           \/ clientFinDone /\ seg.data.len = 1 /\ seg.seq = rcvNxt
<1>1. /\ seg \notin SynPackets /\ seg \notin RstPackets
      /\ \A w : /\ seg # Segment(TRUE, FALSE, FALSE, FALSE, SeqAdd(ClientIsn, 1), 0, w, Piece(1, 0))
               /\ seg # Segment(FALSE, FALSE, TRUE, FALSE, rcvNxt, SeqAdd(sndNxt, 1), w, Piece(1, 0))
               /\ seg # Segment(FALSE, FALSE, FALSE, FALSE, rcvNxt, 0, w, Piece(1, 0))
  BY DEF Carries, SynPackets, RstPackets, Segment, Piece
<1>2. CASE seg \in DataPackets /\ InStream(seg)
  <2>1. PICK f \in BOOLEAN, lo \in 0..ClientBytes, a \in AckNos, w \in Windows, n \in 0..MaxSegment :
          seg = Segment(FALSE, FALSE, TRUE, f, ClientSeq(lo), a, w, Piece(lo + 1, n))
    BY <1>2 DEF DataPackets, Segment
  <2>2. /\ seg.seq = ClientSeq(lo) /\ seg.data = Piece(lo + 1, n)
        /\ seg.data.from = lo + 1 /\ seg.data.len = n
    BY <2>1 DEF Segment, Piece
  <2>3. ClientBytes \in Nat /\ MaxSegment \in Nat
    BY SessionAssumption
  <2>4. lo + n <= ClientBytes /\ (seg.fin => lo + n = ClientBytes) /\ n \in Nat
    BY <1>2, <2>2, <2>3 DEF InStream
  <2> QED
    BY <2>2, <2>4 DEF InOrder
<1>3. CASE seg \notin DataPackets \/ ~InStream(seg)
  <2>1. /\ clientFinDone
        /\ \E w : seg = Segment(FALSE, FALSE, TRUE, FALSE, rcvNxt, sndUna, w,
                               Piece(ClientBytes + 1, 1))
    <3>1. seg \in Strays
      BY <1>1, <1>3 DEF ClientPackets
    <3> QED
      BY <1>1, <3>1 DEF Strays
  <2> QED
    BY <2>1 DEF Segment, Piece
<1> QED
  BY <1>2, <1>3

LEMMA SynOpens ==
    ASSUME RcvInv, ~terminated, state = "CLOSED", NEW seg \in ClientPackets, seg.syn,
           OnSyn(seg)
    PROVE  RcvInv'
<1>1. seg.seq = ClientIsn
  BY DEF ClientPackets, SynPackets, Overtaking, Segment
<1>2. /\ ClientBytes \in Nat /\ ClientSeq(0) = SeqAdd(ClientIsn, 1)
  BY SessionAssumption DEF ClientSeq
<1>3. reassem = {} /\ reassemBytes = 0 /\ ~clientFinDone /\ written = Stream(0)
  BY DEF RcvInv
<1>4. /\ rcvNxt' = ClientSeq(0) /\ reassem' = {} /\ reassemBytes' = 0 /\ written' = Stream(0)
      /\ UNCHANGED <<upstreamEof, clientFinDone, closeOuts, terminated>>
      /\ clientFinSeq' = clientFinSeq /\ state' = "SYN_RECV"
  BY <1>1, <1>2, <1>3 DEF OnSyn, Live, upVars
<1>5. Standing(0, 0)'
  BY <1>2, <1>4, EmptyBuffered DEF Standing, Settled
<1>6. clientFinDone' = FALSE /\ ~(0 = ClientBytes + 1)
  BY <1>2, <1>3, <1>4 DEF RcvInv
<1>7. \E p, n : Standing(p, n)' /\ (clientFinDone' <=> p = ClientBytes + 1)
  BY <1>5, <1>6
<1>8. closeOuts' # 1 /\ closeOuts' \in {0, 1}
  BY <1>3, <1>4 DEF RcvInv
<1>9. \E n \in 0..ClientBytes : written' = Stream(n)
  BY <1>2, <1>4
<1> QED
  BY <1>4, <1>6, <1>7, <1>8, <1>9 DEF RcvInv

LEMMA SynRecvRcv ==
    ASSUME RcvInv, ~terminated, state = "SYN_RECV", NEW seg \in ClientPackets, NEW room,
           OnSynRecv(seg, room)
    PROVE  RcvInv'
<1>1. CASE Live /\ UNCHANGED <<state, upstreamEof, rcvVars, upVars>>
  BY <1>1, RcvKept DEF Live, upVars
<1>2. CASE TerminateNow("sent")
  BY <1>2, RcvEndedNow DEF TerminateNow
<1>3. CASE Carries(seg) /\ ReceiveThenSend(seg, room, "ESTABLISHED", seg.ackNo, unacked)
  <2>1. PICK lo, len : InOrder(seg, lo, len) /\ (seg.fin => lo + len = ClientBytes)
    BY <1>3, CarriedInOrder DEF RcvInv
  <2> QED
    BY <1>3, <2>1, ReceiveThenSendRcv
<1>4. CASE AckThenSend(seg, "ESTABLISHED", seg.ackNo, unacked)
  <2>1. /\ state' # "CLOSED" /\ state' # "SYN_RECV"
        /\ UNCHANGED <<rcvVars, written, closeOuts, terminated, upstreamEof>>
    BY <1>4, SendPhaseState DEF AckThenSend, Live, upVars
  <2> QED
    BY <2>1, RcvKept
<1> QED
  BY <1>1, <1>2, <1>3, <1>4 DEF OnSynRecv

LEMMA DataSegmentRcv ==
    ASSUME RcvInv, ~terminated, state # "CLOSED", state # "SYN_RECV",
           NEW seg \in ClientPackets, NEW room, OnDataSegment(seg, room)
    PROVE  RcvInv'
<1> DEFINE una == IF Advances(seg) THEN seg.ackNo ELSE sndUna
           un == IF Advances(seg) THEN Pruned(una) ELSE unacked
           st == IF AcksOurFin(seg) THEN AfterOurFin ELSE state
<1>1. st # "CLOSED" /\ st # "SYN_RECV"
  BY DEF AfterOurFin
<1>2. \/ \E how : Terminate(how) /\ UNCHANGED <<clientFinSeq, clientFinDone, written, closeOuts>>
      \/ ~BeyondClientFin(seg) /\ Carries(seg) /\ ReceiveThenSend(seg, room, st, una, un)
      \/ AckThenSend(seg, st, una, un)
  BY DEF OnDataSegment, TerminateNow
<1> HIDE DEF una, un, st
<1>3. CASE \E how : Terminate(how) /\ UNCHANGED <<clientFinSeq, clientFinDone, written, closeOuts>>
  BY <1>3, RcvEndedNow
<1>4. CASE ~BeyondClientFin(seg) /\ Carries(seg) /\ ReceiveThenSend(seg, room, st, una, un)
  <2>1. ~(clientFinDone /\ seg.data.len = 1 /\ seg.seq = rcvNxt)
    <3> SUFFICES ASSUME clientFinDone, seg.data.len = 1, seg.seq = rcvNxt PROVE FALSE
      OBVIOUS
    <3>1. PICK p, n : Standing(p, n) /\ p = ClientBytes + 1
      BY DEF RcvInv
    <3>2. /\ p \in 0..(ClientBytes + 2) /\ p + 1 \in 0..(ClientBytes + 2) /\ p + 1 <= ClientBytes + 2
          /\ p + 1 > p /\ rcvNxt = ClientSeq(p)
      BY <3>1, SessionAssumption DEF Standing
    <3>3. SeqAdd(rcvNxt, 1) = ClientSeq(p + 1) /\ SeqGt(ClientSeq(p + 1), ClientSeq(p))
      BY <3>2, ClientSeqs
    <3> QED
      BY <1>4, <3>2, <3>3 DEF BeyondClientFin
  <2>2. PICK lo, len : InOrder(seg, lo, len) /\ (seg.fin => lo + len = ClientBytes)
    BY <1>4, <2>1, CarriedInOrder
  <2> QED
    BY <1>1, <1>4, <2>2, ReceiveThenSendRcv
<1>5. CASE AckThenSend(seg, st, una, un)
  <2>1. /\ state' # "CLOSED" /\ state' # "SYN_RECV"
        /\ UNCHANGED <<rcvVars, written, closeOuts, terminated, upstreamEof>>
    BY <1>1, <1>5, SendPhaseState DEF AckThenSend, Live, upVars
  <2> QED
    BY <2>1, RcvKept
<1> QED
  BY <1>2, <1>3, <1>4, <1>5

LEMMA PacketRcv ==
    ASSUME RcvInv, NEW seg \in ClientPackets, NEW room, OnPacket(seg, room)
    PROVE  RcvInv'
<1>1. CASE OnReset(seg)
  <2>1. CASE TerminateNow("received")
    BY <2>1, RcvEndedNow DEF TerminateNow
  <2>2. CASE Live /\ UNCHANGED <<state, upstreamEof, rcvVars, upVars>>
    BY <2>2, RcvKept DEF Live, upVars
  <2> QED
    BY <1>1, <2>1, <2>2 DEF OnReset
<1>2. CASE state = "CLOSED" /\ OnSyn(seg)
  <2>1. CASE seg.syn
    BY <1>2, <2>1, SynOpens DEF OnPacket
  <2>2. CASE ~seg.syn
    BY <1>2, <2>2, RcvEndedNow DEF OnSyn, TerminateNow
  <2> QED
    BY <2>1, <2>2
<1>3. CASE state = "SYN_RECV" /\ OnSynRecv(seg, room)
  BY <1>3, SynRecvRcv DEF OnPacket
<1>4. CASE OnTimeWait
  BY <1>4, RcvKept DEF OnTimeWait, Live, upVars
<1>5. CASE state \notin {"CLOSED", "SYN_RECV", "TIME_WAIT"} /\ OnDataSegment(seg, room)
  BY <1>5, DataSegmentRcv DEF OnPacket
<1> QED
  BY <1>1, <1>2, <1>3, <1>4, <1>5 DEF OnPacket

-----------------------------------------------------------------------------
(* The upstream, the timer, and the theorems *)

LEMMA UpstreamRcv ==
    ASSUME RcvInv, NEW n \in 1..MaxSegment, OnUpstreamData(n) \/ OnUpstreamOverrun(n)
    PROVE  RcvInv'
<1>1. CASE OnUpstreamData(n)
  <2>1. UNCHANGED <<rcvVars, written, closeOuts, terminated, upstreamEof>>
    BY <1>1 DEF OnUpstreamData, Live
  <2>2. (state' = "CLOSED" <=> state = "CLOSED") /\ (state' = "SYN_RECV" => state = "SYN_RECV")
    <3>1. CASE UNCHANGED state
      BY <3>1
    <3>2. CASE SendPhase(state, sndUna, clientWnd, upstreamEof,
                         Outbound(Append(sendQ, Piece(produced + 1, n)), sendQBytes + n, unacked))
      BY <3>2, SendPhaseState
    <3> QED
      BY <1>1, <3>1, <3>2 DEF OnUpstreamData
  <2> QED
    BY <2>1, <2>2, RcvKept
<1>2. CASE OnUpstreamOverrun(n)
  BY <1>2, RcvEndedNow DEF OnUpstreamOverrun, TerminateNow
<1> QED
  BY <1>1, <1>2

LEMMA EofRcv == ASSUME RcvInv, OnUpstreamEof PROVE RcvInv'
<1>1. /\ UNCHANGED <<rcvVars, written, closeOuts, terminated>> /\ upstreamEof'
      /\ SendPhase(state, sndUna, clientWnd, TRUE, Outbound(sendQ, sendQBytes, unacked))
  BY DEF OnUpstreamEof, Live, upVars
<1>2. (state' = "CLOSED" <=> state = "CLOSED") /\ (state' = "SYN_RECV" => state = "SYN_RECV")
  BY <1>1, SendPhaseState
<1> QED
  BY <1>1, <1>2, RcvKept

LEMMA TickRcv == ASSUME RcvInv, OnTick PROVE RcvInv'
<1>1. CASE \E how : TerminateNow(how)
  BY <1>1, RcvEndedNow DEF TerminateNow
<1>2. CASE UNCHANGED <<state, upstreamEof, rcvVars, upVars>> /\ Live
  BY <1>2, RcvKept DEF Live, upVars
<1> QED
  BY <1>1, <1>2 DEF OnTick

LEMMA RcvNext == RcvInv /\ [Next]_vars => RcvInv'
<1> SUFFICES ASSUME RcvInv, [Next]_vars PROVE RcvInv'
  OBVIOUS
<1>1. ASSUME NEW seg \in ClientPackets, NEW room \in Rooms, OnPacket(seg, room) PROVE RcvInv'
  BY <1>1, PacketRcv
<1>2. ASSUME NEW n \in 1..MaxSegment, OnUpstreamData(n) \/ OnUpstreamOverrun(n) PROVE RcvInv'
  BY <1>2, UpstreamRcv
<1>3. CASE OnUpstreamEof
  BY <1>3, EofRcv
<1>4. CASE AbortWithRst
  BY <1>4, RcvEndedNow DEF AbortWithRst, TerminateNow
<1>5. CASE OnTick
  BY <1>5, TickRcv
<1>6. CASE UNCHANGED vars
  BY <1>6, RcvKept DEF vars, upVars
<1> QED
  BY <1>1, <1>2, <1>3, <1>4, <1>5, <1>6 DEF Next, Gone

THEOREM ReceiveInvariant == Spec => []RcvInv
<1> QED
  BY RcvInit, RcvNext, PTL DEF Spec

\* The upstream gets the client's stream in order, without a gap or a repeat, and rcvNxt
\* acknowledges exactly what it was given (processRcv, acceptInbound, drainReassem).
THEOREM UpstreamInOrder == Spec => []UpstreamStream
<1>1. RcvInv => UpstreamStream
  <2> SUFFICES ASSUME RcvInv PROVE UpstreamStream
    OBVIOUS
  <2>1. written = [i \in 1..Len(written) |-> i]
    <3>1. PICK n \in 0..ClientBytes : written = Stream(n)
      BY DEF RcvInv
    <3>2. n \in Nat /\ Len(written) = n
      BY <3>1, SessionAssumption, StreamIsSeq
    <3> QED
      BY <3>1, <3>2 DEF Stream
  <2>2. ASSUME state # "CLOSED", ~upstreamEof
        PROVE  rcvNxt = SeqAdd(ClientSeq(Len(written)), IF clientFinDone THEN 1 ELSE 0)
    <3>1. PICK p, n : Standing(p, n) /\ (clientFinDone <=> p = ClientBytes + 1)
      BY <2>2 DEF RcvInv
    <3>2. /\ ClientBytes \in Nat /\ p \in 0..(ClientBytes + 1) /\ rcvNxt = ClientSeq(p)
          /\ n \in Nat /\ n <= p /\ n <= ClientBytes /\ Len(written) = n
          /\ n = p \/ n = ClientBytes
      BY <2>2, <3>1, StreamIsSeq, SessionAssumption DEF Standing
    <3>3. n \in 0..(ClientBytes + 2)
      BY <3>2
    <3>4. CASE clientFinDone
      <4>1. n + 1 = p /\ n + 1 <= ClientBytes + 2
        BY <3>1, <3>2, <3>4
      <4>2. SeqAdd(ClientSeq(n), 1) = ClientSeq(n + 1)
        BY <3>3, <4>1, ClientSeqs
      <4> QED
        BY <3>2, <3>4, <4>1, <4>2
    <3>5. CASE ~clientFinDone
      <4>1. n = p /\ n + 0 = n /\ n + 0 <= ClientBytes + 2
        BY <3>1, <3>2, <3>5
      <4>2. SeqAdd(ClientSeq(n), 0) = ClientSeq(n + 0)
        BY <3>3, <4>1, ClientSeqs
      <4> QED
        BY <3>2, <3>5, <4>1, <4>2
    <3> QED
      BY <3>4, <3>5
  <2> QED
    BY <2>1, <2>2 DEF UpstreamStream
<1> QED
  BY <1>1, ReceiveInvariant, PTL

\* Reassembly holds bytes of the stream under their own numbers, each once and all ahead of
\* rcvNxt, and reassemBytes counts them (bufferSegment, drainReassem).
THEOREM BufferIsSound == Spec => []ReassemblySound
<1>1. RcvInv => ReassemblySound
  <2> SUFFICES ASSUME RcvInv PROVE ReassemblySound
    OBVIOUS
  <2>1. reassemBytes = Cardinality(Held(reassem))
        => reassemBytes = Cardinality(UNION {{SeqAdd(e.seq, k) : k \in 0..(e.data.len - 1)} :
                                               e \in reassem})
    BY DEF Held, SeqsOf
  <2>2. CASE state = "CLOSED"
    <3>1. reassem = {} /\ reassemBytes = 0
      BY <2>2 DEF RcvInv
    <3>2. reassemBytes = Cardinality(Held(reassem))
      BY <3>1, EmptyBuffered DEF Buffered
    <3> QED
      BY <2>1, <3>1, <3>2 DEF ReassemblySound
  <2>3. CASE state # "CLOSED"
    <3>1. PICK p, n : Standing(p, n) /\ (clientFinDone <=> p = ClientBytes + 1)
      BY <2>3 DEF RcvInv
    <3>2. ASSUME NEW e \in reassem
          PROVE  /\ e.data.len > 0 /\ SeqGt(e.seq, rcvNxt)
                 /\ e.seq = ClientSeq(e.data.from - 1)
      <4>1. IsEntry(e) /\ Pos(e) > p /\ rcvNxt = ClientSeq(p)
            /\ p \in 0..(ClientBytes + 2)
        BY <3>1, SessionAssumption DEF Standing, Settled, Buffered
      <4>2. /\ e.seq = ClientSeq(Pos(e)) /\ Pos(e) \in 0..(ClientBytes + 2)
        BY <4>1, EntryOrder
      <4>3. SeqGt(e.seq, rcvNxt)
        BY <4>1, <4>2, ClientSeqs
      <4> QED
        BY <4>1, <4>3 DEF IsEntry
    <3> QED
      BY <2>1, <3>1, <3>2 DEF ReassemblySound, Standing, Buffered
  <2> QED
    BY <2>2, <2>3
<1> QED
  BY <1>1, ReceiveInvariant, PTL

=============================================================================
