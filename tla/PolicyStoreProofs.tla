------------------------- MODULE PolicyStoreProofs -------------------------
(***************************************************************************)
(* TLAPS proofs about PolicyStore, for any set of hosts and any bounds:    *)
(* types; a ledger to which no append ever left a partial line is replayed *)
(* in full, into the sets and the list the store held; a partial append    *)
(* costs at most the two records behind it, and the next open counts them. *)
(***************************************************************************)
EXTENDS PolicyStore, FiniteSetTheorems, FunctionTheorems, TLAPS

\* Nothing a replay would skip, and the next append will chain to the last line.
ChainIntact ==
    /\ ~dangling
    /\ \A i \in DOMAIN file : Accepted(file, i)
    /\ \A n \in written : \E i \in DOMAIN file : file[i].id = n
    /\ Serving => lastRawLine = AnchorAfter(file)

Types ==
    /\ file \in Seq(Lines) /\ dangling \in BOOLEAN
    /\ up \in BOOLEAN /\ degraded \in BOOLEAN
    /\ pinned \subseteq Hosts /\ bypassed \subseteq Hosts
    /\ lastRawLine \in Nat
    /\ writes \in 0..MaxWrites /\ tears \in 0..MaxTears
    /\ written \subseteq 1..MaxWrites /\ unsaved \subseteq Hosts
    /\ dangling => file # <<>>

IndInv == /\ Types
          /\ tears = 0 => ChainIntact
          /\ LedgerFaithful

\* Without a partial append, every record whose append returned is replayed.
CleanLedgerReplayed == tears = 0 => PersistedIsReplayed

-----------------------------------------------------------------------------

\* What one accepted line behind an accepted ledger does to a standing set.
LEMMA StandingAppend ==
    ASSUME NEW f \in Seq(Lines), NEW line \in Lines, NEW a \in {"pin", "bypass"},
           \A i \in DOMAIN f : Accepted(f, i),
           line.ok, line.prevHash = AnchorAfter(f)
    PROVE  /\ \A i \in DOMAIN Append(f, line) : Accepted(Append(f, line), i)
           /\ AnchorAfter(Append(f, line)) = line.sum
           /\ \A h \in Hosts :
                h \in Standing(Append(f, line), a) <=>
                    \/ line.host = h /\ line.action = a
                    \/ /\ h \in Standing(f, a)
                       /\ ~ (line.host = h /\ line.action = "remove")
<1> DEFINE g == Append(f, line)
<1>1. /\ g \in Seq(Lines) /\ Len(g) = Len(f) + 1 /\ g[Len(f) + 1] = line
      /\ \A i \in DOMAIN f : g[i] = f[i]
      /\ DOMAIN g = 1..(Len(f) + 1) /\ DOMAIN f = 1..Len(f) /\ Len(f) \in Nat
  OBVIOUS
<1>2. \A i \in DOMAIN g : Accepted(g, i)
  <2> SUFFICES ASSUME NEW i \in DOMAIN g PROVE Accepted(g, i)
    OBVIOUS
  <2>1. CASE i = Len(f) + 1
    <3>1. CASE f = <<>>
      BY <1>1, <2>1, <3>1 DEF Accepted, SumBefore, AnchorAfter
    <3>2. CASE f # <<>>
      <4>1. Len(f) \in DOMAIN f
        BY <1>1, <3>2
      <4>2. g[i - 1] = f[Len(f)] /\ i # 1
        BY <1>1, <2>1, <4>1
      <4> QED
        BY <1>1, <2>1, <3>2, <4>2 DEF Accepted, SumBefore, AnchorAfter
    <3> QED
      BY <3>1, <3>2
  <2>2. CASE i # Len(f) + 1
    <3>1. i \in DOMAIN f /\ Accepted(f, i) /\ g[i] = f[i]
      BY <1>1, <2>2
    <3>2. i # 1 => i - 1 \in DOMAIN f /\ g[i - 1] = f[i - 1]
      BY <1>1, <3>1
    <3> QED
      BY <3>1, <3>2 DEF Accepted, SumBefore
  <2> QED
    BY <2>1, <2>2
<1>3. AnchorAfter(g) = line.sum
  BY <1>1 DEF AnchorAfter
<1>4. ASSUME NEW h \in Hosts
      PROVE  h \in Standing(g, a) <=>
                \/ line.host = h /\ line.action = a
                \/ /\ h \in Standing(f, a)
                   /\ ~ (line.host = h /\ line.action = "remove")
  <2>1. h \in Standing(g, a) <=>
            \E i \in DOMAIN g : /\ g[i].host = h /\ g[i].action = a
                                /\ \A j \in DOMAIN g : j > i /\ g[j].host = h
                                                          => g[j].action # "remove"
    BY <1>2 DEF Standing
  <2>2. h \in Standing(f, a) <=>
            \E i \in DOMAIN f : /\ f[i].host = h /\ f[i].action = a
                                /\ \A j \in DOMAIN f : j > i /\ f[j].host = h
                                                          => f[j].action # "remove"
    BY DEF Standing
  <2>3. ASSUME line.host = h, line.action = a PROVE h \in Standing(g, a)
    <3>1. Len(f) + 1 \in DOMAIN g /\ \A j \in DOMAIN g : ~ (j > Len(f) + 1)
      BY <1>1
    <3> QED
      BY <1>1, <2>1, <2>3, <3>1
  <2>4. ASSUME h \in Standing(f, a), ~ (line.host = h /\ line.action = "remove")
        PROVE  h \in Standing(g, a)
    <3>1. PICK i \in DOMAIN f : /\ f[i].host = h /\ f[i].action = a
                                /\ \A j \in DOMAIN f : j > i /\ f[j].host = h
                                                          => f[j].action # "remove"
      BY <2>2, <2>4
    <3>2. i \in DOMAIN g /\ g[i] = f[i]
      BY <1>1
    <3>3. ASSUME NEW j \in DOMAIN g, j > i, g[j].host = h
          PROVE  g[j].action # "remove"
      BY <1>1, <2>4, <3>1, <3>3
    <3> QED
      BY <2>1, <3>1, <3>2, <3>3
  <2>5. ASSUME h \in Standing(g, a), ~ (line.host = h /\ line.action = a)
        PROVE  h \in Standing(f, a) /\ ~ (line.host = h /\ line.action = "remove")
    <3>1. PICK i \in DOMAIN g : /\ g[i].host = h /\ g[i].action = a
                                /\ \A j \in DOMAIN g : j > i /\ g[j].host = h
                                                          => g[j].action # "remove"
      BY <2>1, <2>5
    <3>2. i # Len(f) + 1
      BY <1>1, <2>5, <3>1
    <3>3. i \in DOMAIN f /\ g[i] = f[i]
      BY <1>1, <3>2
    <3>4. h \in Standing(f, a)
      BY <1>1, <2>2, <3>1, <3>3
    <3>5. ~ (line.host = h /\ line.action = "remove")
      BY <1>1, <3>1, <3>3
    <3> QED
      BY <3>4, <3>5
  <2> QED
    BY <2>3, <2>4, <2>5
<1> QED
  BY <1>2, <1>3, <1>4

-----------------------------------------------------------------------------

LEMMA RecordIsLine ==
    ASSUME Types, writes < MaxWrites, NEW h \in Hosts, NEW a \in Actions
    PROVE  /\ PolicyRecord(writes + 1, h, a, lastRawLine) \in Lines
           /\ Damaged(writes + 1, h, a) \in Lines
BY PolicyAssumption
   DEF Types, Lines, PolicyRecord, Damaged, RecordSum, DamagedSum, NoLine

\* Writing behind the last line, or on it, leaves a sequence of lines.
LEMMA WriteLineType ==
    ASSUME Types, NEW line \in Lines, NEW glued \in Lines
    PROVE  WriteLine(line, glued) \in Seq(Lines) /\ WriteLine(line, glued) # <<>>
<1>1. CASE dangling
  <2>1. file # <<>> /\ file \in Seq(Lines)
    BY <1>1 DEF Types
  <2>2. [file EXCEPT ![Len(file)] = glued] \in Seq(Lines)
    BY <2>1
  <2>3. [file EXCEPT ![Len(file)] = glued] # <<>>
    BY <2>1
  <2> QED
    BY <1>1, <2>2, <2>3 DEF WriteLine
<1>2. CASE ~dangling
  BY <1>2 DEF WriteLine, Types
<1> QED
  BY <1>1, <1>2

\* One append, whatever its outcome, keeps the types.
LEMMA AppendTypes ==
    ASSUME Types, NEW h \in Hosts, NEW a \in Actions, AppendRecord(h, a),
           pinned' \subseteq Hosts, bypassed' \subseteq Hosts
    PROVE  Types'
<1> DEFINE rec == PolicyRecord(writes + 1, h, a, lastRawLine)
           bad == Damaged(writes + 1, h, a)
<1>1. /\ writes < MaxWrites /\ writes' = writes + 1 /\ writes' \in 0..MaxWrites
      /\ degraded' = degraded
      /\ \/ AppendInMemory(rec) \/ AppendSucceeds(rec)
         \/ AppendThrows(rec) \/ CrashInAppend(rec)
  BY PolicyAssumption DEF AppendRecord, Types
<1>2. /\ rec \in Lines /\ bad \in Lines /\ rec.host = h /\ rec.id = writes + 1
      /\ rec.action = a /\ rec.sum \in Nat /\ rec.id \in 1..MaxWrites
  <2>1. rec \in Lines /\ bad \in Lines
    BY <1>1, RecordIsLine
  <2> QED
    BY <2>1 DEF PolicyRecord, Lines
<1> HIDE DEF rec
<1>3. bad = Damaged(rec.id, rec.host, rec.action)
  BY <1>2
<1> HIDE DEF bad
<1>4. ASSUME PartialWrite(rec)
      PROVE  /\ file' \in Seq(Lines) /\ dangling' \in BOOLEAN
             /\ tears' \in 0..MaxTears /\ (dangling' => file' # <<>>)
  <2>1. CASE UNCHANGED <<disk, tears>>
    BY <2>1 DEF disk, Types
  <2>2. ASSUME tears < MaxTears, tears' = tears + 1, dangling' = TRUE,
               NEW line \in {rec, bad}, file' = WriteLine(line, bad)
        PROVE  <1>4!2
    <3>1. file' \in Seq(Lines) /\ file' # <<>>
      BY <1>2, <2>2, WriteLineType
    <3>2. tears' \in 0..MaxTears
      BY <2>2, PolicyAssumption DEF Types
    <3> QED
      BY <2>2, <3>1, <3>2
  <2> QED
    BY <1>3, <1>4, <2>1, <2>2 DEF PartialWrite
<1>5. CASE AppendInMemory(rec)
  BY <1>1, <1>2, <1>5 DEF AppendInMemory, ListAndAnchor, disk, Types
<1>6. CASE AppendSucceeds(rec)
  <2>1. file' \in Seq(Lines)
    BY <1>2, <1>3, <1>6, WriteLineType DEF AppendSucceeds
  <2> QED
    BY <1>1, <1>2, <1>6, <2>1 DEF AppendSucceeds, ListAndAnchor, Types
<1>7. CASE AppendThrows(rec)
  <2>1. PartialWrite(rec)
    BY <1>7 DEF AppendThrows
  <2> QED
    BY <1>1, <1>2, <1>4, <1>7, <2>1 DEF AppendThrows, Types
<1>8. CASE CrashInAppend(rec)
  <2>1. PartialWrite(rec)
    BY <1>8 DEF CrashInAppend
  <2> QED
    BY <1>1, <1>2, <1>4, <1>8, <2>1 DEF CrashInAppend, Types
<1> QED
  BY <1>1, <1>5, <1>6, <1>7, <1>8

-----------------------------------------------------------------------------

\* The sets a call leaves in memory, as a function of its action: what apply()
\* does to them on replay, and what the four operations do before they append.
Decided(a, h) ==
    /\ pinned' = IF a = "pin" THEN pinned \cup {h}
                 ELSE IF a = "remove" THEN pinned \ {h} ELSE pinned
    /\ bypassed' = IF a = "bypass" THEN bypassed \cup {h}
                   ELSE IF a = "remove" THEN bypassed \ {h} ELSE bypassed

LEMMA DecideActs ==
    ASSUME NEW h \in Hosts, Decide(h)
    PROVE  up /\ \E a \in Actions : Decided(a, h) /\ AppendRecord(h, a)
<1>1. CASE LearnPin(h)
  <2>1. Decided("pin", h)
    BY <1>1 DEF LearnPin, Decided
  <2> QED
    BY <1>1, <2>1 DEF LearnPin, Actions
<1>2. CASE AddBypass(h)
  <2>1. Decided("bypass", h)
    BY <1>2 DEF AddBypass, Decided
  <2> QED
    BY <1>2, <2>1 DEF AddBypass, Actions
<1>3. CASE Remove(h)
  <2>1. Decided("remove", h)
    BY <1>3 DEF Remove, Decided
  <2> QED
    BY <1>3, <2>1 DEF Remove, Actions
<1>4. CASE RecordEvent(h)
  <2>1. Decided("proxy_event", h)
    BY <1>4 DEF RecordEvent, Decided
  <2> QED
    BY <1>4, <2>1 DEF RecordEvent, Actions
<1> QED
  BY <1>1, <1>2, <1>3, <1>4 DEF Decide

\* The chain stays intact, and the sets stay what the file says, across one
\* call whose append left no partial line.
LEMMA CallKeepsLedger ==
    ASSUME IndInv, up, NEW h \in Hosts, NEW a \in Actions,
           Decided(a, h), AppendRecord(h, a), tears' = 0
    PROVE  ChainIntact' /\ LedgerFaithful'
<1> DEFINE rec == PolicyRecord(writes + 1, h, a, lastRawLine)
           bad == Damaged(writes + 1, h, a)
<1>1. /\ writes < MaxWrites /\ degraded' = degraded
      /\ \/ AppendInMemory(rec) \/ AppendSucceeds(rec)
         \/ AppendThrows(rec) \/ CrashInAppend(rec)
  BY DEF AppendRecord
<1>2. /\ rec \in Lines /\ bad \in Lines /\ rec.host = h /\ rec.action = a
      /\ rec.ok /\ rec.prevHash = lastRawLine
  BY <1>1, RecordIsLine DEF IndInv, PolicyRecord
<1> HIDE DEF rec
<1> HIDE DEF bad
<1>3. tears \in Nat
  BY DEF IndInv, Types
<1>4. PartialWrite(rec) => UNCHANGED <<disk, tears>>
  BY <1>3 DEF PartialWrite
<1>5. CASE AppendInMemory(rec)
  BY <1>5 DEF AppendInMemory, disk, IndInv, ChainIntact, LedgerFaithful, Serving,
              AppendRecord, Accepted, SumBefore
<1>6. CASE CrashInAppend(rec)
  <2>1. tears = 0 /\ UNCHANGED <<file, dangling, written>> /\ ~up'
    BY <1>4, <1>6 DEF CrashInAppend, disk
  <2> QED
    BY <2>1 DEF IndInv, ChainIntact, LedgerFaithful, Serving, Accepted, SumBefore
<1>7. CASE AppendThrows(rec)
  <2>1. /\ tears = 0 /\ UNCHANGED <<file, dangling, written, up, degraded, lastRawLine>>
        /\ unsaved' = unsaved \cup {h}
    BY <1>1, <1>2, <1>4, <1>7 DEF AppendThrows, disk
  <2>2. ChainIntact'
    BY <2>1 DEF IndInv, ChainIntact, Serving, Accepted, SumBefore, AnchorAfter
  <2>3. ASSUME NEW g \in Hosts \ unsaved', Serving'
        PROVE  /\ g \in pinned' <=> g \in Standing(file', "pin")
               /\ g \in bypassed' <=> g \in Standing(file', "bypass")
    <3>1. g # h /\ g \in Hosts \ unsaved /\ Serving
      BY <2>1, <2>3 DEF Serving
    <3>2. (g \in pinned' <=> g \in pinned) /\ (g \in bypassed' <=> g \in bypassed)
      BY <3>1 DEF Decided
    <3> QED
      BY <2>1, <3>1, <3>2 DEF IndInv, LedgerFaithful
  <2> QED
    BY <2>2, <2>3 DEF LedgerFaithful
<1>8. CASE AppendSucceeds(rec)
  <2>1. /\ tears = 0 /\ ChainIntact /\ Serving /\ file \in Seq(Lines)
    BY <1>8 DEF AppendSucceeds, IndInv, Serving, Types
  <2>2. /\ file' = Append(file, rec) /\ ~dangling' /\ unsaved' = unsaved
        /\ lastRawLine' = rec.sum /\ written' = written \cup {rec.id} /\ up' = up
    BY <1>8, <2>1 DEF AppendSucceeds, ListAndAnchor, WriteLine, ChainIntact
  <2>3. lastRawLine = AnchorAfter(file) /\ \A i \in DOMAIN file : Accepted(file, i)
    BY <2>1 DEF ChainIntact
  <2>4. ASSUME NEW b \in {"pin", "bypass"}
        PROVE  /\ \A i \in DOMAIN Append(file, rec) : Accepted(Append(file, rec), i)
               /\ AnchorAfter(Append(file, rec)) = rec.sum
               /\ \A g \in Hosts :
                    g \in Standing(Append(file, rec), b) <=>
                        \/ rec.host = g /\ rec.action = b
                        \/ /\ g \in Standing(file, b)
                           /\ ~ (rec.host = g /\ rec.action = "remove")
    BY <1>2, <2>1, <2>3, StandingAppend
  <2>5. \A n \in written' : \E i \in DOMAIN file' : file'[i].id = n
    <3>1. /\ DOMAIN file' = 1..(Len(file) + 1) /\ file'[Len(file) + 1] = rec
          /\ \A i \in DOMAIN file : i \in DOMAIN file' /\ file'[i] = file[i]
          /\ Len(file) + 1 \in DOMAIN file'
      BY <2>1, <2>2
    <3> QED
      BY <2>1, <2>2, <3>1 DEF ChainIntact
  <2>6. ChainIntact'
    <3>1. /\ \A i \in DOMAIN Append(file, rec) : Accepted(Append(file, rec), i)
          /\ AnchorAfter(Append(file, rec)) = rec.sum
      BY <2>4
    <3> QED
      BY <2>2, <2>5, <3>1 DEF ChainIntact, Accepted, SumBefore, AnchorAfter
  <2>7. ASSUME NEW g \in Hosts \ unsaved'
        PROVE  /\ g \in pinned' <=> g \in Standing(file', "pin")
               /\ g \in bypassed' <=> g \in Standing(file', "bypass")
    <3>1. /\ g \in pinned <=> g \in Standing(file, "pin")
          /\ g \in bypassed <=> g \in Standing(file, "bypass")
      BY <2>1, <2>2, <2>7 DEF IndInv, LedgerFaithful
    <3>2. g \in Standing(file', "pin") <=>
              \/ h = g /\ a = "pin"
              \/ g \in Standing(file, "pin") /\ ~ (h = g /\ a = "remove")
      BY <1>2, <2>2, <2>4
    <3>3. g \in Standing(file', "bypass") <=>
              \/ h = g /\ a = "bypass"
              \/ g \in Standing(file, "bypass") /\ ~ (h = g /\ a = "remove")
      BY <1>2, <2>2, <2>4
    <3> QED
      BY <3>1, <3>2, <3>3 DEF Decided, Actions
  <2> QED
    BY <2>6, <2>7 DEF LedgerFaithful
<1> QED
  BY <1>1, <1>5, <1>6, <1>7, <1>8

LEMMA InitInd == Init => IndInv
<1> SUFFICES ASSUME Init PROVE IndInv
  OBVIOUS
<1>1. Types
  <2>1. file \in Seq(Lines)
    BY DEF Init
  <2>2. 0 \in 0..MaxWrites /\ 0 \in 0..MaxTears /\ NoLine \in Nat
    BY PolicyAssumption DEF NoLine
  <2>3. {} \subseteq Hosts /\ {} \subseteq 1..MaxWrites
    OBVIOUS
  <2> QED
    BY <2>1, <2>2, <2>3 DEF Init, Types
<1>2. ChainIntact
  BY DEF Init, ChainIntact, Serving
<1>3. LedgerFaithful
  BY DEF Init, LedgerFaithful, Serving
<1> QED
  BY <1>1, <1>2, <1>3 DEF IndInv

LEMMA NextInd == IndInv /\ [Next]_vars => IndInv'
<1> SUFFICES ASSUME IndInv, [Next]_vars PROVE IndInv'
  OBVIOUS
<1>1. Types /\ LedgerFaithful /\ tears \in Nat /\ (tears = 0 => ChainIntact)
  BY DEF IndInv, Types
<1>2. CASE Open
  <2>1. /\ UNCHANGED <<file, dangling, writes, tears, written>> /\ unsaved' = {}
        /\ pinned' = Standing(file, "pin") /\ bypassed' = Standing(file, "bypass")
        /\ up' = TRUE /\ degraded' = FALSE /\ lastRawLine' = AnchorAfter(file)
    BY <1>2 DEF Open, disk
  <2>2. Types'
    <3>1. AnchorAfter(file) \in Nat
      <4>1. file \in Seq(Lines)
        BY <1>1 DEF Types
      <4>2. file # <<>> => file[Len(file)] \in Lines
        BY <4>1
      <4> QED
        BY <4>2 DEF AnchorAfter, NoLine, Lines
    <3>2. Standing(file, "pin") \subseteq Hosts /\ Standing(file, "bypass") \subseteq Hosts
      BY DEF Standing
    <3> QED
      BY <1>1, <2>1, <3>1, <3>2 DEF Types
  <2>3. tears' = 0 => ChainIntact'
    BY <1>1, <2>1 DEF ChainIntact, Serving, Accepted, SumBefore, AnchorAfter
  <2>4. LedgerFaithful'
    BY <2>1 DEF LedgerFaithful
  <2> QED
    BY <2>2, <2>3, <2>4 DEF IndInv
<1>3. CASE OpenEphemeral
  BY <1>1, <1>3 DEF OpenEphemeral, disk, IndInv, Types, ChainIntact, LedgerFaithful,
                   Serving, NoLine, Accepted, SumBefore
<1>4. CASE Stop
  BY <1>1, <1>4 DEF Stop, disk, memory, history, IndInv, Types, ChainIntact,
                   LedgerFaithful, Serving, Accepted, SumBefore
<1>5. ASSUME NEW h \in Hosts, Decide(h) PROVE IndInv'
  <2>1. up
    BY <1>5, DecideActs
  <2>2. PICK a \in Actions : Decided(a, h) /\ AppendRecord(h, a)
    BY <1>5, DecideActs
  <2>3. pinned' \subseteq Hosts /\ bypassed' \subseteq Hosts
    BY <1>1, <2>2 DEF Decided, Types, Actions
  <2>4. Types'
    BY <1>1, <2>2, <2>3, AppendTypes
  <2>5. tears' = 0 => ChainIntact' /\ LedgerFaithful'
    BY <2>1, <2>2, CallKeepsLedger
  <2>6. tears' # 0 => LedgerFaithful'
    BY DEF LedgerFaithful
  <2> QED
    BY <2>4, <2>5, <2>6 DEF IndInv
<1>6. CASE UNCHANGED vars
  BY <1>1, <1>6 DEF vars, disk, memory, history, IndInv, Types, ChainIntact,
                   LedgerFaithful, Serving, Accepted, SumBefore, AnchorAfter
<1> QED
  BY <1>2, <1>3, <1>4, <1>5, <1>6 DEF Next

-----------------------------------------------------------------------------

\* Every reachable state satisfies the inductive invariant.
THEOREM Invariance == Spec => []IndInv
<1>1. Init => IndInv
  BY InitInd
<1>2. IndInv /\ [Next]_vars => IndInv'
  BY NextInd
<1> QED
  BY <1>1, <1>2, PTL DEF Spec

\* policyStore.ts: the sets a store answers from are those the next replay of
\* its file would build, except for hosts with a decision it failed to save.
THEOREM LedgerIsFaithful == Spec => []LedgerFaithful
<1>1. IndInv => LedgerFaithful
  BY DEF IndInv
<1> QED
  BY <1>1, Invariance, PTL

\* policyStore.ts: as long as no append leaves a partial line, failed appends
\* and crashes cost no record whose append returned.
THEOREM CleanLedgerIsReplayed == Spec => []CleanLedgerReplayed
<1>1. IndInv => CleanLedgerReplayed
  BY DEF IndInv, CleanLedgerReplayed, ChainIntact, PersistedIsReplayed, Lost
<1> QED
  BY <1>1, Invariance, PTL

-----------------------------------------------------------------------------
(* What a replay leaves in `entries`, by induction over the lines.         *)

LEMMA SetInduction ==
    ASSUME NEW S \in SUBSET Nat, 0 \in S, \A n \in S : n + 1 \in S
    PROVE  S = Nat
<1> SUFFICES ASSUME NEW m \in Nat, m \notin S PROVE FALSE
  OBVIOUS
<1> DEFINE A == {n \in S : n <= m}
           f == [n \in A |-> n + 1]
<1>1. IsFiniteSet(A)
  BY FS_BoundedSetOfNaturals
<1>2. f \in [A -> A]
  <2> SUFFICES ASSUME NEW n \in A PROVE n + 1 \in A
    OBVIOUS
  <2>1. n \in Nat /\ n # m /\ n <= m /\ n + 1 \in S
    OBVIOUS
  <2> QED
    BY <2>1
<1>3. (\A a, b \in A : f[a] = f[b] => a = b) /\ 0 \in A /\ \A a \in A : f[a] # 0
  OBVIOUS
<1> HIDE DEF f, A
<1>4. f \in Injection(A, A)
  BY <1>2, <1>3, Fun_IsInj
<1>5. f \in Surjection(A, A)
  BY <1>1, <1>4, FS_Injection
<1> QED
  BY <1>3, <1>5, Fun_SurjectionProperties

\* g is the replay of the first k lines of f.
Replaying(g, f, k) ==
    g = [i \in 0..k |-> IF i = 0 THEN <<>> ELSE ApplyLine(f, i, g[i - 1])]

LEMMA ReplayTurns ==
    ASSUME NEW f, NEW k \in Nat
    PROVE  \E g : Replaying(g, f, k)
<1> DEFINE S == {m \in Nat : \E g : Replaying(g, f, m)}
<1>1. 0 \in S
  <2> DEFINE g == [i \in 0..0 |-> <<>>]
  <2>1. g = [i \in 0..0 |-> IF i = 0 THEN <<>> ELSE ApplyLine(f, i, g[i - 1])]
    OBVIOUS
  <2> HIDE DEF g
  <2> QED
    BY <2>1 DEF Replaying
<1>2. ASSUME NEW m \in S PROVE m + 1 \in S
  <2>1. m \in Nat
    OBVIOUS
  <2>2. PICK g : g = [i \in 0..m |-> IF i = 0 THEN <<>> ELSE ApplyLine(f, i, g[i - 1])]
    BY DEF Replaying
  <2> DEFINE h == [i \in 0..(m + 1) |-> IF i = m + 1 THEN ApplyLine(f, i, g[m]) ELSE g[i]]
  <2>3. ASSUME NEW i \in 0..(m + 1)
        PROVE  h[i] = IF i = 0 THEN <<>> ELSE ApplyLine(f, i, h[i - 1])
    <3>1. CASE i = m + 1
      <4>1. i # 0 /\ i - 1 = m /\ m \in 0..(m + 1) /\ m # m + 1
        BY <2>1, <3>1
      <4> QED
        BY <3>1, <4>1
    <3>2. CASE i # m + 1
      <4>1. i \in 0..m /\ (i # 0 => i - 1 \in 0..(m + 1) /\ i - 1 # m + 1)
        BY <2>1, <3>2
      <4>2. h[i] = g[i] /\ (i # 0 => h[i - 1] = g[i - 1])
        BY <3>2, <4>1
      <4> HIDE DEF h
      <4> QED
        BY <2>2, <4>1, <4>2
    <3> QED
      BY <3>1, <3>2
  <2>4. h = [i \in 0..(m + 1) |-> h[i]]
    OBVIOUS
  <2> HIDE DEF h
  <2>5. h = [i \in 0..(m + 1) |-> IF i = 0 THEN <<>> ELSE ApplyLine(f, i, h[i - 1])]
    BY <2>3, <2>4
  <2>6. Replaying(h, f, m + 1)
    BY <2>5 DEF Replaying
  <2> QED
    BY <2>1, <2>6
<1> HIDE DEF S
<1>3. S \in SUBSET Nat
  BY DEF S
<1>4. k \in S
  BY <1>1, <1>2, <1>3, SetInduction
<1> QED
  BY <1>4 DEF S

\* The entries are entries; a ledger with no line to skip gives one for each.
LEMMA ReplayLeaves ==
    ASSUME NEW f \in Seq(Lines)
    PROVE  /\ AppliedEntries(f) \in Seq(Entries)
           /\ (\A i \in DOMAIN f : Accepted(f, i)) =>
                  AppliedEntries(f) = [i \in DOMAIN f |-> Entry(f[i])]
<1> DEFINE n == Len(f)
           after == CHOOSE g :
              g = [i \in 0..n |-> IF i = 0 THEN <<>> ELSE ApplyLine(f, i, g[i - 1])]
<1>1. AppliedEntries(f) = after[n]
  BY DEF AppliedEntries
<1>2. after = [i \in 0..n |-> IF i = 0 THEN <<>> ELSE ApplyLine(f, i, after[i - 1])]
  <2> HIDE DEF n
  <2>1. n \in Nat
    BY DEF n
  <2>2. \E g : Replaying(g, f, n)
    BY <2>1, ReplayTurns
  <2> QED
    BY <2>2 DEF Replaying
<1> HIDE DEF after
<1>3. /\ n \in Nat /\ DOMAIN f = 1..n
      /\ \A i \in 1..n : f[i] \in Lines /\ Entry(f[i]) \in Entries
  <2>1. \A line \in Lines : Entry(line) \in Entries
    BY DEF Lines, Entry, Entries
  <2> QED
    BY <2>1
<1> HIDE DEF n
<1> DEFINE Good(k) ==
              /\ after[k] \in Seq(Entries)
              /\ (\A i \in 1..n : Accepted(f, i)) =>
                     after[k] = [i \in 1..k |-> Entry(f[i])]
           S == {k \in Nat : k <= n => Good(k)}
<1>4. 0 \in S
  <2>1. after[0] = <<>>
    BY <1>2, <1>3
  <2>2. [i \in 1..0 |-> Entry(f[i])] = <<>>
    OBVIOUS
  <2>3. Good(0)
    BY <2>1, <2>2
  <2> HIDE DEF Good
  <2> QED
    BY <2>3
<1>5. ASSUME NEW k \in S PROVE k + 1 \in S
  <2> SUFFICES ASSUME k + 1 <= n PROVE Good(k + 1)
    OBVIOUS
  <2>1. k \in Nat /\ k + 1 \in 0..n /\ k + 1 # 0 /\ (k + 1) - 1 = k /\ k + 1 \in 1..n
        /\ k <= n
    BY <1>3
  <2>2. after[k + 1] = ApplyLine(f, k + 1, after[k])
    BY <1>2, <2>1
  <2>3. Good(k)
    BY <2>1
  <2>4. after[k + 1] \in Seq(Entries)
    BY <1>3, <2>1, <2>2, <2>3 DEF ApplyLine
  <2>5. ASSUME \A i \in 1..n : Accepted(f, i)
        PROVE  after[k + 1] = [i \in 1..(k + 1) |-> Entry(f[i])]
    <3> DEFINE s == [i \in 1..k |-> Entry(f[i])]
               t == [i \in 1..(k + 1) |-> Entry(f[i])]
    <3>1. after[k + 1] = Append(s, Entry(f[k + 1]))
      BY <2>1, <2>2, <2>3, <2>5 DEF ApplyLine
    <3>2. s \in Seq(Entries) /\ t \in Seq(Entries) /\ Len(s) = k /\ Len(t) = k + 1
      BY <1>3, <2>1
    <3>3. Append(s, Entry(f[k + 1])) \in Seq(Entries)
      BY <1>3, <2>1, <3>2
    <3>4. Len(Append(s, Entry(f[k + 1]))) = k + 1
      BY <2>1, <3>2
    <3>5. \A i \in 1..(k + 1) : Append(s, Entry(f[k + 1]))[i] = t[i]
      BY <2>1, <3>2
    <3> HIDE DEF s, t
    <3>6. Append(s, Entry(f[k + 1])) = t
      BY <2>1, <3>2, <3>3, <3>4, <3>5
    <3> QED
      BY <3>1, <3>6 DEF t
  <2> QED
    BY <2>4, <2>5
<1> HIDE DEF S, Good
<1>6. S \in SUBSET Nat
  BY DEF S
<1>7. n \in S
  BY <1>3, <1>4, <1>5, <1>6, SetInduction
<1>8. Good(n)
  BY <1>3, <1>7 DEF S
<1> QED
  BY <1>1, <1>3, <1>8 DEF Good

-----------------------------------------------------------------------------
(* What the store lists and counts.                                        *)

\* The rest of the types: what a replay and the later calls list and count.
ListTypes ==
    /\ entries \in Seq(Entries) /\ corruptLines \in Nat
    /\ eventDedupe \subseteq Hosts /\ IsFiniteSet(eventDedupe)
    /\ Cardinality(eventDedupe) <= EventCap

LEMMA CallLists ==
    ASSUME NEW h \in Hosts, Decide(h)
    PROVE  /\ \/ eventDedupe' = eventDedupe
              \/ Cardinality(eventDedupe) < EventCap /\ eventDedupe' = eventDedupe \cup {h}
           /\ corruptLines' = corruptLines
<1>1. CASE LearnPin(h) \/ AddBypass(h) \/ Remove(h)
  BY <1>1 DEF LearnPin, AddBypass, Remove, AppendRecord
<1>2. CASE RecordEvent(h)
  BY <1>2 DEF RecordEvent, AppendRecord
<1> QED
  BY <1>1, <1>2 DEF Decide

\* One more element in a set of fewer than m.
LEMMA OneMore ==
    ASSUME NEW S, IsFiniteSet(S), NEW x, NEW m \in Nat, Cardinality(S) < m
    PROVE  IsFiniteSet(S \cup {x}) /\ Cardinality(S \cup {x}) <= m
<1>1. Cardinality(S) \in Nat
  BY FS_CardinalityType
<1>2. /\ IsFiniteSet(S \cup {x})
      /\ Cardinality(S \cup {x}) = IF x \in S THEN Cardinality(S) ELSE Cardinality(S) + 1
  BY FS_AddElement
<1> QED
  BY <1>1, <1>2

LEMMA SkippedIsFinite ==
    ASSUME NEW f \in Seq(Lines)
    PROVE  IsFiniteSet(SkippedLines(f)) /\ Cardinality(SkippedLines(f)) \in Nat
<1>1. Len(f) \in Nat /\ SkippedLines(f) \subseteq 1..Len(f)
  BY DEF SkippedLines
<1>2. IsFiniteSet(1..Len(f))
  BY <1>1, FS_Interval
<1> QED
  BY <1>1, <1>2, FS_Subset, FS_CardinalityType

LEMMA ListTypesInit == Init => ListTypes
BY FS_EmptySet, PolicyAssumption DEF Init, ListTypes

LEMMA ListTypesNext ==
    ASSUME IndInv, ListTypes, [Next]_vars
    PROVE  ListTypes'
<1>1. Types
  BY DEF IndInv
<1>2. CASE Open
  <2>1. file \in Seq(Lines)
    BY <1>1 DEF Types
  <2>2. AppliedEntries(file) \in Seq(Entries) /\ Cardinality(SkippedLines(file)) \in Nat
    BY <2>1, ReplayLeaves, SkippedIsFinite
  <2> QED
    BY <1>2, <2>2, FS_EmptySet, PolicyAssumption DEF Open, ListTypes
<1>3. CASE OpenEphemeral
  BY <1>3, FS_EmptySet, PolicyAssumption DEF OpenEphemeral, ListTypes
<1>4. ASSUME NEW h \in Hosts, Decide(h) PROVE ListTypes'
  <2>1. entries' \in Seq(Entries)
    <3>1. PICK a \in Actions : AppendRecord(h, a)
      BY <1>4, DecideActs
    <3> DEFINE rec == PolicyRecord(writes + 1, h, a, lastRawLine)
    <3>2. entries' = entries \/ entries' = Append(entries, Entry(rec))
      BY <3>1 DEF AppendRecord, AppendInMemory, AppendSucceeds, AppendThrows,
                  CrashInAppend, ListAndAnchor
    <3>3. writes < MaxWrites
      BY <3>1 DEF AppendRecord
    <3>4. rec \in Lines
      BY <1>1, <3>3, RecordIsLine
    <3> HIDE DEF rec
    <3>5. Entry(rec) \in Entries
      BY <3>4 DEF Lines, Entry, Entries
    <3> QED
      BY <3>2, <3>5 DEF ListTypes
  <2>2. /\ eventDedupe' \subseteq Hosts /\ IsFiniteSet(eventDedupe')
        /\ Cardinality(eventDedupe') <= EventCap
    <3>1. CASE eventDedupe' = eventDedupe
      BY <3>1 DEF ListTypes
    <3>2. CASE Cardinality(eventDedupe) < EventCap /\ eventDedupe' = eventDedupe \cup {h}
      <4>1. /\ IsFiniteSet(eventDedupe \cup {h})
            /\ Cardinality(eventDedupe \cup {h}) <= EventCap
        BY <3>2, OneMore, PolicyAssumption DEF ListTypes
      <4>2. eventDedupe' = eventDedupe \cup {h} /\ eventDedupe \subseteq Hosts
        BY <3>2 DEF ListTypes
      <4> QED
        BY <4>1, <4>2
    <3> QED
      BY <1>4, <3>1, <3>2, CallLists
  <2>3. corruptLines' \in Nat
    BY <1>4, CallLists DEF ListTypes
  <2> QED
    BY <2>1, <2>2, <2>3 DEF ListTypes
<1>5. CASE Stop \/ UNCHANGED vars
  BY <1>5 DEF Stop, vars, memory, ListTypes
<1> QED
  BY <1>2, <1>3, <1>4, <1>5 DEF Next

\* The list of an append is the list with one more entry.
LEMMA ListAppend ==
    ASSUME NEW f \in Seq(Lines), NEW line \in Lines
    PROVE  [i \in DOMAIN Append(f, line) |-> Entry(Append(f, line)[i])]
              = Append([i \in DOMAIN f |-> Entry(f[i])], Entry(line))
<1> DEFINE n == Len(f)
           s == [i \in DOMAIN f |-> Entry(f[i])]
           t == [i \in DOMAIN Append(f, line) |-> Entry(Append(f, line)[i])]
<1>1. /\ n \in Nat /\ DOMAIN f = 1..n /\ DOMAIN Append(f, line) = 1..(n + 1)
      /\ \A i \in 1..n : f[i] \in Lines /\ Append(f, line)[i] = f[i]
      /\ Append(f, line)[n + 1] = line
  OBVIOUS
<1>2. \A x \in Lines : Entry(x) \in Entries
  BY DEF Lines, Entry, Entries
<1> HIDE DEF n
<1>3. s \in Seq(Entries) /\ t \in Seq(Entries) /\ Len(s) = n /\ Len(t) = n + 1
  <2>1. \A i \in 1..(n + 1) : Append(f, line)[i] \in Lines
    BY <1>1
  <2> QED
    BY <1>1, <1>2, <2>1
<1>4. Append(s, Entry(line)) \in Seq(Entries) /\ Len(Append(s, Entry(line))) = n + 1
  BY <1>2, <1>3
<1>5. \A i \in 1..(n + 1) : Append(s, Entry(line))[i] = t[i]
  BY <1>1, <1>3
<1> HIDE DEF s, t
<1>6. Append(s, Entry(line)) = t
  BY <1>1, <1>3, <1>4, <1>5
<1> QED
  BY <1>6 DEF s, t

LEMMA ListNext ==
    ASSUME IndInv, ListIsLedger, [Next]_vars
    PROVE  ListIsLedger'
<1> SUFFICES ASSUME Serving', tears' = 0
             PROVE  entries' = [i \in DOMAIN file' |-> Entry(file'[i])]
  BY DEF ListIsLedger, Entry
<1>1. Types /\ tears \in Nat /\ (tears = 0 => ChainIntact) /\ file \in Seq(Lines)
  BY DEF IndInv, Types
<1>2. CASE Open
  <2>1. \A i \in DOMAIN file : Accepted(file, i)
    BY <1>1, <1>2 DEF Open, ChainIntact
  <2> QED
    BY <1>1, <1>2, <2>1, ReplayLeaves DEF Open, disk
<1>3. CASE OpenEphemeral
  BY <1>3 DEF OpenEphemeral, Serving
<1>4. ASSUME NEW h \in Hosts, Decide(h)
      PROVE  entries' = [i \in DOMAIN file' |-> Entry(file'[i])]
  <2>1. PICK a \in Actions : AppendRecord(h, a)
    BY <1>4, DecideActs
  <2> DEFINE rec == PolicyRecord(writes + 1, h, a, lastRawLine)
  <2>2. /\ writes < MaxWrites /\ degraded' = degraded /\ up
        /\ \/ AppendInMemory(rec) \/ AppendSucceeds(rec)
           \/ AppendThrows(rec) \/ CrashInAppend(rec)
    BY <1>4, <2>1, DecideActs DEF AppendRecord
  <2>3. rec \in Lines
    BY <1>1, <2>2, RecordIsLine
  <2> HIDE DEF rec
  <2>4. ~AppendInMemory(rec) /\ ~CrashInAppend(rec)
    BY <2>2 DEF AppendInMemory, CrashInAppend, Serving
  <2>5. CASE AppendThrows(rec)
    <3>1. tears = 0 /\ UNCHANGED <<file, entries, up, degraded>>
      BY <1>1, <2>2, <2>5 DEF AppendThrows, PartialWrite, disk
    <3> QED
      BY <3>1 DEF ListIsLedger, Serving
  <2>6. CASE AppendSucceeds(rec)
    <3>1. /\ tears = 0 /\ entries' = Append(entries, Entry(rec)) /\ Serving
          /\ file' = Append(file, rec)
      BY <1>1, <2>2, <2>6 DEF AppendSucceeds, ListAndAnchor, WriteLine, ChainIntact, Serving
    <3>2. entries = [i \in DOMAIN file |-> Entry(file[i])]
      BY <3>1 DEF ListIsLedger
    <3>3. [i \in DOMAIN file' |-> Entry(file'[i])]
            = Append([i \in DOMAIN file |-> Entry(file[i])], Entry(rec))
      BY <1>1, <2>3, <3>1, ListAppend
    <3> QED
      BY <3>1, <3>2, <3>3
  <2> QED
    BY <2>2, <2>4, <2>5, <2>6
<1>5. CASE Stop \/ UNCHANGED vars
  BY <1>5 DEF Stop, vars, disk, memory, history, ListIsLedger, Serving
<1> QED
  BY <1>2, <1>3, <1>4, <1>5 DEF Next

\* policyStore.ts: the store's variables keep their types, the set of events seen its cap,
\* whatever is written, torn and replayed.
THEOREM TypesHold == Spec => []TypeOK
<1>1. IndInv /\ ListTypes => TypeOK
  BY DEF IndInv, Types, ListTypes, TypeOK
<1>2. IndInv /\ ListTypes /\ [Next]_vars => ListTypes'
  BY ListTypesNext
<1> QED
  BY <1>1, <1>2, InitInd, NextInd, ListTypesInit, PTL DEF Spec

\* policyStore.ts list(): the decisions listed are those on disk, in order, however many
\* appends failed before they left a byte.
THEOREM ListIsTheLedger == Spec => []ListIsLedger
<1>1. Init => ListIsLedger
  BY DEF Init, ListIsLedger, Serving
<1>2. IndInv /\ ListIsLedger /\ [Next]_vars => ListIsLedger'
  BY ListNext
<1> QED
  BY <1>1, <1>2, InitInd, NextInd, PTL DEF Spec

-----------------------------------------------------------------------------
(* What partial appends cost.                                              *)

\* Records the damage already done may still cost: the one glued to the bytes left
\* behind and the one after it, or the one that chains to a line not on disk.
Owed == IF dangling THEN 2
        ELSE IF Serving /\ lastRawLine # AnchorAfter(file) THEN 1 ELSE 0

\* A record whose append returned has its line, and bytes left behind are no such record's.
DamageInv ==
    /\ written \subseteq 1..writes
    /\ \A n \in written : \E i \in DOMAIN file : file[i].id = n
    /\ dangling => file[Len(file)].id \notin written
    /\ Cardinality(Lost) + Owed <= 2 * tears

LEMMA LostIsFinite ==
    ASSUME NEW S, NEW m \in Nat, S \subseteq 1..m
    PROVE  IsFiniteSet(S) /\ Cardinality(S) \in Nat
<1>1. IsFiniteSet(1..m)
  BY FS_Interval
<1> QED
  BY <1>1, FS_Subset, FS_CardinalityType

LEMMA DamageFacts ==
    ASSUME Types, DamageInv
    PROVE  /\ Lost \subseteq written /\ Lost \subseteq 1..writes /\ writes \in Nat
           /\ tears \in Nat /\ Cardinality(Lost) \in Nat /\ Owed \in {0, 1, 2}
           /\ writes + 1 \notin written
<1>1. writes \in Nat /\ tears \in Nat
  BY PolicyAssumption DEF Types
<1>2. Lost \subseteq written
  BY DEF Lost
<1>3. written \subseteq 1..writes
  BY DEF DamageInv
<1>4. Lost \subseteq 1..writes /\ writes + 1 \notin written
  BY <1>1, <1>2, <1>3
<1>5. Cardinality(Lost) \in Nat
  BY <1>1, <1>4, LostIsFinite
<1>6. Owed \in {0, 1, 2}
  BY DEF Owed
<1> QED
  BY <1>1, <1>2, <1>4, <1>5, <1>6

LEMMA LostNext ==
    Lost' = {n \in written' : ~ \E i \in DOMAIN file' : file'[i].id = n /\ Accepted(file', i)}
BY DEF Lost, Accepted, SumBefore

\* The lines that are left of a file by a write, and the line it wrote.
Kept == IF dangling THEN Len(file) - 1 ELSE Len(file)

\* What replacing the last line does.
LEMMA ReplaceLast ==
    ASSUME NEW S, NEW q \in Seq(S), NEW n, n = Len(q), n # 0, NEW x \in S,
           NEW g, g = [q EXCEPT ![n] = x]
    PROVE  /\ n \in Nat /\ n >= 1 /\ DOMAIN q = 1..n
           /\ Len(g) = n /\ DOMAIN g = 1..n /\ g[n] = x
           /\ \A i \in 1..(n - 1) : g[i] = q[i]
<1>1. n \in Nat /\ n >= 1 /\ DOMAIN q = 1..n /\ q = [i \in 1..n |-> q[i]]
  OBVIOUS
<1>2. g = [i \in 1..n |-> IF i = n THEN x ELSE q[i]]
  BY <1>1
<1>3. DOMAIN g = 1..n /\ g[n] = x /\ \A i \in 1..(n - 1) : g[i] = q[i]
  BY <1>1, <1>2
<1>4. g \in Seq(S)
  OBVIOUS
<1>5. Len(g) = n
  BY <1>1, <1>3, <1>4
<1> QED
  BY <1>1, <1>3, <1>5

LEMMA WriteLineAt ==
    ASSUME Types, NEW line \in Lines, NEW glued \in Lines,
           NEW g, g = WriteLine(line, glued)
    PROVE  /\ Kept \in Nat /\ Kept <= Len(file) /\ DOMAIN file = 1..Len(file)
           /\ Len(g) = Kept + 1 /\ DOMAIN g = 1..(Kept + 1)
           /\ \A i \in 1..Kept : g[i] = file[i]
           /\ g[Kept + 1] = IF dangling THEN glued ELSE line
<1>1. file \in Seq(Lines) /\ (dangling => file # <<>>)
  BY DEF Types
<1>2. CASE dangling
  <2>1. PICK n : n = Len(file)
    OBVIOUS
  <2>2. n # 0 /\ g = [file EXCEPT ![n] = glued]
    BY <1>1, <1>2, <2>1 DEF WriteLine
  <2>3. /\ n \in Nat /\ n >= 1 /\ DOMAIN file = 1..n
        /\ Len(g) = n /\ DOMAIN g = 1..n /\ g[n] = glued
        /\ \A i \in 1..(n - 1) : g[i] = file[i]
    BY <1>1, <2>1, <2>2, ReplaceLast
  <2>4. Kept = n - 1 /\ Kept + 1 = n
    BY <1>2, <2>1, <2>3 DEF Kept
  <2> QED
    BY <1>2, <2>1, <2>3, <2>4
<1>3. CASE ~dangling
  BY <1>1, <1>3 DEF WriteLine, Kept
<1> QED
  BY <1>2, <1>3

\* A write takes no line from a record whose append had returned, nor its acceptance.
LEMMA WriteKeeps ==
    ASSUME Types, DamageInv, NEW line \in Lines, NEW glued \in Lines,
           file' = WriteLine(line, glued)
    PROVE  /\ \A n \in written : \E i \in DOMAIN file' : file'[i].id = n
           /\ \A n \in written \ Lost :
                 \E i \in DOMAIN file' : file'[i].id = n /\ Accepted(file', i)
           /\ file'[Len(file')] = (IF dangling THEN glued ELSE line)
           /\ file' # <<>> /\ Len(file') \in DOMAIN file'
           /\ ~dangling /\ line.ok /\ line.prevHash = AnchorAfter(file)
                 => Accepted(file', Len(file'))
<1>1. /\ Kept \in Nat /\ Kept <= Len(file) /\ DOMAIN file = 1..Len(file)
      /\ Len(file') = Kept + 1 /\ DOMAIN file' = 1..(Kept + 1)
      /\ \A i \in 1..Kept : file'[i] = file[i]
      /\ file'[Kept + 1] = IF dangling THEN glued ELSE line
  BY WriteLineAt
<1>2. ASSUME NEW n \in written, NEW i \in DOMAIN file, file[i].id = n
      PROVE  i \in 1..Kept
  <2>1. CASE dangling
    <3>1. i # Len(file)
      BY <1>2, <2>1 DEF DamageInv
    <3> QED
      BY <1>1, <2>1, <3>1 DEF Kept, Types
  <2>2. CASE ~dangling
    BY <1>1, <2>2 DEF Kept
  <2> QED
    BY <2>1, <2>2
<1>3. \A i \in 1..Kept : i \in DOMAIN file' /\ (Accepted(file, i) => Accepted(file', i))
  <2> SUFFICES ASSUME NEW i \in 1..Kept
               PROVE  i \in DOMAIN file' /\ (Accepted(file, i) => Accepted(file', i))
    OBVIOUS
  <2>1. i \in 1..(Kept + 1) /\ (i # 1 => i - 1 \in 1..Kept)
    BY <1>1
  <2>2. file'[i] = file[i] /\ (i # 1 => file'[i - 1] = file[i - 1])
    BY <1>1, <2>1
  <2> QED
    BY <1>1, <2>1, <2>2 DEF Accepted, SumBefore
<1>4. \A n \in written : \E i \in DOMAIN file' : file'[i].id = n
  <2> SUFFICES ASSUME NEW n \in written PROVE \E i \in DOMAIN file' : file'[i].id = n
    OBVIOUS
  <2>1. PICK i \in DOMAIN file : file[i].id = n
    BY DEF DamageInv
  <2> QED
    BY <1>1, <1>2, <1>3, <2>1
<1>5. \A n \in written \ Lost :
         \E i \in DOMAIN file' : file'[i].id = n /\ Accepted(file', i)
  <2> SUFFICES ASSUME NEW n \in written \ Lost
               PROVE  \E i \in DOMAIN file' : file'[i].id = n /\ Accepted(file', i)
    OBVIOUS
  <2>1. PICK i \in DOMAIN file : file[i].id = n /\ Accepted(file, i)
    BY DEF Lost
  <2> QED
    BY <1>1, <1>2, <1>3, <2>1
<1>6. file' # <<>> /\ Len(file') \in DOMAIN file'
  BY <1>1
<1>7. ASSUME ~dangling, line.ok, line.prevHash = AnchorAfter(file)
      PROVE  Accepted(file', Kept + 1)
  <2>1. Kept = Len(file) /\ file \in Seq(Lines)
    BY <1>7 DEF Kept, Types
  <2>2. CASE file = <<>>
    BY <1>1, <1>7, <2>1, <2>2 DEF Accepted, SumBefore, AnchorAfter
  <2>3. CASE file # <<>>
    <3>1. Kept # 0 /\ (Kept + 1) - 1 = Kept /\ Kept \in 1..Kept
      BY <1>1, <2>1, <2>3
    <3> QED
      BY <1>1, <1>7, <2>1, <2>3, <3>1 DEF Accepted, SumBefore, AnchorAfter
  <2> QED
    BY <2>2, <2>3
<1> QED
  BY <1>1, <1>4, <1>5, <1>6, <1>7

\* What is lost and owed, when only the one record that was being written may be lost.
LEMMA DamageAdds ==
    ASSUME NEW lost, NEW before, NEW m \in Nat, before \subseteq 1..m, NEW n,
           lost \subseteq before \cup {n}
    PROVE  /\ Cardinality(lost) \in Nat /\ Cardinality(before) \in Nat
           /\ Cardinality(lost) <= Cardinality(before) + 1
           /\ lost \subseteq before => Cardinality(lost) <= Cardinality(before)
<1>1. IsFiniteSet(before) /\ Cardinality(before) \in Nat
  BY LostIsFinite
<1>2. IsFiniteSet(before \cup {n}) /\ Cardinality(before \cup {n}) <= Cardinality(before) + 1
  <2>1. PICK k \in Nat : k = Cardinality(before) + 1
    BY <1>1
  <2>2. Cardinality(before) < k
    BY <1>1, <2>1
  <2> QED
    BY <1>1, <2>1, <2>2, OneMore
<1>3. /\ IsFiniteSet(lost) /\ Cardinality(lost) <= Cardinality(before \cup {n})
      /\ Cardinality(lost) \in Nat
  BY <1>2, FS_Subset, FS_CardinalityType
<1>4. Cardinality(before \cup {n}) \in Nat
  BY <1>2, FS_CardinalityType
<1>5. lost \subseteq before => Cardinality(lost) <= Cardinality(before)
  BY <1>1, FS_Subset
<1> QED
  BY <1>1, <1>2, <1>3, <1>4, <1>5

\* A step that writes no byte and saves no record.
LEMMA DamageStays ==
    ASSUME Types, DamageInv, UNCHANGED <<file, dangling, tears, written>>,
           writes' \in {writes, writes + 1}, Owed' <= Owed
    PROVE  DamageInv'
<1>1. Lost' = Lost
  BY LostNext DEF Lost
<1>2. written' \subseteq 1..writes'
  BY DEF DamageInv, Types
<1>4. Cardinality(Lost) \in Nat /\ tears \in Nat
  BY DamageFacts
<1>5. Owed \in Nat /\ Owed' \in Nat
  BY DEF Owed
<1>6. Cardinality(Lost') + Owed' <= 2 * tears'
  BY <1>1, <1>4, <1>5 DEF DamageInv
<1> QED
  BY <1>2, <1>6 DEF DamageInv

LEMMA DamageCall ==
    ASSUME IndInv, DamageInv, up, NEW h \in Hosts, NEW a \in Actions, AppendRecord(h, a)
    PROVE  DamageInv'
<1> DEFINE rec == PolicyRecord(writes + 1, h, a, lastRawLine)
           bad == Damaged(writes + 1, h, a)
<1>1. /\ Types /\ writes < MaxWrites /\ writes' = writes + 1 /\ degraded' = degraded
      /\ \/ AppendInMemory(rec) \/ AppendSucceeds(rec)
         \/ AppendThrows(rec) \/ CrashInAppend(rec)
      /\ writes \in Nat /\ tears \in Nat
  BY DEF AppendRecord, IndInv, Types
<1>2. /\ rec \in Lines /\ bad \in Lines /\ rec.ok /\ rec.prevHash = lastRawLine
      /\ rec.id = writes + 1 /\ bad.id = writes + 1
      /\ bad = Damaged(rec.id, rec.host, rec.action)
  BY <1>1, RecordIsLine DEF PolicyRecord, Damaged
<1> HIDE DEF rec, bad
<1>3. /\ Lost \subseteq 1..writes /\ Owed \in Nat /\ Owed' \in Nat /\ written \subseteq 1..writes
      /\ writes + 1 \notin written /\ Lost \subseteq written
      /\ Cardinality(Lost) + Owed <= 2 * tears
  <2>1. Owed' \in {0, 1, 2}
    BY DEF Owed
  <2> QED
    BY <1>1, <2>1, DamageFacts DEF DamageInv
<1>4. CASE AppendInMemory(rec)
  <2>1. UNCHANGED <<file, dangling, tears, written>> /\ degraded
    BY <1>4 DEF AppendInMemory, disk
  <2>2. Owed' <= Owed
    BY <1>1, <2>1 DEF Owed, Serving
  <2> QED
    BY <1>1, <2>1, <2>2, DamageStays
<1>5. ASSUME PartialWrite(rec), written' = written, lastRawLine' = lastRawLine,
             up' \in {up, FALSE}
      PROVE  DamageInv'
  <2>1. CASE UNCHANGED <<disk, tears>>
    <3>1. UNCHANGED <<file, dangling, tears, written>>
      BY <1>5, <2>1 DEF disk
    <3>2. Owed' <= Owed
      BY <1>1, <1>5, <3>1 DEF Owed, Serving, AnchorAfter
    <3> QED
      BY <1>1, <3>1, <3>2, DamageStays
  <2>2. ASSUME tears' = tears + 1, dangling' = TRUE, NEW line \in {rec, bad},
               file' = WriteLine(line, bad)
        PROVE  DamageInv'
    <3>1. line \in Lines /\ line.id = writes + 1
      BY <1>2
    <3>2. /\ \A n \in written : \E i \in DOMAIN file' : file'[i].id = n
          /\ \A n \in written \ Lost :
                \E i \in DOMAIN file' : file'[i].id = n /\ Accepted(file', i)
          /\ file'[Len(file')] = (IF dangling THEN bad ELSE line)
      BY <1>1, <1>2, <2>2, <3>1, WriteKeeps
    <3>3. Lost' \subseteq Lost
      BY <1>5, <3>2, LostNext
    <3>4. /\ Cardinality(Lost') <= Cardinality(Lost)
          /\ Cardinality(Lost') \in Nat /\ Cardinality(Lost) \in Nat
      BY <1>1, <1>3, <3>3, DamageAdds
    <3>5. Owed' = 2
      BY <2>2 DEF Owed
    <3>6. Cardinality(Lost') + Owed' <= 2 * tears'
      BY <1>1, <1>3, <2>2, <3>4, <3>5
    <3>7. file'[Len(file')].id \notin written'
      BY <1>2, <1>3, <1>5, <3>1, <3>2
    <3>8. written' \subseteq 1..writes'
      BY <1>1, <1>3, <1>5
    <3> QED
      BY <1>5, <3>2, <3>6, <3>7, <3>8 DEF DamageInv
  <2> QED
    BY <1>2, <1>5, <2>1, <2>2 DEF PartialWrite
<1>6. CASE AppendThrows(rec)
  BY <1>5, <1>6 DEF AppendThrows
<1>7. CASE CrashInAppend(rec)
  BY <1>5, <1>7 DEF CrashInAppend
<1>8. CASE AppendSucceeds(rec)
  <2>1. /\ file' = WriteLine(rec, bad) /\ ~dangling' /\ lastRawLine' = rec.sum
        /\ written' = written \cup {writes + 1} /\ tears' = tears /\ Serving
    BY <1>1, <1>2, <1>8 DEF AppendSucceeds, ListAndAnchor, Serving
  <2>2. /\ \A n \in written : \E i \in DOMAIN file' : file'[i].id = n
        /\ \A n \in written \ Lost :
              \E i \in DOMAIN file' : file'[i].id = n /\ Accepted(file', i)
        /\ file'[Len(file')] = (IF dangling THEN bad ELSE rec)
        /\ file' # <<>> /\ Len(file') \in DOMAIN file'
        /\ ~dangling /\ lastRawLine = AnchorAfter(file) => Accepted(file', Len(file'))
    BY <1>1, <1>2, <2>1, WriteKeeps
  <2>3. file'[Len(file')].id = writes + 1
    BY <1>2, <2>2
  <2>4. /\ Lost' \subseteq Lost \cup {writes + 1}
        /\ ~dangling /\ lastRawLine = AnchorAfter(file) => Lost' \subseteq Lost
    BY <2>1, <2>2, <2>3, LostNext
  <2>5. /\ Cardinality(Lost') \in Nat /\ Cardinality(Lost) \in Nat
        /\ Cardinality(Lost') <= Cardinality(Lost) + 1
        /\ Lost' \subseteq Lost => Cardinality(Lost') <= Cardinality(Lost)
    BY <1>1, <1>3, <2>4, DamageAdds
  <2>6. /\ Owed' <= 1 /\ (~dangling => Owed' = 0)
    <3>1. ~dangling => AnchorAfter(file)' = lastRawLine'
      BY <2>1, <2>2 DEF AnchorAfter
    <3> QED
      BY <2>1, <3>1 DEF Owed
  <2>7. Cardinality(Lost') + Owed' <= 2 * tears'
    <3>1. CASE dangling
      <4>1. Owed = 2
        BY <3>1 DEF Owed
      <4> QED
        BY <1>1, <1>3, <2>1, <2>5, <2>6, <4>1
    <3>2. CASE ~dangling /\ lastRawLine = AnchorAfter(file)
      BY <1>1, <1>3, <2>1, <2>4, <2>5, <2>6, <3>2
    <3>3. CASE ~dangling /\ lastRawLine # AnchorAfter(file)
      <4>1. Owed = 1
        BY <2>1, <3>3 DEF Owed
      <4> QED
        BY <1>1, <1>3, <2>1, <2>5, <2>6, <3>3, <4>1
    <3> QED
      BY <3>1, <3>2, <3>3
  <2>8. /\ written' \subseteq 1..writes'
        /\ \A n \in written' : \E i \in DOMAIN file' : file'[i].id = n
    BY <1>1, <1>3, <2>1, <2>2, <2>3
  <2> QED
    BY <2>1, <2>7, <2>8 DEF DamageInv
<1> QED
  BY <1>1, <1>4, <1>6, <1>7, <1>8

LEMMA DamageInit == Init => DamageInv
<1> SUFFICES ASSUME Init PROVE DamageInv
  OBVIOUS
<1>1. written = {} /\ tears = 0 /\ ~dangling /\ Lost = {} /\ Owed = 0
  BY DEF Init, Lost, Owed, Serving
<1>2. Cardinality(Lost) = 0
  BY <1>1, FS_EmptySet
<1> QED
  BY <1>1, <1>2 DEF DamageInv

LEMMA DamageNext ==
    ASSUME IndInv, DamageInv, [Next]_vars
    PROVE  DamageInv'
<1>1. Types
  BY DEF IndInv
<1>2. ASSUME NEW h \in Hosts, Decide(h) PROVE DamageInv'
  BY <1>2, DecideActs, DamageCall
<1>3. CASE Open
  <2>1. UNCHANGED <<file, dangling, tears, written, writes>> /\ lastRawLine' = AnchorAfter(file)
    BY <1>3 DEF Open, disk
  <2>2. Owed' <= Owed
    <3>1. AnchorAfter(file)' = lastRawLine'
      BY <2>1 DEF AnchorAfter
    <3>2. dangling' = dangling
      BY <2>1
    <3> QED
      BY <3>1, <3>2 DEF Owed
  <2> QED
    BY <1>1, <2>1, <2>2, DamageStays
<1>4. CASE OpenEphemeral
  <2>1. UNCHANGED <<file, dangling, tears, written, writes>> /\ ~Serving'
    BY <1>4 DEF OpenEphemeral, disk, Serving
  <2>2. Owed' <= Owed
    BY <2>1 DEF Owed
  <2> QED
    BY <1>1, <2>1, <2>2, DamageStays
<1>5. CASE Stop \/ UNCHANGED vars
  <2>1. UNCHANGED <<file, dangling, tears, written, writes, lastRawLine, degraded>>
    BY <1>5 DEF Stop, vars, disk, memory, history
  <2>2. Owed' <= Owed
    <3>1. AnchorAfter(file)' = AnchorAfter(file)
      BY <2>1 DEF AnchorAfter
    <3>2. UNCHANGED <<dangling, lastRawLine>>
      BY <2>1
    <3>3. Serving' => Serving
      <4>1. up' => up
        BY <1>5 DEF Stop, vars
      <4> QED
        BY <2>1, <4>1 DEF Serving
    <3> QED
      BY <3>1, <3>2, <3>3 DEF Owed
  <2> QED
    BY <1>1, <2>1, <2>2, DamageStays
<1> QED
  BY <1>2, <1>3, <1>4, <1>5 DEF Next

\* policyStore.ts append and replay: a torn append costs at most the two records behind it,
\* whatever fails, crashes and reopens afterwards.
THEOREM DamageIsBounded == Spec => []DamageBounded
<1>1. IndInv /\ DamageInv => DamageBounded
  <2> SUFFICES ASSUME IndInv, DamageInv PROVE DamageBounded
    OBVIOUS
  <2>1. Cardinality(Lost) \in Nat /\ tears \in Nat /\ Owed \in {0, 1, 2}
    BY DamageFacts DEF IndInv
  <2> QED
    BY <2>1 DEF DamageInv, DamageBounded
<1>2. IndInv /\ DamageInv /\ [Next]_vars => DamageInv'
  BY DamageNext
<1> QED
  BY <1>1, <1>2, InitInd, NextInd, DamageInit, PTL DEF Spec

\* A lost record has a line of its own that the replay skips.
LEMMA LossIsCounted ==
    ASSUME Types, DamageInv
    PROVE  Cardinality(Lost) <= Cardinality(SkippedLines(file))
<1> DEFINE own == [n \in Lost |-> CHOOSE i \in DOMAIN file : file[i].id = n]
<1>1. ASSUME NEW n \in Lost
      PROVE  own[n] \in SkippedLines(file) /\ file[own[n]].id = n
  <2>1. /\ n \in written
        /\ \A i \in DOMAIN file : file[i].id = n => ~Accepted(file, i)
    BY DEF Lost
  <2>2. own[n] \in DOMAIN file /\ file[own[n]].id = n
    BY <2>1 DEF DamageInv
  <2> QED
    BY <2>1, <2>2 DEF SkippedLines
<1> HIDE DEF own
<1>2. own \in [Lost -> SkippedLines(file)]
  BY <1>1 DEF own
<1>3. \A n, m \in Lost : own[n] = own[m] => n = m
  BY <1>1
<1>4. own \in Injection(Lost, SkippedLines(file))
  BY <1>2, <1>3, Fun_IsInj
<1>5. IsFiniteSet(SkippedLines(file))
  BY SkippedIsFinite DEF Types
<1> QED
  BY <1>4, <1>5, FS_Injection

\* policyStore.ts replay(): the corrupt lines a reopened store counts are no fewer than the
\* saved records it does not apply.
THEOREM OpeningReportsLoss == Spec => OpenReportsLoss
<1>1. ASSUME IndInv, DamageInv, [Next]_vars
      PROVE  [~up /\ up' /\ ~degraded' => Cardinality(Lost) <= corruptLines']_vars
  <2>1. CASE Open
    BY <1>1, <2>1, LossIsCounted DEF Open, IndInv
  <2>2. CASE ~Open
    BY <1>1, <2>2, DecideActs DEF Next, OpenEphemeral, Stop
  <2> QED
    BY <2>1, <2>2
<1>2. IndInv /\ DamageInv /\ [Next]_vars => DamageInv'
  BY DamageNext
<1> QED
  BY <1>1, <1>2, InitInd, NextInd, DamageInit, PTL DEF Spec, OpenReportsLoss

=============================================================================
