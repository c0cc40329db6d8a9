---------------------------- MODULE PolicyStore ----------------------------
(***************************************************************************)
(* The filtering proxy's trust-decision ledger                             *)
(* (packages/https-filter/src/policy/policyStore.ts): an append-only,      *)
(* hash-chained JSONL file, and the two in-memory sets (pinned, bypassed)  *)
(* the sockets consult.  Every decision changes the sets first and appends *)
(* its line second; the append may fail, wholly or half way, and the       *)
(* process may die in the middle of it.  Opening replays the file.         *)
(*                                                                         *)
(* A physical line keeps what replay looks at: whether it parses as a      *)
(* record (ok), the record, and `sum`, the identity of its bytes, which    *)
(* stands for their sha256.  Bytes left by a torn write, and a record      *)
(* written behind them on the same line, have a `sum` of their own.        *)
(***************************************************************************)
EXTENDS Integers, Sequences, FiniteSets

CONSTANTS
    Hosts,        \* normalized host names
    EventCap,     \* EVENT_DEDUPE_CAP
    MaxWrites,    \* bound: appends attempted over the whole behaviour
    MaxTears      \* bound: appends that leave part of their bytes behind

ASSUME PolicyAssumption == /\ EventCap \in Nat
                           /\ MaxWrites \in Nat
                           /\ MaxTears \in Nat

VARIABLES
    file,         \* the physical lines on disk
    dangling,     \* the last line has no newline behind it
    up,           \* a store is open in a running process
    degraded,     \* the open store is PolicyStore.ephemeral()
    pinned, bypassed, entries, lastRawLine, corruptLines, eventDedupe,
    writes,       \* appends attempted so far (names records)
    tears,        \* history: appends that left part of their bytes
    written,      \* history: records whose appendFileSync returned
    unsaved       \* history: hosts with a decision this session failed to save

disk == <<file, dangling>>
memory == <<pinned, bypassed, entries, lastRawLine, corruptLines, eventDedupe>>
history == <<tears, written, unsaved>>
vars == <<disk, up, degraded, memory, writes, history>>

Actions == {"pin", "bypass", "remove", "proxy_event"}

(***************************************************************************)
(* Lines.  Append n writes record n, whose bytes have the sum 2n; the line *)
(* that a partial write or a glued write of append n leaves has 2n + 1.    *)
(***************************************************************************)
NoLine == 0
RecordSum(n) == 2 * n
DamagedSum(n) == 2 * n + 1

PolicyRecord(n, h, a, prev) ==
    [ok |-> TRUE, id |-> n, host |-> h, action |-> a,
     prevHash |-> prev, sum |-> RecordSum(n)]

Damaged(n, h, a) ==
    [ok |-> FALSE, id |-> n, host |-> h, action |-> a,
     prevHash |-> NoLine, sum |-> DamagedSum(n)]

\* The bytes arrive behind whatever the last line already holds: they start a
\* line of their own only when that line ended with a newline.
WriteLine(line, glued) ==
    IF dangling THEN [file EXCEPT ![Len(file)] = glued] ELSE Append(file, line)

(***************************************************************************)
(* Replay.  A line counts when it is a record and its prevHash is the sum  *)
(* of the physical line before it, whatever that line is.                  *)
(***************************************************************************)
SumBefore(f, i) == IF i = 1 THEN NoLine ELSE f[i - 1].sum

\* Variant: replay stops at the first line it does not accept.
AcceptedPrefix(f, i) == \A j \in 1..i : f[j].ok /\ f[j].prevHash = SumBefore(f, j)

Accepted(f, i) == f[i].ok /\ f[i].prevHash = SumBefore(f, i)

\* Variant for the runs' sanity: a removal is final, as if replay applied the
\* `remove` lines after all the others.
StandingOnceRemoved(f, a) ==
    {h \in Hosts :
        /\ \E i \in DOMAIN f : Accepted(f, i) /\ f[i].host = h /\ f[i].action = a
        /\ \A j \in DOMAIN f :
              Accepted(f, j) /\ f[j].host = h => f[j].action # "remove"}

\* Hosts whose last accepted `a` line no accepted `remove` line follows.
Standing(f, a) ==
    {h \in Hosts : \E i \in DOMAIN f :
        /\ Accepted(f, i) /\ f[i].host = h /\ f[i].action = a
        /\ \A j \in DOMAIN f :
              j > i /\ Accepted(f, j) /\ f[j].host = h => f[j].action # "remove"}

Entry(line) == [id |-> line.id, host |-> line.host, action |-> line.action]
\* apply() of line i, behind those before it.
ApplyLine(f, i, applied) ==
    IF Accepted(f, i) THEN Append(applied, Entry(f[i])) ELSE applied

AppliedEntries(f) ==
    LET after[i \in 0..Len(f)] ==
            IF i = 0 THEN <<>> ELSE ApplyLine(f, i, after[i - 1])
    IN  after[Len(f)]

\* Variant: a chain break is skipped without being counted.
UnparsedLines(f) == {i \in DOMAIN f : ~f[i].ok}

SkippedLines(f) == {i \in DOMAIN f : ~Accepted(f, i)}

AnchorAfter(f) == IF f = <<>> THEN NoLine ELSE f[Len(f)].sum

-----------------------------------------------------------------------------

Init == /\ file = <<>> /\ dangling = FALSE
        /\ up = FALSE /\ degraded = FALSE
        /\ pinned = {} /\ bypassed = {} /\ entries = <<>>
        /\ lastRawLine = NoLine /\ corruptLines = 0 /\ eventDedupe = {}
        /\ writes = 0 /\ tears = 0 /\ written = {} /\ unsaved = {}

\* PolicyStore.open: read, chmod, replay.
Open ==
    /\ ~up
    /\ up' = TRUE /\ degraded' = FALSE
    /\ pinned' = Standing(file, "pin")
    /\ bypassed' = Standing(file, "bypass")
    /\ entries' = AppliedEntries(file)
    /\ lastRawLine' = AnchorAfter(file)
    /\ corruptLines' = Cardinality(SkippedLines(file))
    /\ eventDedupe' = {}
    /\ unsaved' = {}
    /\ UNCHANGED <<disk, writes, tears, written>>

\* mkdir, readFile or chmod throws: the proxy runs on PolicyStore.ephemeral().
OpenEphemeral ==
    /\ ~up
    /\ up' = TRUE /\ degraded' = TRUE
    /\ pinned' = {} /\ bypassed' = {} /\ entries' = <<>>
    /\ lastRawLine' = NoLine /\ corruptLines' = 0 /\ eventDedupe' = {}
    /\ unsaved' = {}
    /\ UNCHANGED <<disk, writes, tears, written>>

(***************************************************************************)
(* append: what appendFileSync of one line can do.                         *)
(***************************************************************************)
ListAndAnchor(rec) == /\ entries' = Append(entries, Entry(rec))
                      /\ lastRawLine' = rec.sum

AppendInMemory(rec) ==
    /\ degraded
    /\ ListAndAnchor(rec)
    /\ unsaved' = unsaved \cup {rec.host}
    /\ UNCHANGED <<disk, up, tears, written>>

AppendSucceeds(rec) ==
    /\ ~degraded
    /\ file' = WriteLine(rec, Damaged(rec.id, rec.host, rec.action))
    /\ dangling' = FALSE
    /\ ListAndAnchor(rec)
    /\ written' = written \cup {rec.id}
    /\ UNCHANGED <<up, tears, unsaved>>

\* Nothing, a part, or all but the newline reached the disk.
PartialWrite(rec) ==
    \/ UNCHANGED <<disk, tears>>
    \/ /\ tears < MaxTears /\ tears' = tears + 1
       /\ dangling' = TRUE
       /\ \E line \in {rec, Damaged(rec.id, rec.host, rec.action)} :
             file' = WriteLine(line, Damaged(rec.id, rec.host, rec.action))

\* Variant: the in-memory ledger and the anchor advance before the write.
AppendThrowsLate(rec) ==
    /\ ~degraded
    /\ PartialWrite(rec)
    /\ ListAndAnchor(rec)
    /\ unsaved' = unsaved \cup {rec.host}
    /\ UNCHANGED <<up, written>>

AppendThrows(rec) ==
    /\ ~degraded
    /\ PartialWrite(rec)
    /\ unsaved' = unsaved \cup {rec.host}
    /\ UNCHANGED <<up, entries, lastRawLine, written>>

CrashInAppend(rec) ==
    /\ ~degraded
    /\ PartialWrite(rec)
    /\ up' = FALSE
    /\ UNCHANGED <<entries, lastRawLine, written, unsaved>>

AppendRecord(h, a) ==
    /\ writes < MaxWrites /\ writes' = writes + 1
    /\ LET rec == PolicyRecord(writes + 1, h, a, lastRawLine)
       IN  \/ AppendInMemory(rec) \/ AppendSucceeds(rec)
           \/ AppendThrows(rec) \/ CrashInAppend(rec)
    /\ UNCHANGED <<degraded, corruptLines>>

-----------------------------------------------------------------------------

\* The client aborted the forged handshake.  A host already pinned is a no-op.
LearnPin(h) ==
    /\ up /\ h \notin pinned
    /\ pinned' = pinned \cup {h}
    /\ AppendRecord(h, "pin")
    /\ UNCHANGED <<bypassed, eventDedupe>>

AddBypass(h) ==
    /\ up
    /\ bypassed' = bypassed \cup {h}
    /\ AppendRecord(h, "bypass")
    /\ UNCHANGED <<pinned, eventDedupe>>

Remove(h) ==
    /\ up
    /\ pinned' = pinned \ {h} /\ bypassed' = bypassed \ {h}
    /\ AppendRecord(h, "remove")
    /\ UNCHANGED eventDedupe

\* Variant: the set of events seen grows past its cap.
RecordEventUncapped(h) ==
    /\ up /\ h \notin eventDedupe
    /\ eventDedupe' = eventDedupe \cup {h}
    /\ AppendRecord(h, "proxy_event")
    /\ UNCHANGED <<pinned, bypassed>>

\* The (host, reason) pair is abstracted to the host.
RecordEvent(h) ==
    /\ up /\ h \notin eventDedupe
    /\ eventDedupe' = IF Cardinality(eventDedupe) < EventCap
                      THEN eventDedupe \cup {h} ELSE eventDedupe
    /\ AppendRecord(h, "proxy_event")
    /\ UNCHANGED <<pinned, bypassed>>

\* The process ends between two calls: close() has nothing to flush.
Stop == /\ up /\ up' = FALSE
        /\ UNCHANGED <<disk, degraded, memory, writes, history>>

Decide(h) == LearnPin(h) \/ AddBypass(h) \/ Remove(h) \/ RecordEvent(h)

Next == Open \/ OpenEphemeral \/ Stop \/ \E h \in Hosts : Decide(h)

Spec == Init /\ [][Next]_vars

-----------------------------------------------------------------------------

Lines == [ok : BOOLEAN, id : 1..MaxWrites, host : Hosts, action : Actions,
          prevHash : Nat, sum : Nat]
Entries == [id : 1..MaxWrites, host : Hosts, action : Actions]

TypeOK ==
    /\ file \in Seq(Lines) /\ dangling \in BOOLEAN
    /\ up \in BOOLEAN /\ degraded \in BOOLEAN
    /\ pinned \subseteq Hosts /\ bypassed \subseteq Hosts
    /\ entries \in Seq(Entries)
    /\ lastRawLine \in Nat /\ corruptLines \in Nat
    /\ eventDedupe \subseteq Hosts /\ Cardinality(eventDedupe) <= EventCap
    /\ writes \in 0..MaxWrites /\ tears \in 0..MaxTears
    /\ written \subseteq 1..MaxWrites /\ unsaved \subseteq Hosts

Serving == up /\ ~degraded

\* A decision the store has taken and saved is a decision the next replay
\* takes: as long as no append ever left a partial line, dying at any moment
\* and reopening changes the answer of isPinned and isBypassed for no host,
\* except those a failed append of this session left unsaved.
LedgerFaithful ==
    Serving /\ tears = 0 =>
        \A h \in Hosts \ unsaved :
            /\ h \in pinned <=> h \in Standing(file, "pin")
            /\ h \in bypassed <=> h \in Standing(file, "bypass")

\* list() is the ledger on disk, in order, without the appends that failed.
ListIsLedger ==
    Serving /\ tears = 0 => entries = [i \in DOMAIN file |-> Entry(file[i])]

\* Records whose append returned, and which a replay of the file as it is now
\* would not apply.
Lost == {n \in written :
            ~ \E i \in DOMAIN file : file[i].id = n /\ Accepted(file, i)}

\* The chain finds its footing again: one partial append costs at most the
\* two records after it, however many sessions follow.
DamageBounded == Cardinality(Lost) <= 2 * tears

\* corruptLineCount, as a replay leaves it, never under-reports the records
\* that were saved and are not applied.
OpenReportsLoss ==
    [][~up /\ up' /\ ~degraded' => Cardinality(Lost) <= corruptLines']_vars

\* policyStore.ts:25-27: "The hash chain only advances on a persisted line - a
\* failed append never leaves a dangling prevHash for the next write to trip
\* over."  Then every record whose append returned is replayed.
PersistedIsReplayed == Lost = {}

=============================================================================
