------------------------ MODULE ExtensionRulesProofs ------------------------
(***************************************************************************)
(* TLAPS proofs that the extension never loses its blocklist, that what it *)
(* settles on is what is stored, and that its types hold, for any sites,   *)
(* lines, tiers, number of overlapping handlers and events.                *)
(*                                                                         *)
(* Four places hold a version of the compiled list: the hub, an answer     *)
(* under way, the worker's memory and the browser. The invariant Inv       *)
(* orders them, around workers that are torn down. Places says which       *)
(* process may stand where while the chain and storage are busy, and       *)
(* Repair that whatever is not enforced yet, somebody under way will       *)
(* enforce.                                                                *)
(***************************************************************************)
EXTENDS ExtensionRules, TLAPS

\* What a handler has read is a record of these fields.
IsJob(job) ==
    job = [kind |-> job.kind, arg |-> job.arg, paused |-> job.paused, control |-> job.control,
           tiers |-> job.tiers, lines |-> job.lines, rules |-> job.rules, list |-> job.list]

Shape ==
    /\ pc = [p \in Procs |-> pc[p]] /\ my = [p \in Procs |-> my[p]]
    /\ IsJob(my["chain"]) /\ IsJob(my["sync"])
    /\ browser = [rules |-> browser.rules, tiers |-> browser.tiers]
    /\ mem = [control |-> mem.control, list |-> mem.list,
              tiers |-> mem.tiers, suspended |-> mem.suspended]

\* Neither the browser nor the worker is ahead of the hub, nor the browser ahead of a
\* worker that holds a list.
Ordered ==
    /\ feed \in Nat /\ mem.list \in Nat /\ browser.rules.list \in Nat
    /\ mem.list <= feed /\ browser.rules.list <= feed
    /\ mem.list = None \/ browser.rules.list <= mem.list

\* An answer under way is not behind either of them.
AnswerAhead ==
    \/ pc["sync"] \in {"idle", "fetch", "apply"} /\ my["sync"].list = None
    \/ /\ pc["sync"] = "answered"
       /\ my["sync"].list \in Nat /\ my["sync"].list <= feed
       /\ my["sync"].list # None => /\ mem.list <= my["sync"].list
                                    /\ browser.rules.list <= my["sync"].list

\* What the apply is about to write was read from the browser as it is, and is not
\* behind it unless it is no list at all.
WriteAhead ==
    \/ pc["chain"] \in {"idle", "suspending", "plan"}
    \/ /\ pc["chain"] = "write" /\ my["chain"].rules = browser.rules
       /\ my["chain"].list \in Nat /\ my["chain"].list <= mem.list
       /\ my["chain"].list # None => browser.rules.list <= my["chain"].list

Inv == Shape /\ Ordered /\ AnswerAhead /\ WriteAhead

-----------------------------------------------------------------------------

LEMMA BlankIsJob == IsJob(Blank) /\ Blank.list = None
BY DEF IsJob, Blank, None

LEMMA NamedProcs == {"start", "sync", "chain"} \subseteq Procs
BY DEF Procs

LEMMA Numbers ==
    /\ MaxEvents \in Nat /\ Versions \in Nat /\ Versions >= 1 /\ None \in 0..Versions
    /\ \A n \in Nat : n <= Versions => n \in 0..Versions
BY ExtensionAssumption DEF None

LEMMA InitInv == Init => Inv
<1> SUFFICES ASSUME Init PROVE Inv
  OBVIOUS
<1>1. Shape
  BY BlankIsJob, NamedProcs DEF Init, Shape, FreshMem
<1>2. Ordered
  BY DEF Init, Ordered, FreshMem, None, NoRules
<1>3. AnswerAhead /\ WriteAhead
  BY BlankIsJob, NamedProcs DEF Init, AnswerAhead, WriteAhead
<1> QED
  BY <1>1, <1>2, <1>3 DEF Inv

\* The shape of mem and browser is kept by a change of their fields.
LEMMA MemShape ==
    ASSUME Shape, NEW v
    PROVE  /\ [mem EXCEPT !.control = v] = [control |-> v, list |-> mem.list,
                                            tiers |-> mem.tiers, suspended |-> mem.suspended]
           /\ [mem EXCEPT !.list = v] = [control |-> mem.control, list |-> v,
                                         tiers |-> mem.tiers, suspended |-> mem.suspended]
           /\ [mem EXCEPT !.tiers = v] = [control |-> mem.control, list |-> mem.list,
                                          tiers |-> v, suspended |-> mem.suspended]
           /\ [mem EXCEPT !.suspended = v] = [control |-> mem.control, list |-> mem.list,
                                              tiers |-> mem.tiers, suspended |-> v]
           /\ [browser EXCEPT !.tiers = v] = [rules |-> browser.rules, tiers |-> v]
           /\ [browser EXCEPT !.rules = v] = [rules |-> v, tiers |-> browser.tiers]
BY DEF Shape

\* Memory and the browser may have changed, but not the versions they hold.
Steady ==
    /\ mem' = [control |-> mem'.control, list |-> mem.list,
               tiers |-> mem'.tiers, suspended |-> mem'.suspended]
    /\ browser' = [rules |-> browser.rules, tiers |-> browser'.tiers]

\* A step that moves only what is not about a version: an apply that is not about to
\* write, a sync that holds no answer, any other handler.
LEMMA QuietStep ==
    ASSUME Inv, Steady, UNCHANGED feed,
           pc' = [p \in Procs |-> pc'[p]], my' = [p \in Procs |-> my'[p]],
           \/ pc'["chain"] = pc["chain"] /\ my'["chain"] = my["chain"]
           \/ pc'["chain"] \in {"idle", "suspending", "plan"} /\ IsJob(my'["chain"]),
           \/ pc'["sync"] = pc["sync"] /\ my'["sync"] = my["sync"]
           \/ /\ pc'["sync"] \in {"idle", "fetch", "apply"}
              /\ IsJob(my'["sync"]) /\ my'["sync"].list = None
    PROVE  Inv'
<1>1. mem'.list = mem.list /\ browser'.rules = browser.rules
  BY DEF Steady
<1>2. IsJob(my["chain"])' /\ IsJob(my["sync"])'
  BY DEF Inv, Shape, IsJob
<1>3. Shape'
  BY <1>2 DEF Steady, Shape
<1>4. Ordered'
  BY <1>1 DEF Inv, Ordered
<1>5. AnswerAhead'
  BY <1>1 DEF Inv, AnswerAhead
<1>6. WriteAhead'
  BY <1>1 DEF Inv, WriteAhead
<1> QED
  BY <1>3, <1>4, <1>5, <1>6 DEF Inv

\* ... of a handler of its own.
LEMMA OwnStep ==
    ASSUME Inv, Steady, UNCHANGED feed, NEW p \in Procs \ {"chain", "sync"}, NEW at, NEW job,
           pc' = [pc EXCEPT ![p] = at], my' = my \/ my' = [my EXCEPT ![p] = job]
    PROVE  Inv'
<1>1. /\ pc' = [q \in Procs |-> pc'[q]] /\ my' = [q \in Procs |-> my'[q]]
      /\ \A q \in {"chain", "sync"} : pc'[q] = pc[q] /\ my'[q] = my[q]
  BY NamedProcs DEF Inv, Shape
<1> QED
  BY <1>1, QuietStep

-----------------------------------------------------------------------------

LEMMA SteadyFacts ==
    ASSUME Inv
    PROVE  /\ UNCHANGED <<mem, browser>> => Steady
           /\ \A v : UNCHANGED browser /\ mem' = [mem EXCEPT !.control = v] => Steady
           /\ \A v : UNCHANGED browser /\ mem' = [mem EXCEPT !.tiers = v] => Steady
           /\ \A v : UNCHANGED browser /\ mem' = [mem EXCEPT !.suspended = v] => Steady
           /\ \A v : UNCHANGED mem /\ browser' = [browser EXCEPT !.tiers = v] => Steady
<1>1. UNCHANGED browser => browser' = [rules |-> browser.rules, tiers |-> browser'.tiers]
  BY DEF Inv, Shape
<1>2. UNCHANGED mem => mem' = [control |-> mem'.control, list |-> mem.list,
                               tiers |-> mem'.tiers, suspended |-> mem'.suspended]
  BY DEF Inv, Shape
<1>3. ASSUME NEW v, mem' = [mem EXCEPT !.control = v] \/ mem' = [mem EXCEPT !.tiers = v]
                    \/ mem' = [mem EXCEPT !.suspended = v]
      PROVE  mem' = [control |-> mem'.control, list |-> mem.list,
                     tiers |-> mem'.tiers, suspended |-> mem'.suspended]
  BY <1>3, MemShape DEF Inv
<1>4. ASSUME NEW v, browser' = [browser EXCEPT !.tiers = v]
      PROVE  browser' = [rules |-> browser.rules, tiers |-> browser'.tiers]
  BY <1>4, MemShape DEF Inv
<1> QED
  BY <1>1, <1>2, <1>3, <1>4 DEF Steady

\* Neither the sync nor the chain awaits what a handler of messages does.
LEMMA Apart ==
    ASSUME Inv
    PROVE  /\ pc["chain"] \in {"idle", "suspending", "plan", "write"}
           /\ pc["sync"] \in {"idle", "fetch", "answered", "apply"}
BY DEF Inv, AnswerAhead, WriteAhead

LEMMA HandlerInv ==
    ASSUME Inv, NEW p \in Procs, Handler(p)
    PROVE  Inv'
<1>1. CASE ControlRead(p)
  <2>1. p \notin {"chain", "sync"}
    BY <1>1, Apart DEF ControlRead
  <2>2. Steady
    BY <1>1, SteadyFacts DEF ControlRead, Saves, TakeControl
  <2> QED
    BY <1>1, <2>1, <2>2, OwnStep DEF ControlRead, Goto
<1>2. CASE Saved(p) \/ Persisted(p) \/ SaveLine(p)
  <2>1. p \notin {"chain", "sync"}
    BY <1>2, Apart DEF Saved, Persisted, SaveLine
  <2>2. Steady
    BY <1>2, SteadyFacts DEF Saved, Persisted, SaveLine
  <2>3. CASE Saved(p)
    BY <2>1, <2>2, <2>3, OwnStep DEF Saved, Goto
  <2>4. CASE Persisted(p)
    BY <2>1, <2>2, <2>4, OwnStep DEF Persisted, Done, Goto
  <2>5. CASE SaveLine(p)
    BY <2>1, <2>2, <2>5, OwnStep DEF SaveLine, Goto
  <2> QED
    BY <1>2, <2>3, <2>4, <2>5
<1>3. CASE Suspend(p)
  <2>1. Steady
    BY <1>3, SteadyFacts DEF Suspend
  <2>2. p # "sync"
    BY <1>3, Apart DEF Suspend, AtSuspend
  <2>3. CASE p # "chain"
    BY <1>3, <2>1, <2>2, <2>3, OwnStep DEF Suspend, Goto
  <2>4. CASE p = "chain"
    <3>1. PICK seen : my' = [my EXCEPT ![p].tiers = seen, ![p].paused = mem.control.paused]
      BY <1>3 DEF Suspend
    <3>2. /\ pc' = [q \in Procs |-> pc'[q]] /\ my' = [q \in Procs |-> my'[q]]
          /\ pc'["sync"] = pc["sync"] /\ my'["sync"] = my["sync"]
          /\ pc'["chain"] = "suspending"
      BY <1>3, <2>4, <3>1, NamedProcs DEF Suspend, Goto, Inv, Shape
    <3>3. IsJob(my'["chain"])
      <4> DEFINE job == my["chain"]
      <4>1. my'["chain"] = [job EXCEPT !.tiers = seen, !.paused = mem.control.paused]
        BY <2>4, <3>1, NamedProcs DEF Inv, Shape
      <4>2. IsJob(job)
        BY DEF Inv, Shape
      <4> QED
        BY <4>1, <4>2 DEF IsJob
    <3> QED
      BY <1>3, <2>1, <3>2, <3>3, QuietStep DEF Suspend
  <2> QED
    BY <2>3, <2>4
<1>4. CASE UpdateTiers(p)
  <2>1. Steady
    BY <1>4, SteadyFacts DEF UpdateTiers
  <2>2. p # "sync"
    BY <1>4, Apart DEF UpdateTiers
  <2>3. CASE p # "chain"
    BY <1>4, <2>1, <2>2, <2>3, OwnStep DEF UpdateTiers, Goto
  <2>4. CASE p = "chain"
    <3>0. AfterTiers(p) = "plan"
      BY <2>4 DEF AfterTiers
    <3>1. /\ pc' = [q \in Procs |-> pc'[q]] /\ my' = [q \in Procs |-> my'[q]]
          /\ pc'["sync"] = pc["sync"] /\ my'["sync"] = my["sync"]
          /\ pc'["chain"] = "plan"
          /\ my'["chain"] = [Blank EXCEPT !.kind = my["chain"].kind]
      BY <1>4, <2>4, <3>0, NamedProcs DEF UpdateTiers, Goto, Inv, Shape
    <3>2. IsJob(my'["chain"])
      BY <3>1 DEF IsJob, Blank
    <3> QED
      BY <1>4, <2>1, <3>1, <3>2, QuietStep DEF UpdateTiers
  <2> QED
    BY <2>3, <2>4
<1>5. CASE ReadFamilies(p)
  <2>1. p \notin {"chain", "sync"}
    BY <1>5, Apart DEF ReadFamilies
  <2>2. Steady
    BY <1>5, SteadyFacts DEF ReadFamilies
  <2> QED
    BY <1>5, <2>1, <2>2, OwnStep DEF ReadFamilies, Done, Goto
<1>6. CASE Reconcile(p)
  <2>1. p \notin {"chain", "sync"}
    BY <1>6, Apart DEF Reconcile
  <2>2. Steady
    BY <1>6, SteadyFacts DEF Reconcile
  <2>3. CASE Goto(p, "apply")
    BY <1>6, <2>1, <2>2, <2>3, OwnStep DEF Reconcile, Goto
  <2>4. CASE pc' = [pc EXCEPT ![p] = "idle", !["sync"] =
                      IF ListEmpty(my[p].rules) /\ ~mem.control.paused THEN SyncPc ELSE @]
    <3>1. /\ pc' = [q \in Procs |-> pc'[q]] /\ my' = [q \in Procs |-> my'[q]]
          /\ \A q \in {"chain", "sync"} : my'[q] = my[q]
          /\ pc'["chain"] = pc["chain"] /\ pc'["sync"] \in {pc["sync"], SyncPc}
      BY <1>6, <2>1, <2>4, NamedProcs DEF Reconcile, Inv, Shape
    <3>2. pc'["sync"] = pc["sync"] \/ (pc["sync"] = "idle" /\ pc'["sync"] = "fetch")
      <4>1. SyncPc = pc["sync"] \/ (pc["sync"] = "idle" /\ SyncPc = "fetch")
        BY DEF SyncPc
      <4> QED
        BY <3>1, <4>1
    <3>3. pc["sync"] = "idle" => my["sync"].list = None
      BY DEF Inv, AnswerAhead
    <3> QED
      BY <1>6, <2>2, <3>1, <3>2, <3>3, QuietStep DEF Reconcile, Inv, Shape
  <2> QED
    BY <1>6, <2>3, <2>4 DEF Reconcile
<1> QED
  BY <1>1, <1>2, <1>3, <1>4, <1>5, <1>6 DEF Handler

-----------------------------------------------------------------------------
(* The sync and the chain.                                                  *)

LEMMA AnswerInv ==
    ASSUME Inv, Answer
    PROVE  Inv'
<1>1. /\ pc' = [q \in Procs |-> pc'[q]] /\ my' = [q \in Procs |-> my'[q]]
      /\ pc'["chain"] = pc["chain"] /\ my'["chain"] = my["chain"]
      /\ pc["sync"] = "fetch" /\ pc'["sync"] = "answered"
  BY NamedProcs DEF Answer, Goto, Inv, Shape
<1>2. IsJob(my'["sync"]) /\ my'["sync"].list \in {None, feed}
  <2>1. CASE my' = my
    BY <1>1, <2>1 DEF Inv, Shape, AnswerAhead
  <2>2. CASE my' = [my EXCEPT !["sync"].list = feed]
    <3> DEFINE job == my["sync"]
    <3>1. my'["sync"] = [job EXCEPT !.list = feed]
      BY <2>2, NamedProcs DEF Inv, Shape
    <3>2. IsJob(job)
      BY DEF Inv, Shape
    <3> QED
      BY <3>1, <3>2 DEF IsJob
  <2> QED
    BY <2>1, <2>2 DEF Answer
<1>3. UNCHANGED <<browser, mem, feed>>
  BY DEF Answer
<1>4. Shape'
  BY <1>1, <1>2, <1>3 DEF Inv, Shape, IsJob
<1>5. Ordered'
  BY <1>3 DEF Inv, Ordered
<1>6. AnswerAhead'
  BY <1>1, <1>2, <1>3 DEF Inv, Ordered, AnswerAhead, None
<1>7. WriteAhead'
  BY <1>1, <1>3 DEF Inv, WriteAhead
<1> QED
  BY <1>4, <1>5, <1>6, <1>7 DEF Inv

\* The worker's list only goes forward, and not behind what the browser has.
LEMMA FetchedInv ==
    ASSUME Inv, Fetched
    PROVE  Inv'
<1> DEFINE next == IF my["sync"].list = None THEN mem.list ELSE my["sync"].list
<1>1. mem' = [control |-> mem.control, list |-> next,
              tiers |-> mem.tiers, suspended |-> mem.suspended]
  <2>1. mem' = [mem EXCEPT !.list = next]
    BY DEF Fetched
  <2> HIDE DEF next
  <2> QED
    BY <2>1, MemShape DEF Inv
<1>2. /\ pc' = [q \in Procs |-> pc'[q]] /\ my' = [q \in Procs |-> my'[q]]
      /\ pc'["chain"] = pc["chain"] /\ my'["chain"] = my["chain"]
      /\ pc["sync"] = "answered" /\ pc'["sync"] = "apply" /\ my'["sync"] = Blank
  BY NamedProcs DEF Fetched, Goto, Inv, Shape
<1>3. UNCHANGED <<browser, feed>>
  BY DEF Fetched
<1>4. /\ mem'.list \in Nat /\ mem.list <= mem'.list /\ mem'.list <= feed
      /\ mem'.list = None \/ browser.rules.list <= mem'.list
  BY <1>1, <1>2 DEF Inv, Ordered, AnswerAhead, None
<1>5. Shape'
  BY <1>1, <1>2, <1>3, BlankIsJob DEF Inv, Shape, IsJob
<1>6. Ordered'
  BY <1>3, <1>4 DEF Inv, Ordered
<1>7. AnswerAhead'
  BY <1>2, BlankIsJob DEF AnswerAhead
<1>8. WriteAhead'
  BY <1>2, <1>3, <1>4 DEF Inv, Ordered, WriteAhead
<1> QED
  BY <1>5, <1>6, <1>7, <1>8 DEF Inv

LEMMA PlanInv ==
    ASSUME Inv, PlanRules
    PROVE  Inv'
<1>1. /\ pc' = [q \in Procs |-> pc'[q]] /\ my' = [q \in Procs |-> my'[q]]
      /\ pc'["sync"] = pc["sync"] /\ my'["sync"] = my["sync"]
      /\ pc'["chain"] = "write"
  <2>1. PICK lines :
           my' = [my EXCEPT !["chain"].lines = lines, !["chain"].control = mem.control,
                            !["chain"].list = mem.list, !["chain"].rules = browser.rules]
    BY DEF PlanRules
  <2> QED
    BY <2>1, NamedProcs DEF PlanRules, Goto, Inv, Shape
<1>2. /\ IsJob(my'["chain"])
      /\ my'["chain"].list = mem.list /\ my'["chain"].rules = browser.rules
  <2> DEFINE job == my["chain"]
  <2>1. PICK lines :
           my' = [my EXCEPT !["chain"].lines = lines, !["chain"].control = mem.control,
                            !["chain"].list = mem.list, !["chain"].rules = browser.rules]
    BY DEF PlanRules
  <2>2. my'["chain"] = [job EXCEPT !.lines = lines, !.control = mem.control,
                                   !.list = mem.list, !.rules = browser.rules]
    BY <2>1, NamedProcs DEF Inv, Shape
  <2>3. IsJob(job)
    BY DEF Inv, Shape
  <2> QED
    BY <2>2, <2>3 DEF IsJob
<1>3. UNCHANGED <<browser, mem, feed>>
  BY DEF PlanRules
<1>4. Shape'
  BY <1>1, <1>2, <1>3 DEF Inv, Shape, IsJob
<1>5. Ordered' /\ AnswerAhead'
  BY <1>1, <1>3 DEF Inv, Ordered, AnswerAhead
<1>6. WriteAhead'
  BY <1>1, <1>2, <1>3 DEF Inv, Ordered, WriteAhead
<1> QED
  BY <1>4, <1>5, <1>6 DEF Inv

\* The apply ends: it may have been the sync's.
LEMMA EndApplyShape ==
    ASSUME Inv, EndApply
    PROVE  /\ pc' = [q \in Procs |-> pc'[q]] /\ my' = [q \in Procs |-> my'[q]]
           /\ pc'["chain"] = "idle" /\ my'["chain"] = Blank
           /\ \/ pc'["sync"] = pc["sync"] /\ my'["sync"] = my["sync"]
              \/ pc'["sync"] = "idle" /\ my'["sync"] = Blank
<1>1. /\ pc' = [pc EXCEPT !["chain"] = "idle", ![Head(chain)] = "idle"]
      /\ my' = [my EXCEPT !["chain"] = Blank, ![Head(chain)] = Blank]
  BY DEF EndApply
<1>2. pc = [q \in Procs |-> pc[q]] /\ my = [q \in Procs |-> my[q]]
  BY DEF Inv, Shape
<1> QED
  BY <1>1, <1>2, NamedProcs

\* Outside the pause, what an apply writes is not behind what it replaces.
LEMMA WriteInv ==
    ASSUME Inv, WriteRules
    PROVE  /\ Inv'
           /\ browser'.rules.list < browser.rules.list => my["chain"].control.paused
<1>0. PICK left \in Installed(my["chain"]) : browser' = [browser EXCEPT !.rules = left]
  BY DEF WriteRules
<1>1. browser' = [rules |-> left, tiers |-> browser.tiers]
  BY <1>0, MemShape DEF Inv
<1>2. /\ pc["chain"] = "write" /\ EndApply /\ UNCHANGED <<mem, feed>>
  BY DEF WriteRules, EndApply
<1>3. /\ left.list \in Nat /\ left.list <= feed
      /\ mem.list = None \/ left.list <= mem.list
      /\ left.list = None \/ left.list = browser.rules.list \/ left.list <= mem.list
      /\ my["chain"].control.paused \/ browser.rules.list <= left.list
  <2>1. CASE my["chain"].control.paused
    BY <1>0, <2>1 DEF Installed, NoRules, None, Inv, Ordered
  <2>2. CASE ~my["chain"].control.paused
    <3>1. left.list = IF my["chain"].list = None THEN my["chain"].rules.list
                      ELSE my["chain"].list
      BY <1>0, <2>2 DEF Installed
    <3> QED
      BY <1>2, <3>1 DEF Inv, Ordered, WriteAhead, None
  <2> QED
    BY <2>1, <2>2
<1>4. browser'.rules.list = left.list
  BY <1>1
<1>5. Shape'
  BY <1>1, <1>2, EndApplyShape, BlankIsJob DEF Inv, Shape, IsJob
<1>6. Ordered'
  BY <1>2, <1>3, <1>4 DEF Inv, Ordered
<1>7. AnswerAhead'
  <2>1. CASE pc'["sync"] = "idle" /\ my'["sync"] = Blank
    BY <2>1, BlankIsJob DEF AnswerAhead
  <2>2. CASE pc'["sync"] = pc["sync"] /\ my'["sync"] = my["sync"]
    BY <1>2, <1>3, <1>4, <2>2 DEF Inv, Ordered, AnswerAhead, None
  <2> QED
    BY <1>2, <2>1, <2>2, EndApplyShape
<1>8. WriteAhead'
  BY <1>2, EndApplyShape DEF WriteAhead
<1>9. browser'.rules.list < browser.rules.list => my["chain"].control.paused
  BY <1>3, <1>4 DEF Inv, Ordered
<1> QED
  BY <1>5, <1>6, <1>7, <1>8, <1>9 DEF Inv

-----------------------------------------------------------------------------
(* The other steps.                                                         *)

LEMMA ThrowInv ==
    ASSUME Inv, NEW p \in Procs, CallThrows(p)
    PROVE  Inv'
<1>1. CASE p = "chain"
  <2>1. EndApply /\ UNCHANGED <<mem, browser, feed>>
    BY <1>1 DEF CallThrows, EndApply
  <2>2. Steady
    BY <2>1, SteadyFacts
  <2>3. IsJob(Blank) /\ Blank.list = None
    BY BlankIsJob
  <2>4. \/ pc'["sync"] = pc["sync"] /\ my'["sync"] = my["sync"]
        \/ /\ pc'["sync"] \in {"idle", "fetch", "apply"}
           /\ IsJob(my'["sync"]) /\ my'["sync"].list = None
    BY <2>1, <2>3, EndApplyShape
  <2>5. pc'["chain"] \in {"idle", "suspending", "plan"} /\ IsJob(my'["chain"])
    BY <2>1, <2>3, EndApplyShape
  <2> QED
    BY <2>1, <2>2, <2>4, <2>5, EndApplyShape, QuietStep
<1>2. CASE p # "chain"
  <2>1. p # "sync"
    BY <1>2, Apart DEF CallThrows
  <2>2. Steady
    BY <1>2, SteadyFacts DEF CallThrows
  <2> QED
    BY <1>2, <2>1, <2>2, OwnStep DEF CallThrows, Done, Goto
<1> QED
  BY <1>1, <1>2

LEMMA ReadFailsInv ==
    ASSUME Inv, NEW p \in Procs, ReadFails(p)
    PROVE  Inv'
<1>1. p \notin {"chain", "sync"} /\ UNCHANGED <<browser, feed, mem, pc>>
  BY Apart DEF ReadFails
<1>2. my' = [my EXCEPT ![p] = my'[p]] /\ pc' = [pc EXCEPT ![p] = pc[p]]
  BY DEF ReadFails, Inv, Shape
<1>3. Steady
  BY <1>1, SteadyFacts
<1> QED
  BY <1>1, <1>2, <1>3, OwnStep

LEMMA MessageInv ==
    ASSUME Inv, NEW o \in Slots,
           ReadFirst(o) \/ RemotePause(o) \/ AddLine(o) \/ SwitchTier(o)
    PROVE  Inv'
<1>1. o \in Procs \ {"chain", "sync"} /\ UNCHANGED <<browser, feed>>
  BY ExtensionAssumption DEF Procs, ReadFirst, RemotePause, AddLine, SwitchTier, Receive
<1>2. CASE ReadFirst(o)
  <2>1. PICK op : my' = [my EXCEPT ![o].kind = op.kind, ![o].arg = op.arg,
                                   ![o].control = stored.control]
    BY <1>2 DEF ReadFirst
  <2>2. Steady
    BY <1>1, <1>2, SteadyFacts DEF ReadFirst
  <2>3. my' = [my EXCEPT ![o] = my'[o]]
    BY <1>1, <2>1 DEF Inv, Shape
  <2> QED
    BY <1>1, <1>2, <2>2, <2>3, OwnStep DEF ReadFirst, Goto
<1>3. CASE RemotePause(o)
  <2>1. Steady
    BY <1>1, <1>3, SteadyFacts DEF RemotePause, Saves
  <2> QED
    BY <1>1, <1>3, <2>1, OwnStep DEF RemotePause, Goto
<1>4. CASE AddLine(o)
  <2>1. PICK l : my' = [my EXCEPT ![o].arg = l, ![o].lines = stored.custom]
    BY <1>4 DEF AddLine
  <2>2. Steady
    BY <1>1, <1>4, SteadyFacts DEF AddLine
  <2>3. my' = [my EXCEPT ![o] = my'[o]]
    BY <1>1, <2>1 DEF Inv, Shape
  <2> QED
    BY <1>1, <1>4, <2>2, <2>3, OwnStep DEF AddLine, Goto
<1>5. CASE SwitchTier(o)
  <2>1. PICK next : mem' = [mem EXCEPT !.tiers = next]
    BY <1>5 DEF SwitchTier
  <2>2. Steady
    BY <1>1, <2>1, SteadyFacts
  <2> QED
    BY <1>1, <1>5, <2>2, OwnStep DEF SwitchTier, Goto
<1> QED
  BY <1>2, <1>3, <1>4, <1>5

\* The start block is a handler of its own, and the browser asks nothing of the others.
LEMMA StartInv ==
    ASSUME Inv, Wake \/ Booted
    PROVE  Inv'
<1>1. "start" \in Procs \ {"chain", "sync"}
  BY NamedProcs
<1>2. CASE Wake
  <2>1. Steady
    BY <1>2, SteadyFacts DEF Wake
  <2> QED
    BY <1>1, <1>2, <2>1, OwnStep DEF Wake, Goto
<1>3. CASE Booted
  <2>1. Steady
    BY <1>3, MemShape DEF Booted, Steady, Inv, Shape
  <2> QED
    BY <1>1, <1>3, <2>1, OwnStep DEF Booted, Goto
<1> QED
  BY <1>2, <1>3

LEMMA SyncDueInv ==
    ASSUME Inv, Alarm \/ RulesUpdated
    PROVE  Inv'
<1>1. UNCHANGED <<mem, browser, feed, my>>
  BY DEF Alarm, RulesUpdated
<1>2. Steady
  BY <1>1, SteadyFacts
<1>3. SyncPc = pc["sync"] \/ (pc["sync"] = "idle" /\ SyncPc = "fetch")
  BY DEF SyncPc
<1>4. /\ pc' = [q \in Procs |-> pc'[q]] /\ pc'["chain"] = pc["chain"]
      /\ pc'["sync"] = pc["sync"] \/ (pc["sync"] = "idle" /\ pc'["sync"] = "fetch")
  BY <1>3, NamedProcs DEF Alarm, RulesUpdated, Goto, Inv, Shape
<1>5. my' = [q \in Procs |-> my'[q]] /\ \A q \in Procs : my'[q] = my[q]
  BY <1>1 DEF Inv, Shape
<1>6. pc["sync"] = "idle" => IsJob(my["sync"]) /\ my["sync"].list = None
  BY DEF Inv, Shape, AnswerAhead
<1> QED
  BY <1>1, <1>2, <1>4, <1>5, <1>6, NamedProcs, QuietStep

LEMMA PublishInv ==
    ASSUME Inv, Publish
    PROVE  Inv'
<1>1. UNCHANGED <<browser, mem, pc, my>> /\ feed' \in Nat /\ feed' > feed
  BY Numbers DEF Publish, Inv, Ordered
<1>2. Shape' /\ WriteAhead'
  BY <1>1 DEF Inv, Shape, IsJob, WriteAhead
<1>3. Ordered' /\ AnswerAhead'
  BY <1>1 DEF Inv, Ordered, AnswerAhead
<1> QED
  BY <1>2, <1>3 DEF Inv

\* A worker that is gone holds no list.
LEMMA TearDownInv ==
    ASSUME Inv, TearDown
    PROVE  Inv'
<1>1. UNCHANGED <<browser, feed>> /\ mem' = FreshMem
  BY DEF TearDown
<1>2. /\ pc' = [q \in Procs |-> "idle"] /\ my' = [q \in Procs |-> Blank]
      /\ pc'["chain"] = "idle" /\ pc'["sync"] = "idle"
      /\ my'["chain"] = Blank /\ my'["sync"] = Blank
  BY NamedProcs DEF TearDown
<1>3. Shape'
  BY <1>1, <1>2, BlankIsJob DEF Inv, Shape, FreshMem, IsJob
<1>4. Ordered'
  BY <1>1 DEF Inv, Ordered, FreshMem, None
<1>5. AnswerAhead' /\ WriteAhead'
  BY <1>2, BlankIsJob DEF AnswerAhead, WriteAhead
<1> QED
  BY <1>3, <1>4, <1>5 DEF Inv

-----------------------------------------------------------------------------

LEMMA NextInv ==
    ASSUME Inv, [Next]_vars
    PROVE  Inv'
<1>1. CASE \E p \in Procs : Handler(p) \/ ReadFails(p) \/ CallThrows(p)
  BY <1>1, HandlerInv, ReadFailsInv, ThrowInv
<1>2. CASE \E o \in Slots : ReadFirst(o) \/ RemotePause(o) \/ AddLine(o) \/ SwitchTier(o)
  BY <1>2, MessageInv
<1>3. CASE Worker
  BY <1>3, StartInv, PlanInv, WriteInv, AnswerInv, FetchedInv, SyncDueInv DEF Worker
<1>4. CASE Wake \/ Alarm \/ Publish
  BY <1>4, StartInv, SyncDueInv, PublishInv
<1>5. CASE IdleTearDown \/ Kill
  BY <1>5, TearDownInv DEF IdleTearDown, Kill
<1>6. CASE UNCHANGED vars
  <2>1. UNCHANGED <<browser, mem, pc, my, feed>>
    BY <1>6 DEF vars
  <2> QED
    BY <2>1 DEF Inv, Shape, IsJob, Ordered, AnswerAhead, WriteAhead
<1> QED
  BY <1>1, <1>2, <1>3, <1>4, <1>5, <1>6 DEF Next

\* Only the write of an apply changes the rules the browser holds.
LEMMA OnlyWrites ==
    ASSUME Inv, [Next]_vars
    PROVE  browser'.rules = browser.rules \/ WriteRules
<1>1. ASSUME Steady PROVE browser'.rules = browser.rules
  BY <1>1 DEF Steady
<1>2. CASE \E p \in Procs : UpdateTiers(p)
  BY <1>1, <1>2, SteadyFacts DEF UpdateTiers
<1>3. CASE ~\E p \in Procs : UpdateTiers(p)
  <2>1. ASSUME NEW p \in Procs, Handler(p) PROVE UNCHANGED browser
    BY <1>3, <2>1 DEF Handler, ControlRead, Saved, Suspend, Persisted, ReadFamilies,
                      Reconcile, SaveLine
  <2>2. ASSUME NEW p \in Procs, ReadFails(p) \/ CallThrows(p) PROVE UNCHANGED browser
    BY <2>2 DEF ReadFails, CallThrows
  <2>3. ASSUME NEW o \in Slots,
               ReadFirst(o) \/ RemotePause(o) \/ AddLine(o) \/ SwitchTier(o)
        PROVE  UNCHANGED browser
    BY <2>3 DEF ReadFirst, RemotePause, AddLine, SwitchTier, Receive
  <2>4. ASSUME Worker PROVE UNCHANGED browser \/ WriteRules
    BY <2>4 DEF Worker, Booted, PlanRules, Answer, Fetched, RulesUpdated
  <2>5. ASSUME Wake \/ Alarm \/ Publish \/ IdleTearDown \/ Kill \/ UNCHANGED vars
        PROVE  UNCHANGED browser
    BY <2>5 DEF Wake, Alarm, Publish, IdleTearDown, Kill, TearDown, vars
  <2> QED
    BY <2>1, <2>2, <2>3, <2>4, <2>5 DEF Next
<1> QED
  BY <1>2, <1>3

\* Whatever is torn down, throws, answers late or overtakes: outside the global pause no
\* apply takes the compiled list out of the browser, nor puts an older one there
\* (updateDynamicRules with and without a fetched list).
THEOREM ListIsKept == Spec => ListKept
<1>1. ASSUME Inv, [Next]_vars
      PROVE  [browser'.rules.list < browser.rules.list => my["chain"].control.paused]_vars
  <2>1. CASE WriteRules
    BY <1>1, <2>1, WriteInv
  <2>2. CASE browser'.rules = browser.rules
    <3>1. browser.rules.list \in Nat
      BY <1>1 DEF Inv, Ordered
    <3> QED
      BY <2>2, <3>1
  <2> QED
    BY <1>1, <2>1, <2>2, OnlyWrites
<1> QED
  BY <1>1, InitInv, NextInv, PTL DEF Spec, ListKept

-----------------------------------------------------------------------------
(* Types.                                                                   *)

Pcs == {"idle", "boot", "reading", "lines", "saving", "persisting", "tierDiff", "suspend",
        "suspending", "families", "decide", "apply", "plan", "write", "fetch", "answered"}

\* What a handler reads the site control for.
Readers == Decisions \cup {"start", "tierRepair", "repair", "view"}

Jobs == [kind : Readers \cup {"none"}, arg : Sites \cup Lines \cup {None}, paused : BOOLEAN,
         control : Control, tiers : SUBSET (Tiers \cup {Unread}), lines : SUBSET Lines,
         rules : Dynamic, list : 0..Versions]

Stores == [control : Control, custom : SUBSET Lines, tiers : SUBSET Tiers]
Browsers == [rules : Dynamic, tiers : SUBSET Tiers]
Memories == [control : Control, list : 0..Versions, tiers : SUBSET Tiers,
             suspended : BOOLEAN]

WorldTyped ==
    /\ stored \in Stores /\ browser \in Browsers /\ mem \in Memories
    /\ news \in BOOLEAN /\ up \in BOOLEAN /\ marred \in BOOLEAN
    /\ events \in Nat /\ events <= MaxEvents /\ feed \in Nat /\ feed >= 1 /\ feed <= Versions

\* A handler that reads the control has its reason, one that reads the lines its line.
WorkTyped ==
    /\ pc \in [Procs -> Pcs] /\ my \in [Procs -> Jobs]
    /\ \A p \in Procs : pc[p] = "reading" => /\ my[p].kind \in Readers
                                             /\ my[p].kind = "site" => my[p].arg \in Sites
    /\ \A p \in Procs : pc[p] = "lines" => my[p].arg \in Lines
    /\ \A p \in Procs : pc[p] = "boot" => my[p].tiers \subseteq Tiers

LEMMA BlankTyped ==
    /\ EmptyControl \in Control /\ NoRules \in Dynamic /\ Blank \in Jobs
    /\ \A k \in Readers \cup {"none"} : [Blank EXCEPT !.kind = k] \in Jobs
<1>1. EmptyControl \in Control
  BY DEF EmptyControl, Control
<1>2. NoRules \in Dynamic
  BY Numbers DEF NoRules, Dynamic
<1>3. Blank \in Jobs
  BY <1>1, <1>2, Numbers DEF Blank, Jobs
<1>4. \A k \in Readers \cup {"none"} : [Blank EXCEPT !.kind = k] \in Jobs
  BY <1>3 DEF Jobs
<1> QED
  BY <1>1, <1>2, <1>3, <1>4

LEMMA DecidedTyped ==
    ASSUME NEW c \in Control, NEW op, op.kind = "site" => op.arg \in Sites
    PROVE  Decided(c, op) \in Control
<1>1. CASE op.kind = "site"
  <2>1. PICK s : s = IF op.arg \in c.sites THEN c.sites \ {op.arg} ELSE c.sites \cup {op.arg}
    OBVIOUS
  <2>2. s \subseteq Sites
    BY <1>1, <2>1 DEF Control
  <2>3. Decided(c, op) = [c EXCEPT !.sites = s]
    BY <1>1, <2>1 DEF Decided
  <2> QED
    BY <2>2, <2>3 DEF Control
<1>2. CASE op.kind # "site"
  <2>1. PICK b \in BOOLEAN : b = (op.kind = "pause")
    OBVIOUS
  <2>2. Decided(c, op) = [c EXCEPT !.paused = b]
    BY <1>2, <2>1 DEF Decided
  <2> QED
    BY <2>2 DEF Control
<1> QED
  BY <1>1, <1>2

\* One process moves on with what it has read.
LEMMA WorkMoves ==
    ASSUME WorkTyped, NEW p \in Procs, NEW at \in Pcs, NEW job \in Jobs,
           pc' = [pc EXCEPT ![p] = at], my' = [my EXCEPT ![p] = job],
           at = "reading" => job.kind \in Readers /\ (job.kind = "site" => job.arg \in Sites),
           at = "lines" => job.arg \in Lines, at = "boot" => job.tiers \subseteq Tiers
    PROVE  WorkTyped'
<1>1. pc' \in [Procs -> Pcs] /\ my' \in [Procs -> Jobs]
  BY DEF WorkTyped
<1>2. pc'[p] = at /\ my'[p] = job /\ \A q \in Procs \ {p} : pc'[q] = pc[q] /\ my'[q] = my[q]
  BY DEF WorkTyped
<1> QED
  BY <1>1, <1>2 DEF WorkTyped

\* ... with what it had.
LEMMA WorkGoes ==
    ASSUME WorkTyped, NEW p \in Procs, NEW at \in Pcs \ {"boot", "reading", "lines"},
           pc' = [pc EXCEPT ![p] = at], my' = my
    PROVE  WorkTyped'
BY DEF WorkTyped

LEMMA WorkStays ==
    ASSUME WorkTyped, UNCHANGED <<pc, my>>
    PROVE  WorkTyped'
BY DEF WorkTyped

\* A failed read leaves the handler where it is, with what it wants.
LEMMA FailedRead ==
    ASSUME WorkTyped, NEW p \in Procs, ReadFails(p)
    PROVE  \E job \in Jobs :
              /\ pc' = [pc EXCEPT ![p] = pc[p]] /\ my' = [my EXCEPT ![p] = job]
              /\ job.kind = my[p].kind /\ job.arg = my[p].arg
              /\ pc[p] = "boot" => job.tiers \subseteq Tiers
<1>1. my[p] \in Jobs /\ EmptyControl \in Control /\ DefaultTiers \subseteq Tiers
  BY BlankTyped, ExtensionAssumption DEF WorkTyped
<1>2. pc' = [pc EXCEPT ![p] = pc[p]]
  BY DEF ReadFails, WorkTyped
<1>3. CASE pc[p] = "reading"
  <2> DEFINE job == [my[p] EXCEPT !.control = EmptyControl]
  <2>1. job \in Jobs /\ job.kind = my[p].kind /\ job.arg = my[p].arg
    BY <1>1 DEF Jobs
  <2>2. my' = [my EXCEPT ![p] = job]
    BY <1>3 DEF ReadFails, WorkTyped
  <2> HIDE DEF job
  <2> QED
    BY <1>2, <1>3, <2>1, <2>2
<1>4. CASE pc[p] = "lines"
  <2> DEFINE job == [my[p] EXCEPT !.lines = {}]
  <2>1. job \in Jobs /\ job.kind = my[p].kind /\ job.arg = my[p].arg
    BY <1>1 DEF Jobs
  <2>2. my' = [my EXCEPT ![p] = job]
    BY <1>4 DEF ReadFails, WorkTyped
  <2> HIDE DEF job
  <2> QED
    BY <1>2, <1>4, <2>1, <2>2
<1>5. CASE pc[p] = "boot"
  <2> DEFINE job == [my[p] EXCEPT !.control = EmptyControl, !.tiers = DefaultTiers]
  <2>1. job \in Jobs /\ job.kind = my[p].kind /\ job.arg = my[p].arg /\ job.tiers \subseteq Tiers
    BY <1>1 DEF Jobs
  <2>2. my' = [my EXCEPT ![p] = job]
    BY <1>5 DEF ReadFails, WorkTyped
  <2> HIDE DEF job
  <2> QED
    BY <1>2, <2>1, <2>2
<1> QED
  BY <1>3, <1>4, <1>5 DEF ReadFails

LEMMA FailedReadWork ==
    ASSUME WorkTyped, NEW p \in Procs, ReadFails(p)
    PROVE  WorkTyped'
<1>1. PICK job \in Jobs :
         /\ pc' = [pc EXCEPT ![p] = pc[p]] /\ my' = [my EXCEPT ![p] = job]
         /\ job.kind = my[p].kind /\ job.arg = my[p].arg
         /\ pc[p] = "boot" => job.tiers \subseteq Tiers
  BY FailedRead
<1> QED
  BY <1>1, WorkMoves DEF WorkTyped

-----------------------------------------------------------------------------
(* Types of the work.                                                       *)

LEMMA HandlerWork ==
    ASSUME Inv, WorldTyped, WorkTyped, NEW p \in Procs, Handler(p)
    PROVE  WorkTyped'
<1>1. /\ my[p] \in Jobs /\ Blank \in Jobs /\ pc[p] \in Pcs
      /\ \A k \in Readers \cup {"none"} : [Blank EXCEPT !.kind = k] \in Jobs
  BY BlankTyped DEF WorkTyped
<1>2. my[p].kind \in Readers \cup {"none"}
  BY <1>1 DEF Jobs
<1>3. CASE ControlRead(p)
  <2>1. my[p].kind \in Readers
    BY <1>3 DEF ControlRead, WorkTyped
  <2>2. PICK at : /\ pc' = [pc EXCEPT ![p] = at]
                  /\ at = IF my[p].kind \in Decisions THEN "saving" ELSE AfterRead(my[p].kind)
    BY <1>3 DEF ControlRead, Goto
  <2>3. at \in Pcs \ {"boot", "reading", "lines"}
    BY <2>1, <2>2 DEF AfterRead, Readers, Pcs
  <2>4. PICK job \in Jobs : my' = [my EXCEPT ![p] = job]
    BY <1>1, <1>2, <1>3 DEF ControlRead
  <2> QED
    BY <2>2, <2>3, <2>4, WorkMoves
<1>4. CASE Saved(p)
  BY <1>4, WorkGoes DEF Saved, Goto, Pcs
<1>5. CASE Suspend(p)
  <2>1. PICK seen : /\ seen \in {browser.tiers, {Unread}}
                    /\ my' = [my EXCEPT ![p].tiers = seen, ![p].paused = mem.control.paused]
    BY <1>5 DEF Suspend
  <2>2. seen \subseteq Tiers \cup {Unread} /\ mem.control.paused \in BOOLEAN
    BY <2>1 DEF WorldTyped, Stores, Browsers, Memories, Control
  <2> DEFINE job == [my[p] EXCEPT !.tiers = seen, !.paused = mem.control.paused]
  <2>3. job \in Jobs
    BY <1>1, <2>2 DEF Jobs
  <2>4. my' = [my EXCEPT ![p] = job]
    BY <2>1 DEF WorkTyped
  <2> HIDE DEF job
  <2>5. pc' = [pc EXCEPT ![p] = "suspending"] /\ "suspending" \in Pcs
    BY <1>5 DEF Suspend, Goto, Pcs
  <2> QED
    BY <2>3, <2>4, <2>5, WorkMoves
<1>6. CASE UpdateTiers(p)
  <2>1. PICK at : pc' = [pc EXCEPT ![p] = at] /\ at = AfterTiers(p)
    BY <1>6 DEF UpdateTiers, Goto
  <2>2. at \in Pcs \ {"boot", "reading", "lines"}
    BY <2>1 DEF AfterTiers, Pcs
  <2>3. PICK job \in Jobs : my' = [my EXCEPT ![p] = job]
    BY <1>1, <1>2, <1>6 DEF UpdateTiers
  <2> QED
    BY <2>1, <2>2, <2>3, WorkMoves
<1>7. CASE Persisted(p)
  <2>1. CASE Done(p)
    BY <1>1, <2>1, WorkMoves DEF Done, Goto, Pcs
  <2>2. CASE Goto(p, "tierDiff") /\ my' = [my EXCEPT ![p].tiers = browser.tiers]
    <3> DEFINE job == [my[p] EXCEPT !.tiers = browser.tiers]
    <3>1. browser.tiers \subseteq Tiers \cup {Unread}
      BY DEF WorldTyped, Stores, Browsers, Memories
    <3>2. job \in Jobs
      BY <1>1, <3>1 DEF Jobs
    <3>3. my' = [my EXCEPT ![p] = job]
      BY <2>2 DEF WorkTyped
    <3> HIDE DEF job
    <3> QED
      BY <2>2, <3>2, <3>3, WorkMoves DEF Goto, Pcs
  <2> QED
    BY <1>7, <2>1, <2>2 DEF Persisted
<1>8. CASE ReadFamilies(p)
  <2>1. CASE Goto(p, "decide") /\ my' = [my EXCEPT ![p].rules = browser.rules]
    <3> DEFINE job == [my[p] EXCEPT !.rules = browser.rules]
    <3>1. browser.rules \in Dynamic
      BY DEF WorldTyped, Stores, Browsers, Memories
    <3>2. job \in Jobs
      BY <1>1, <3>1 DEF Jobs
    <3>3. my' = [my EXCEPT ![p] = job]
      BY <2>1 DEF WorkTyped
    <3> HIDE DEF job
    <3> QED
      BY <2>1, <3>2, <3>3, WorkMoves DEF Goto, Pcs
  <2>2. CASE Done(p)
    BY <1>1, <2>2, WorkMoves DEF Done, Goto, Pcs
  <2> QED
    BY <1>8, <2>1, <2>2 DEF ReadFamilies
<1>9. CASE Reconcile(p)
  <2>1. p \notin {"chain", "sync"} /\ pc[p] = "decide"
    BY <1>9, Apart DEF Reconcile
  <2>2. my' = [my EXCEPT ![p] = Blank]
    BY <1>9 DEF Reconcile
  <2>3. CASE Goto(p, "apply")
    BY <1>1, <2>2, <2>3, WorkMoves DEF Goto, Pcs
  <2>4. CASE pc' = [pc EXCEPT ![p] = "idle", !["sync"] =
                      IF ListEmpty(my[p].rules) /\ ~mem.control.paused THEN SyncPc ELSE @]
    <3>1. /\ pc'[p] = "idle" /\ pc'["sync"] \in {pc["sync"], "fetch"}
          /\ \A q \in Procs \ {p, "sync"} : pc'[q] = pc[q]
          /\ pc' = [q \in Procs |-> pc'[q]]
      BY <2>1, <2>4, NamedProcs DEF SyncPc, WorkTyped
    <3>2. pc["sync"] \notin {"boot", "reading", "lines"}
      BY Apart
    <3>3. {"idle", "fetch"} \subseteq Pcs
      BY DEF Pcs
    <3>4. pc' \in [Procs -> Pcs]
      BY <3>1, <3>3, NamedProcs DEF WorkTyped
    <3>5. my' \in [Procs -> Jobs] /\ \A q \in Procs \ {p} : my'[q] = my[q]
      BY <1>1, <2>2 DEF WorkTyped
    <3> QED
      BY <2>1, <3>1, <3>2, <3>4, <3>5 DEF WorkTyped
  <2> QED
    BY <1>9, <2>3, <2>4 DEF Reconcile
<1>10. CASE SaveLine(p)
  <2>1. \E at \in {"idle", "saving"} : pc' = [pc EXCEPT ![p] = at]
    BY <1>10 DEF SaveLine, Goto
  <2>2. my' = [my EXCEPT ![p] = Blank]
    BY <1>10 DEF SaveLine
  <2> QED
    BY <1>1, <2>1, <2>2, WorkMoves DEF Pcs
<1> QED
  BY <1>3, <1>4, <1>5, <1>6, <1>7, <1>8, <1>9, <1>10 DEF Handler

LEMMA EndApplyWork ==
    ASSUME WorkTyped, EndApply, NEW own, own = Head(chain), own \in Procs
    PROVE  WorkTyped'
<1>1. /\ pc' = [pc EXCEPT !["chain"] = "idle", ![own] = "idle"]
      /\ my' = [my EXCEPT !["chain"] = Blank, ![own] = Blank]
  BY DEF EndApply
<1>2. /\ pc' = [q \in Procs |-> IF q \in {"chain", own} THEN "idle" ELSE pc[q]]
      /\ my' = [q \in Procs |-> IF q \in {"chain", own} THEN Blank ELSE my[q]]
  BY <1>1, NamedProcs DEF WorkTyped
<1>3. "idle" \in Pcs /\ Blank \in Jobs
  BY BlankTyped DEF Pcs
<1>4. pc' \in [Procs -> Pcs] /\ my' \in [Procs -> Jobs]
  BY <1>2, <1>3 DEF WorkTyped
<1>5. ASSUME NEW q \in Procs
      PROVE  pc'[q] = "idle" \/ (pc'[q] = pc[q] /\ my'[q] = my[q])
  BY <1>2
<1> QED
  BY <1>4, <1>5 DEF WorkTyped

LEMMA WorkerWork ==
    ASSUME Inv, WorldTyped, WorkTyped, Booted \/ PlanRules \/ Answer \/ Fetched \/ RulesUpdated
    PROVE  WorkTyped'
<1>1. /\ \A p \in Procs : my[p] \in Jobs
      /\ Blank \in Jobs
      /\ {"start", "sync", "chain"} \subseteq Procs
      /\ stored.control \in Control /\ stored.custom \subseteq Lines
      /\ mem.control \in Control /\ mem.list \in 0..Versions /\ browser.rules \in Dynamic
  BY BlankTyped, NamedProcs DEF WorkTyped, WorldTyped, Stores, Browsers, Memories
<1>2. CASE Booted
  <2> DEFINE job == [Blank EXCEPT !.kind = "start", !.control = stored.control]
  <2>1. job \in Jobs /\ job.kind = "start"
    BY <1>1 DEF Jobs, Readers
  <2>2. my' = [my EXCEPT !["start"] = job] /\ pc' = [pc EXCEPT !["start"] = "reading"]
    BY <1>2 DEF Booted, Goto
  <2> HIDE DEF job
  <2> QED
    BY <1>1, <2>1, <2>2, WorkMoves DEF Pcs, Readers
<1>3. CASE PlanRules
  <2>0. PICK lines \in {stored.custom, {}} :
           my' = [my EXCEPT !["chain"].lines = lines, !["chain"].control = mem.control,
                            !["chain"].list = mem.list, !["chain"].rules = browser.rules]
    BY <1>3 DEF PlanRules
  <2> DEFINE job == [my["chain"] EXCEPT !.lines = lines, !.control = mem.control,
                                        !.list = mem.list, !.rules = browser.rules]
  <2>1. job \in Jobs
    BY <1>1 DEF Jobs
  <2>2. my' = [my EXCEPT !["chain"] = job]
    BY <1>1, <2>0 DEF WorkTyped
  <2> HIDE DEF job
  <2>3. pc' = [pc EXCEPT !["chain"] = "write"]
    BY <1>3 DEF PlanRules, Goto
  <2> QED
    BY <1>1, <2>1, <2>2, <2>3, WorkMoves DEF Pcs
<1>4. CASE Answer
  <2>1. pc' = [pc EXCEPT !["sync"] = "answered"]
    BY <1>4 DEF Answer, Goto
  <2>2. CASE my' = my
    BY <1>1, <2>1, <2>2, WorkGoes DEF Pcs
  <2>3. CASE my' = [my EXCEPT !["sync"].list = feed]
    <3> DEFINE job == [my["sync"] EXCEPT !.list = feed]
    <3>1. feed \in 0..Versions
      BY Numbers DEF WorldTyped
    <3>2. job \in Jobs
      BY <1>1, <3>1 DEF Jobs
    <3>3. my' = [my EXCEPT !["sync"] = job]
      BY <1>1, <2>3 DEF WorkTyped
    <3> HIDE DEF job
    <3> QED
      BY <1>1, <2>1, <3>2, <3>3, WorkMoves DEF Pcs
  <2> QED
    BY <1>4, <2>2, <2>3 DEF Answer
<1>5. CASE Fetched
  BY <1>1, <1>5, WorkMoves DEF Fetched, Goto, Pcs
<1>6. CASE RulesUpdated
  <2>1. SyncPc \in Pcs \ {"boot", "reading", "lines"}
    BY <1>1, Apart DEF SyncPc, Pcs
  <2> QED
    BY <1>1, <1>6, <2>1, WorkGoes DEF RulesUpdated, Goto
<1> QED
  BY <1>2, <1>3, <1>4, <1>5, <1>6

LEMMA MessageWork ==
    ASSUME WorldTyped, WorkTyped, NEW o \in Slots,
           ReadFirst(o) \/ RemotePause(o) \/ AddLine(o) \/ SwitchTier(o)
    PROVE  WorkTyped'
<1>1. o \in Procs /\ my[o] \in Jobs /\ stored.control \in Control /\ stored.custom \subseteq Lines
  BY DEF Procs, WorkTyped, WorldTyped, Stores, Browsers, Memories
<1>2. CASE ReadFirst(o)
  <2>1. PICK op \in [kind : {"site"}, arg : Sites] \cup
                    [kind : {PauseButton, "tierRepair", "repair", "view"}, arg : {None}] :
            my' = [my EXCEPT ![o].kind = op.kind, ![o].arg = op.arg,
                             ![o].control = stored.control]
    BY <1>2 DEF ReadFirst
  <2>2. PauseButton \in {"pause", "resume"}
    BY DEF PauseButton
  <2>3. /\ op.kind \in Readers /\ op.arg \in Sites \cup Lines \cup {None}
        /\ op.kind = "site" => op.arg \in Sites
    BY <2>1, <2>2 DEF Readers, Decisions
  <2> DEFINE job == [my[o] EXCEPT !.kind = op.kind, !.arg = op.arg, !.control = stored.control]
  <2>4. job \in Jobs /\ job.kind = op.kind /\ job.arg = op.arg
    BY <1>1, <2>3 DEF Jobs
  <2>5. my' = [my EXCEPT ![o] = job]
    BY <1>1, <2>1 DEF WorkTyped
  <2> HIDE DEF job
  <2>6. pc' = [pc EXCEPT ![o] = "reading"]
    BY <1>2 DEF ReadFirst, Goto
  <2> QED
    BY <1>1, <2>3, <2>4, <2>5, <2>6, WorkMoves DEF Pcs
<1>3. CASE RemotePause(o)
  BY <1>1, <1>3, WorkGoes DEF RemotePause, Goto, Pcs
<1>4. CASE AddLine(o)
  <2>1. PICK l \in Lines : my' = [my EXCEPT ![o].arg = l, ![o].lines = stored.custom]
    BY <1>4 DEF AddLine
  <2> DEFINE job == [my[o] EXCEPT !.arg = l, !.lines = stored.custom]
  <2>2. job \in Jobs /\ job.arg = l
    BY <1>1, <2>1 DEF Jobs
  <2>3. my' = [my EXCEPT ![o] = job]
    BY <1>1, <2>1 DEF WorkTyped
  <2> HIDE DEF job
  <2>4. pc' = [pc EXCEPT ![o] = "lines"]
    BY <1>4 DEF AddLine, Goto
  <2> QED
    BY <1>1, <2>1, <2>2, <2>3, <2>4, WorkMoves DEF Pcs
<1>5. CASE SwitchTier(o)
  BY <1>1, <1>5, WorkGoes DEF SwitchTier, Goto, Pcs
<1> QED
  BY <1>2, <1>3, <1>4, <1>5

LEMMA WakeWork ==
    ASSUME WorldTyped, WorkTyped, Wake
    PROVE  WorkTyped'
<1>1. "start" \in Procs /\ my["start"] \in Jobs /\ stored.control \in Control
      /\ stored.tiers \subseteq Tiers
  BY NamedProcs DEF WorkTyped, WorldTyped, Stores, Browsers, Memories
<1> DEFINE job == [my["start"] EXCEPT !.control = stored.control, !.tiers = stored.tiers]
<1>2. job \in Jobs /\ job.tiers \subseteq Tiers
  BY <1>1 DEF Jobs
<1>3. my' = [my EXCEPT !["start"] = job] /\ pc' = [pc EXCEPT !["start"] = "boot"]
  BY <1>1 DEF Wake, Goto, WorkTyped
<1> HIDE DEF job
<1> QED
  BY <1>1, <1>2, <1>3, WorkMoves DEF Pcs

LEMMA TearDownWork ==
    ASSUME TearDown
    PROVE  WorkTyped'
<1>1. pc' = [p \in Procs |-> "idle"] /\ my' = [p \in Procs |-> Blank]
  BY DEF TearDown
<1>2. "idle" \in Pcs /\ Blank \in Jobs
  BY BlankTyped DEF Pcs
<1> QED
  BY <1>1, <1>2 DEF WorkTyped

-----------------------------------------------------------------------------
(* Types of what is stored, installed and remembered.                       *)

\* A step counts its events, and a mark may only be set, but by a new worker.
LEMMA EventTyped ==
    ASSUME WorldTyped, UNCHANGED feed,
           \/ NoFault \/ Fault
           \/ (UNCHANGED events \/ \E n \in Nat : Events(n)) /\ marred' \in BOOLEAN
    PROVE  /\ events' \in Nat /\ events' <= MaxEvents /\ marred' \in BOOLEAN
           /\ feed' \in Nat /\ feed' >= 1 /\ feed' <= Versions
<1>1. /\ events \in Nat /\ events <= MaxEvents /\ MaxEvents \in Nat
      /\ feed \in Nat /\ feed >= 1 /\ feed <= Versions /\ marred \in BOOLEAN
  BY Numbers DEF WorldTyped
<1>2. marred' \in BOOLEAN
  BY <1>1 DEF NoFault, Fault
<1>3. events' = events \/ \E n \in Nat : events + n <= MaxEvents /\ events' = events + n
  BY DEF NoFault, Fault, Event, Events
<1> QED
  BY <1>1, <1>2, <1>3

\* A write is made, or marks the worker.
LEMMA StoreFacts ==
    ASSUME WorldTyped, NEW next, NEW n \in Nat, Store(next, n)
    PROVE  /\ stored' \in {next, stored} /\ \E m \in Nat : Events(m)
           /\ marred' \in BOOLEAN /\ (marred => marred')
           /\ marred' \/ (stored' = next /\ UNCHANGED marred)
<1>1. n + 1 \in Nat /\ marred \in BOOLEAN
  BY DEF WorldTyped
<1>2. CASE stored' = next /\ Events(n) /\ UNCHANGED marred
  BY <1>1, <1>2
<1>3. CASE UNCHANGED stored /\ Events(n + 1) /\ marred' = TRUE
  BY <1>1, <1>3
<1> QED
  BY <1>2, <1>3 DEF Store

\* ... of one field, and leaves the others.
LEMMA StoreFields ==
    ASSUME WorldTyped, NEW n \in Nat, NEW v
    PROVE  /\ Store([stored EXCEPT !.control = v], n) =>
                 (marred' \/ stored'.control = v) /\ (marred => marred')
           /\ Store([stored EXCEPT !.tiers = v], n) =>
                 /\ stored'.control = stored.control /\ stored'.custom = stored.custom
                 /\ (marred => marred')
           /\ Store([stored EXCEPT !.custom = v], n) =>
                 stored'.control = stored.control /\ (marred => marred')
<1>1. /\ [stored EXCEPT !.control = v].control = v
      /\ [stored EXCEPT !.tiers = v].control = stored.control
      /\ [stored EXCEPT !.tiers = v].custom = stored.custom
      /\ [stored EXCEPT !.custom = v].control = stored.control
  BY DEF WorldTyped, Stores
<1>2. \A next : Store(next, n) => /\ stored' \in {next, stored} /\ (marred => marred')
                                  /\ marred' \/ stored' = next
  BY StoreFacts
<1>3. ASSUME NEW next, next = [stored EXCEPT !.control = v], Store(next, n)
      PROVE  (marred' \/ stored'.control = v) /\ (marred => marred')
  BY <1>1, <1>2, <1>3
<1>4. ASSUME NEW next, next = [stored EXCEPT !.tiers = v], Store(next, n)
      PROVE  /\ stored'.control = stored.control /\ stored'.custom = stored.custom
             /\ (marred => marred')
  BY <1>1, <1>2, <1>4
<1>5. ASSUME NEW next, next = [stored EXCEPT !.custom = v], Store(next, n)
      PROVE  stored'.control = stored.control /\ (marred => marred')
  BY <1>1, <1>2, <1>5
<1> QED
  BY <1>3, <1>4, <1>5

\* A list that forgets nothing outgrows no type.
LEMMA InstalledTyped ==
    ASSUME NEW job \in Jobs, NEW rules \in Installed(job)
    PROVE  rules \in Dynamic
<1>1. CASE job.control.paused
  BY <1>1, BlankTyped DEF Installed
<1>2. CASE ~job.control.paused
  <2>1. PICK list, kept :
          /\ list = IF job.list = None THEN job.rules.list ELSE job.list
          /\ kept = IF job.list = None THEN job.rules.custom \ job.lines ELSE {}
    OBVIOUS
  <2>2. PICK placed \in Placed(list, job.lines) :
           rules = [user |-> job.control.sites, list |-> list, custom |-> kept \cup placed]
    BY <1>2, <2>1 DEF Installed
  <2>3. placed \subseteq job.lines
    BY <2>2 DEF Placed
  <2>4. job.control.sites \subseteq Sites /\ list \in 0..Versions /\ kept \cup placed \subseteq Lines
    BY <2>1, <2>3 DEF Jobs, Control, Dynamic
  <2> QED
    BY <2>2, <2>4 DEF Dynamic
<1> QED
  BY <1>1, <1>2

LEMMA FieldsTyped ==
    ASSUME WorldTyped
    PROVE  /\ \A c \in Control : /\ [mem EXCEPT !.control = c] \in Memories
                                 /\ [stored EXCEPT !.control = c] \in Stores
           /\ \A t \in SUBSET Tiers : /\ [mem EXCEPT !.tiers = t] \in Memories
                                      /\ [stored EXCEPT !.tiers = t] \in Stores
                                      /\ [browser EXCEPT !.tiers = t] \in Browsers
           /\ \A c \in Control, t \in SUBSET Tiers :
                 [mem EXCEPT !.control = c, !.tiers = t] \in Memories
           /\ \A n \in 0..Versions : [mem EXCEPT !.list = n] \in Memories
           /\ \A b \in BOOLEAN : [mem EXCEPT !.suspended = b] \in Memories
           /\ \A l \in SUBSET Lines : [stored EXCEPT !.custom = l] \in Stores
           /\ \A r \in Dynamic : [browser EXCEPT !.rules = r] \in Browsers
           /\ mem.control \in Control /\ stored.control \in Control /\ mem.tiers \subseteq Tiers
           /\ browser.tiers \subseteq Tiers
<1>1. stored \in Stores /\ browser \in Browsers /\ mem \in Memories
  BY DEF WorldTyped
<1>2. /\ \A c \in Control : [mem EXCEPT !.control = c] \in Memories
      /\ \A t \in SUBSET Tiers : [mem EXCEPT !.tiers = t] \in Memories
      /\ \A c \in Control, t \in SUBSET Tiers :
            [mem EXCEPT !.control = c, !.tiers = t] \in Memories
  BY <1>1 DEF Memories
<1>3. /\ \A n \in 0..Versions : [mem EXCEPT !.list = n] \in Memories
      /\ \A b \in BOOLEAN : [mem EXCEPT !.suspended = b] \in Memories
  BY <1>1 DEF Memories
<1>4. /\ \A c \in Control : [stored EXCEPT !.control = c] \in Stores
      /\ \A t \in SUBSET Tiers : [stored EXCEPT !.tiers = t] \in Stores
      /\ \A l \in SUBSET Lines : [stored EXCEPT !.custom = l] \in Stores
  BY <1>1 DEF Stores
<1>5. /\ \A t \in SUBSET Tiers : [browser EXCEPT !.tiers = t] \in Browsers
      /\ \A r \in Dynamic : [browser EXCEPT !.rules = r] \in Browsers
  BY <1>1 DEF Browsers
<1>6. /\ mem.control \in Control /\ stored.control \in Control /\ mem.tiers \subseteq Tiers
      /\ browser.tiers \subseteq Tiers
  BY <1>1 DEF Memories, Stores, Browsers
<1> QED
  BY <1>2, <1>3, <1>4, <1>5, <1>6

LEMMA HandlerWorld ==
    ASSUME WorldTyped, WorkTyped, NEW p \in Procs, Handler(p)
    PROVE  WorldTyped'
<1>1. UNCHANGED <<feed, news, up>> /\ news \in BOOLEAN /\ up \in BOOLEAN /\ marred \in BOOLEAN
  BY DEF Handler, ControlRead, Saved, Suspend, UpdateTiers, Persisted, ReadFamilies,
         Reconcile, SaveLine, WorldTyped
<1>2. my[p] \in Jobs /\ my[p].control \in Control /\ my[p].lines \subseteq Lines
  BY DEF WorkTyped, Jobs
<1>3. \/ NoFault \/ Fault
      \/ ControlRead(p) /\ my[p].kind \notin Decisions /\ UNCHANGED events /\ marred' \in BOOLEAN
      \/ \E next : Store(next, 0)
  <2>1. CASE ControlRead(p)
    BY <1>1, <2>1 DEF ControlRead, TakeControl, Saves
  <2>2. CASE SaveLine(p)
    BY <2>2 DEF SaveLine, NoFault
  <2>3. CASE Reconcile(p)
    BY <2>3 DEF Reconcile, LoadLines
  <2>4. CASE Saved(p) \/ Suspend(p) \/ UpdateTiers(p) \/ Persisted(p) \/ ReadFamilies(p)
    BY <2>4 DEF Saved, Suspend, UpdateTiers, Persisted, ReadFamilies, NoFault
  <2> QED
    BY <2>1, <2>2, <2>3, <2>4 DEF Handler
<1>5. /\ events' \in Nat /\ events' <= MaxEvents /\ marred' \in BOOLEAN
      /\ feed' \in Nat /\ feed' >= 1 /\ feed' <= Versions
  BY <1>1, <1>3, EventTyped, StoreFacts
<1>6. stored' \in Stores /\ browser' \in Browsers /\ mem' \in Memories
  <2>1. stored \in Stores /\ browser \in Browsers /\ mem \in Memories
    BY DEF WorldTyped
  <2>2. CASE ControlRead(p)
    <3>1. CASE my[p].kind \in Decisions
      <4>1. my[p].kind = "site" => my[p].arg \in Sites
        BY <2>2 DEF ControlRead, WorkTyped
      <4>2. Decided(my[p].control, my[p]) \in Control
        BY <1>2, <4>1, DecidedTyped
      <4>3. Saves(Decided(my[p].control, my[p]), 0) /\ UNCHANGED browser
        BY <2>2, <3>1 DEF ControlRead
      <4> QED
        BY <2>1, <4>2, <4>3, FieldsTyped, StoreFacts DEF Saves
    <3>2. CASE my[p].kind \notin Decisions
      BY <1>2, <2>1, <2>2, <3>2, FieldsTyped DEF ControlRead, TakeControl
    <3> QED
      BY <3>1, <3>2
  <2>3. CASE Suspend(p)
    <3>1. mem.control.paused \in BOOLEAN
      BY <2>1 DEF Memories, Control
    <3> QED
      BY <2>1, <2>3, <3>1, FieldsTyped DEF Suspend
  <2>4. CASE UpdateTiers(p)
    <3>1. \A seen : /\ Synced(seen) \in SUBSET Tiers /\ Silenced(seen) \in SUBSET Tiers
      BY FieldsTyped DEF Synced, Silenced
    <3>2. PICK t \in SUBSET Tiers : browser' = [browser EXCEPT !.tiers = t]
      BY <2>4, <3>1 DEF UpdateTiers
    <3> QED
      BY <2>1, <2>4, <3>2, FieldsTyped DEF UpdateTiers
  <2>5. CASE SaveLine(p)
    <3>1. my[p].lines \cup {my[p].arg} \in SUBSET Lines
      BY <1>2, <2>5 DEF SaveLine, WorkTyped
    <3> QED
      BY <2>1, <2>5, <3>1, FieldsTyped, StoreFacts DEF SaveLine
  <2>6. CASE Saved(p) \/ Persisted(p) \/ ReadFamilies(p) \/ Reconcile(p)
    BY <2>1, <2>6 DEF Saved, Persisted, ReadFamilies, Reconcile
  <2> QED
    BY <2>2, <2>3, <2>4, <2>5, <2>6 DEF Handler
<1> QED
  BY <1>1, <1>5, <1>6 DEF WorldTyped

LEMMA WorkerWorld ==
    ASSUME WorldTyped, WorkTyped, Worker
    PROVE  WorldTyped'
<1>1. /\ stored \in Stores /\ browser \in Browsers /\ mem \in Memories
      /\ news \in BOOLEAN /\ up \in BOOLEAN /\ marred \in BOOLEAN
  BY DEF WorldTyped
<1>2. \A p \in Procs : my[p] \in Jobs /\ my[p].control \in Control
                       /\ my[p].list \in 0..Versions
  BY DEF WorkTyped, Jobs
<1>3. {"start", "sync", "chain"} \subseteq Procs
  BY NamedProcs
<1>4. CASE Booted
  <2>1. my["start"].tiers \subseteq Tiers
    BY <1>3, <1>4 DEF Booted, WorkTyped
  <2>2. mem' \in Memories
    BY <1>2, <1>3, <1>4, <2>1, FieldsTyped DEF Booted
  <2>3. UNCHANGED <<stored, browser, feed, news, up, events>> /\ marred' \in BOOLEAN
    BY <1>4 DEF Booted
  <2> QED
    BY <1>1, <2>2, <2>3 DEF WorldTyped
<1>5. CASE PlanRules \/ RulesUpdated
  <2>1. UNCHANGED <<stored, browser, mem, feed, up>> /\ news' \in BOOLEAN /\ (NoFault \/ Fault)
    BY <1>1, <1>5 DEF PlanRules, LoadLines, RulesUpdated, NoFault
  <2>2. /\ events' \in Nat /\ events' <= MaxEvents /\ marred' \in BOOLEAN
        /\ feed' \in Nat /\ feed' >= 1 /\ feed' <= Versions
    BY <2>1, EventTyped
  <2> QED
    BY <1>1, <2>1, <2>2 DEF WorldTyped
<1>6. CASE WriteRules
  <2>1. \A rules \in Installed(my["chain"]) : rules \in Dynamic
    BY <1>2, <1>3, InstalledTyped
  <2>2. browser' \in Browsers
    BY <1>6, <2>1, FieldsTyped DEF WriteRules
  <2>3. UNCHANGED <<stored, mem, feed, news, up, events, marred>>
    BY <1>6 DEF WriteRules, EndApply, NoFault
  <2> QED
    BY <1>1, <2>2, <2>3 DEF WorldTyped
<1>7. CASE Answer
  <2>1. UNCHANGED <<stored, browser, mem, feed, news, up>> /\ (NoFault \/ Fault)
    BY <1>7 DEF Answer
  <2>2. /\ events' \in Nat /\ events' <= MaxEvents /\ marred' \in BOOLEAN
        /\ feed' \in Nat /\ feed' >= 1 /\ feed' <= Versions
    BY <2>1, EventTyped
  <2> QED
    BY <1>1, <2>1, <2>2 DEF WorldTyped
<1>8. CASE Fetched
  <2>1. PICK n \in 0..Versions : mem' = [mem EXCEPT !.list = n]
    <3>1. mem.list \in 0..Versions
      BY <1>1 DEF Memories
    <3> QED
      BY <1>2, <1>3, <1>8, <3>1 DEF Fetched
  <2>2. mem' \in Memories
    BY <2>1, FieldsTyped
  <2>3. UNCHANGED <<stored, browser, feed, news, up, events, marred>>
    BY <1>8 DEF Fetched
  <2> QED
    BY <1>1, <2>2, <2>3 DEF WorldTyped
<1> QED
  BY <1>4, <1>5, <1>6, <1>7, <1>8 DEF Worker

LEMMA MessageWorld ==
    ASSUME WorldTyped, NEW o \in Slots,
           ReadFirst(o) \/ RemotePause(o) \/ AddLine(o) \/ SwitchTier(o)
    PROVE  WorldTyped'
<1>1. /\ stored \in Stores /\ browser \in Browsers /\ mem \in Memories
      /\ news \in BOOLEAN /\ up \in BOOLEAN /\ marred \in BOOLEAN
  BY DEF WorldTyped
<1>2. UNCHANGED <<browser, feed, news, up>>
  BY DEF ReadFirst, RemotePause, AddLine, SwitchTier, Receive
<1>0. \/ Event /\ UNCHANGED marred
      \/ \E next : Store(next, 1)
  <2>1. CASE ReadFirst(o) \/ AddLine(o)
    BY <2>1 DEF ReadFirst, AddLine
  <2>2. CASE RemotePause(o) \/ SwitchTier(o)
    BY <2>2 DEF RemotePause, SwitchTier, Saves
  <2> QED
    BY <2>1, <2>2
<1>3. /\ events' \in Nat /\ events' <= MaxEvents /\ marred' \in BOOLEAN
      /\ feed' \in Nat /\ feed' >= 1 /\ feed' <= Versions
  BY <1>0, <1>1, <1>2, EventTyped, StoreFacts DEF Event
<1>4. stored' \in Stores /\ mem' \in Memories
  <2>1. CASE ReadFirst(o) \/ AddLine(o)
    BY <1>1, <2>1 DEF ReadFirst, AddLine
  <2>2. CASE RemotePause(o)
    <3> DEFINE op == [kind |-> PauseButton]
    <3>1. op.kind # "site"
      BY DEF PauseButton
    <3>2. Saves(Decided(mem.control, op), 1)
      BY <2>2 DEF RemotePause
    <3> HIDE DEF op
    <3>3. Decided(mem.control, op) \in Control
      BY <3>1, DecidedTyped, FieldsTyped
    <3> QED
      BY <1>1, <3>2, <3>3, FieldsTyped, StoreFacts DEF Saves
  <2>3. CASE SwitchTier(o)
    <3>1. PICK t \in Tiers :
             LET next == IF t \in mem.tiers THEN mem.tiers \ {t} ELSE mem.tiers \cup {t}
             IN  /\ mem' = [mem EXCEPT !.tiers = next]
                 /\ Store([stored EXCEPT !.tiers = next], 1)
      BY <2>3 DEF SwitchTier
    <3>2. PICK next \in SUBSET Tiers : /\ mem' = [mem EXCEPT !.tiers = next]
                                       /\ Store([stored EXCEPT !.tiers = next], 1)
      BY <3>1, FieldsTyped
    <3> QED
      BY <1>1, <3>2, FieldsTyped, StoreFacts
  <2> QED
    BY <2>1, <2>2, <2>3
<1> QED
  BY <1>1, <1>2, <1>3, <1>4 DEF WorldTyped

LEMMA OtherWorld ==
    ASSUME WorldTyped,
           \/ Wake \/ Alarm \/ Publish \/ IdleTearDown \/ Kill \/ UNCHANGED vars
           \/ \E p \in Procs : ReadFails(p) \/ CallThrows(p)
    PROVE  WorldTyped'
<1>1. /\ stored \in Stores /\ browser \in Browsers /\ mem \in Memories
      /\ news \in BOOLEAN /\ up \in BOOLEAN /\ marred \in BOOLEAN
      /\ events \in Nat /\ MaxEvents \in Nat /\ feed \in Nat
      /\ events <= MaxEvents /\ feed >= 1 /\ feed <= Versions /\ Versions \in Nat
  BY Numbers DEF WorldTyped
<1>2. CASE Wake \/ Alarm \/ UNCHANGED vars
  BY <1>2 DEF Wake, Alarm, vars, WorldTyped
<1>3. CASE Publish
  <2>1. /\ UNCHANGED <<stored, browser, up, mem, marred>>
        /\ feed' \in Nat /\ feed' >= 1 /\ feed' <= Versions
        /\ news' = up /\ events + 1 <= MaxEvents /\ events' = events + 1
    BY <1>1, <1>3 DEF Publish, Event, Events
  <2> QED
    BY <1>1, <2>1 DEF WorldTyped
<1>4. CASE IdleTearDown \/ Kill
  <2>1. /\ UNCHANGED <<stored, browser, feed>> /\ up' = FALSE /\ news' = FALSE /\ marred' = FALSE
        /\ mem' = FreshMem
        /\ events' = events \/ (events + 1 <= MaxEvents /\ events' = events + 1)
    BY <1>4 DEF IdleTearDown, Kill, TearDown, Event, Events
  <2>2. FreshMem \in Memories
    BY BlankTyped, Numbers, ExtensionAssumption DEF FreshMem, Memories
  <2>3. events' \in Nat /\ events' <= MaxEvents /\ feed' <= Versions
    BY <1>1, <2>1
  <2>4. stored' \in Stores /\ browser' \in Browsers /\ mem' \in Memories
        /\ feed' \in Nat /\ feed' >= 1
    BY <1>1, <2>1, <2>2
  <2>5. news' \in BOOLEAN /\ up' \in BOOLEAN /\ marred' \in BOOLEAN
    BY <2>1
  <2> QED
    BY <2>3, <2>4, <2>5 DEF WorldTyped
<1>5. ASSUME NEW p \in Procs, ReadFails(p) \/ CallThrows(p) PROVE WorldTyped'
  <2>1. UNCHANGED <<stored, browser, mem, feed, news, up>> /\ Fault
    BY <1>5 DEF ReadFails, CallThrows, EndApply
  <2>2. /\ events' \in Nat /\ events' <= MaxEvents /\ marred' \in BOOLEAN
        /\ feed' \in Nat /\ feed' >= 1 /\ feed' <= Versions
    BY <2>1, EventTyped
  <2> QED
    BY <1>1, <2>1, <2>2 DEF WorldTyped
<1> QED
  BY <1>2, <1>3, <1>4, <1>5

LEMMA TypedInit == Init => WorldTyped /\ WorkTyped
<1> SUFFICES ASSUME Init PROVE WorldTyped /\ WorkTyped
  OBVIOUS
<1>1. /\ EmptyControl \in Control /\ DefaultTiers \subseteq Tiers /\ NoRules \in Dynamic
      /\ Blank \in Jobs /\ MaxEvents \in Nat
  BY BlankTyped, ExtensionAssumption
<1>2. stored \in Stores
  BY <1>1 DEF Init, Stores
<1>3. browser \in Browsers
  <2>1. [NoRules EXCEPT !.list = 1] \in Dynamic
    BY <1>1, Numbers DEF Dynamic
  <2> QED
    BY <1>1, <2>1 DEF Init, Browsers
<1>4. mem \in Memories
  BY <1>1, Numbers DEF Init, FreshMem, Memories
<1>5. WorldTyped
  <2>1. events \in Nat /\ events <= MaxEvents /\ feed \in Nat /\ feed >= 1 /\ feed <= Versions
    BY <1>1, Numbers DEF Init
  <2>2. news \in BOOLEAN /\ up \in BOOLEAN /\ marred \in BOOLEAN
    BY DEF Init
  <2> QED
    BY <1>2, <1>3, <1>4, <2>1, <2>2 DEF WorldTyped
<1>6. WorkTyped
  BY <1>1 DEF Init, WorkTyped, Pcs
<1> QED
  BY <1>5, <1>6

-----------------------------------------------------------------------------
(* The two queues.                                                          *)

\* Where a handler awaits an answer of storage.
Waiting == {"boot", "reading", "lines", "saving", "persisting"}

\* The processes in the apply chain await their apply, each once.
ChainPlaces ==
    /\ chain \in Seq(Procs \ {"chain"})
    /\ \A i \in 1..Len(chain) : pc[chain[i]] = "apply"
    /\ \A i, k \in 1..Len(chain) : chain[i] = chain[k] => i = k

\* The processes whose call is unanswered are those that await storage, each once.
CallPlaces ==
    /\ calls \in Seq(Procs)
    /\ \A i \in 1..Len(calls) : pc[calls[i]] \in Waiting
    /\ \A i, k \in 1..Len(calls) : calls[i] = calls[k] => i = k
    /\ \A p \in Procs : pc[p] \in Waiting => \E i \in 1..Len(calls) : calls[i] = p

\* What Head, Tail and Append of a queue are, by position.
LEMMA QueueFacts ==
    ASSUME NEW S, NEW q \in Seq(S)
    PROVE  /\ Len(q) \in Nat
           /\ \A i \in 1..Len(q) : q[i] \in S
           /\ q # <<>> => /\ Len(q) >= 1 /\ Head(q) = q[1] /\ Head(q) \in S
                          /\ Tail(q) \in Seq(S) /\ Len(Tail(q)) = Len(q) - 1
                          /\ \A i \in 1..Len(Tail(q)) : Tail(q)[i] = q[i + 1]
           /\ \A x \in S : /\ Append(q, x) \in Seq(S) /\ Len(Append(q, x)) = Len(q) + 1
                           /\ Append(q, x)[Len(q) + 1] = x
                           /\ \A i \in 1..Len(q) : Append(q, x)[i] = q[i]
OBVIOUS

LEMMA ChainStays ==
    ASSUME ChainPlaces, UNCHANGED chain, \A q \in Procs : pc[q] = "apply" => pc'[q] = "apply"
    PROVE  ChainPlaces'
<1>1. \A i \in 1..Len(chain) : chain[i] \in Procs
  BY DEF ChainPlaces
<1> QED
  BY <1>1 DEF ChainPlaces

LEMMA ChainGrows ==
    ASSUME ChainPlaces, NEW p \in Procs \ {"chain"}, pc[p] # "apply", pc'[p] = "apply",
           \A q \in Procs : pc[q] = "apply" => pc'[q] = "apply", chain' = Append(chain, p)
    PROVE  /\ ChainPlaces' /\ chain' # <<>> /\ Len(chain') = Len(chain) + 1
           /\ Len(chain) \in Nat /\ (chain # <<>> => Len(chain') >= 2)
<1>1. /\ Len(chain) \in Nat /\ \A i \in 1..Len(chain) : chain[i] \in Procs \ {"chain"}
      /\ chain' \in Seq(Procs \ {"chain"}) /\ Len(chain') = Len(chain) + 1
      /\ chain'[Len(chain) + 1] = p /\ \A i \in 1..Len(chain) : chain'[i] = chain[i]
  BY QueueFacts DEF ChainPlaces
<1>2. \A i \in 1..Len(chain) : chain[i] # p /\ pc'[chain[i]] = "apply"
  BY <1>1 DEF ChainPlaces
<1>3. \A i \in 1..Len(chain') : i \in 1..Len(chain) \/ i = Len(chain) + 1
  BY <1>1
<1>4. \A i \in 1..Len(chain') : pc'[chain'[i]] = "apply"
  BY <1>1, <1>2, <1>3
<1>5. \A i, k \in 1..Len(chain') : chain'[i] = chain'[k] => i = k
  BY <1>1, <1>2, <1>3 DEF ChainPlaces
<1>6. chain # <<>> => Len(chain) >= 1
  BY QueueFacts DEF ChainPlaces
<1> QED
  BY <1>1, <1>4, <1>5, <1>6 DEF ChainPlaces

LEMMA ChainShrinks ==
    ASSUME ChainPlaces, chain # <<>>, chain' = Tail(chain), NEW own, own = Head(chain),
           \A q \in Procs \ {own} : pc[q] = "apply" => pc'[q] = "apply"
    PROVE  ChainPlaces'
<1>1. /\ Len(chain) \in Nat /\ Len(chain) >= 1 /\ own = chain[1]
      /\ \A i \in 1..Len(chain) : chain[i] \in Procs
      /\ chain' \in Seq(Procs \ {"chain"}) /\ Len(chain') = Len(chain) - 1
      /\ \A i \in 1..Len(chain') : chain'[i] = chain[i + 1]
  BY QueueFacts DEF ChainPlaces
<1>2. \A i \in 1..Len(chain') : i + 1 \in 1..Len(chain) /\ i + 1 # 1 /\ 1 \in 1..Len(chain)
  BY <1>1
<1>3. \A i \in 1..Len(chain') : pc'[chain'[i]] = "apply"
  BY <1>1, <1>2 DEF ChainPlaces
<1>4. \A i, k \in 1..Len(chain') : chain'[i] = chain'[k] => i = k
  <2> SUFFICES ASSUME NEW i \in 1..Len(chain'), NEW k \in 1..Len(chain'), chain'[i] = chain'[k]
               PROVE  i = k
    OBVIOUS
  <2>1. i + 1 = k + 1
    BY <1>1, <1>2 DEF ChainPlaces
  <2> QED
    BY <1>1, <2>1
<1> QED
  BY <1>1, <1>3, <1>4 DEF ChainPlaces

LEMMA CallsStay ==
    ASSUME CallPlaces, UNCHANGED calls,
           \A q \in Procs : pc'[q] \in Waiting <=> pc[q] \in Waiting
    PROVE  CallPlaces'
<1>1. \A i \in 1..Len(calls) : calls[i] \in Procs
  BY DEF CallPlaces
<1> QED
  BY <1>1 DEF CallPlaces

LEMMA CallsGrow ==
    ASSUME CallPlaces, NEW p \in Procs, pc[p] \notin Waiting, pc'[p] \in Waiting,
           \A q \in Procs \ {p} : pc'[q] \in Waiting <=> pc[q] \in Waiting,
           calls' = Append(calls, p)
    PROVE  CallPlaces' /\ (calls # <<>> => calls' # <<>> /\ Head(calls') = Head(calls))
<1>1. /\ Len(calls) \in Nat /\ \A i \in 1..Len(calls) : calls[i] \in Procs
      /\ calls' \in Seq(Procs) /\ Len(calls') = Len(calls) + 1
      /\ calls'[Len(calls) + 1] = p /\ \A i \in 1..Len(calls) : calls'[i] = calls[i]
  BY QueueFacts DEF CallPlaces
<1>2. \A i \in 1..Len(calls) : calls[i] # p
  BY DEF CallPlaces
<1>3. \A i \in 1..Len(calls') : i \in 1..Len(calls) \/ i = Len(calls) + 1
  BY <1>1
<1>4. \A i \in 1..Len(calls) : i \in 1..Len(calls') /\ Len(calls) + 1 \in 1..Len(calls')
  BY <1>1
<1>5. \A i \in 1..Len(calls') : pc'[calls'[i]] \in Waiting
  BY <1>1, <1>2, <1>3 DEF CallPlaces
<1>6. \A i, k \in 1..Len(calls') : calls'[i] = calls'[k] => i = k
  BY <1>1, <1>2, <1>3 DEF CallPlaces
<1>7. \A q \in Procs : pc'[q] \in Waiting => \E i \in 1..Len(calls') : calls'[i] = q
  <2> SUFFICES ASSUME NEW q \in Procs, pc'[q] \in Waiting
               PROVE  \E i \in 1..Len(calls') : calls'[i] = q
    OBVIOUS
  <2>1. CASE q = p
    <3>1. Len(calls) + 1 \in 1..Len(calls')
      BY <1>1
    <3> QED
      BY <1>1, <2>1, <3>1
  <2>2. CASE q # p
    <3>1. PICK i \in 1..Len(calls) : calls[i] = q
      BY <2>2 DEF CallPlaces
    <3> QED
      BY <1>1, <1>4, <3>1
  <2> QED
    BY <2>1, <2>2
<1>8. calls # <<>> => calls' # <<>> /\ Head(calls') = Head(calls)
  <2> SUFFICES ASSUME calls # <<>> PROVE calls' # <<>> /\ Head(calls') = Head(calls)
    OBVIOUS
  <2>1. Len(calls) >= 1 /\ Head(calls) = calls[1]
    BY QueueFacts DEF CallPlaces
  <2>2. calls' # <<>>
    BY <1>1
  <2>3. Head(calls') = calls'[1]
    BY <1>1, <2>2, QueueFacts
  <2> QED
    BY <1>1, <2>1, <2>2, <2>3
<1> QED
  BY <1>1, <1>5, <1>6, <1>7, <1>8 DEF CallPlaces

\* The call that is answered is the oldest one; its process may call again.
LEMMA CallsShrink ==
    ASSUME CallPlaces, NEW p \in Procs, pc[p] \in Waiting, Head(calls) = p,
           \A q \in Procs \ {p} : pc'[q] \in Waiting <=> pc[q] \in Waiting,
           \/ calls' = Tail(calls) /\ pc'[p] \notin Waiting
           \/ calls' = Append(Tail(calls), p) /\ pc'[p] \in Waiting
    PROVE  CallPlaces'
<1>1. calls # <<>> /\ calls \in Seq(Procs)
  <2>1. PICK i \in 1..Len(calls) : calls[i] = p
    BY DEF CallPlaces
  <2> QED
    BY <2>1 DEF CallPlaces
<1> DEFINE rest == Tail(calls)
<1>2. /\ Len(calls) \in Nat /\ Len(calls) >= 1 /\ p = calls[1]
      /\ \A i \in 1..Len(calls) : calls[i] \in Procs
      /\ rest \in Seq(Procs) /\ Len(rest) = Len(calls) - 1
      /\ \A i \in 1..Len(rest) : rest[i] = calls[i + 1]
  BY <1>1, QueueFacts
<1> HIDE DEF rest
<1>3. \A i \in 1..Len(rest) : i + 1 \in 1..Len(calls) /\ i + 1 # 1 /\ 1 \in 1..Len(calls)
  BY <1>2
<1>4. \A i \in 1..Len(rest) : rest[i] # p /\ rest[i] \in Procs /\ pc[rest[i]] \in Waiting
  BY <1>2, <1>3 DEF CallPlaces
<1>5. \A i, k \in 1..Len(rest) : rest[i] = rest[k] => i = k
  <2> SUFFICES ASSUME NEW i \in 1..Len(rest), NEW k \in 1..Len(rest), rest[i] = rest[k]
               PROVE  i = k
    OBVIOUS
  <2>1. i + 1 = k + 1
    BY <1>2, <1>3 DEF CallPlaces
  <2> QED
    BY <1>2, <2>1
<1>6. \A q \in Procs \ {p} : pc[q] \in Waiting => \E i \in 1..Len(rest) : rest[i] = q
  <2> SUFFICES ASSUME NEW q \in Procs \ {p}, pc[q] \in Waiting
               PROVE  \E i \in 1..Len(rest) : rest[i] = q
    OBVIOUS
  <2>1. PICK k \in 1..Len(calls) : calls[k] = q
    BY DEF CallPlaces
  <2>2. k # 1
    BY <1>2, <2>1
  <2>3. k - 1 \in 1..Len(rest) /\ (k - 1) + 1 = k
    BY <1>2, <2>2
  <2> QED
    BY <1>2, <2>1, <2>3
<1>7. CASE calls' = rest /\ pc'[p] \notin Waiting
  <2>1. \A q \in Procs : pc'[q] \in Waiting => \E i \in 1..Len(rest) : rest[i] = q
    BY <1>6, <1>7
  <2>2. \A i \in 1..Len(rest) : pc'[rest[i]] \in Waiting
    BY <1>4
  <2> QED
    BY <1>2, <1>5, <1>7, <2>1, <2>2 DEF CallPlaces
<1>8. CASE calls' = Append(rest, p) /\ pc'[p] \in Waiting
  <2>1. /\ Len(rest) \in Nat /\ calls' \in Seq(Procs) /\ Len(calls') = Len(rest) + 1
        /\ calls'[Len(rest) + 1] = p /\ \A i \in 1..Len(rest) : calls'[i] = rest[i]
    BY <1>2, <1>8, QueueFacts
  <2>2. /\ \A i \in 1..Len(calls') : i \in 1..Len(rest) \/ i = Len(rest) + 1
        /\ \A i \in 1..Len(rest) : i \in 1..Len(calls')
        /\ Len(rest) + 1 \in 1..Len(calls')
    BY <2>1
  <2>3. \A i \in 1..Len(calls') : pc'[calls'[i]] \in Waiting
    BY <1>4, <1>8, <2>1, <2>2
  <2>4. \A i, k \in 1..Len(calls') : calls'[i] = calls'[k] => i = k
    BY <1>4, <1>5, <2>1, <2>2
  <2>5. \A q \in Procs : pc'[q] \in Waiting => \E i \in 1..Len(calls') : calls'[i] = q
    <3> SUFFICES ASSUME NEW q \in Procs, pc'[q] \in Waiting
                 PROVE  \E i \in 1..Len(calls') : calls'[i] = q
      OBVIOUS
    <3>1. CASE q = p
      BY <2>1, <2>2, <3>1
    <3>2. CASE q # p
      <4>1. PICK i \in 1..Len(rest) : rest[i] = q
        BY <1>6, <3>2
      <4> QED
        BY <2>1, <2>2, <4>1
    <3> QED
      BY <3>1, <3>2
  <2> QED
    BY <2>1, <2>3, <2>4, <2>5 DEF CallPlaces
<1> QED
  BY <1>7, <1>8 DEF rest

-----------------------------------------------------------------------------
(* Who may be where.                                                        *)

\* Nothing is under way in a worker that is down.
Down == up \/ ((\A p \in Procs : pc[p] = "idle") /\ chain = <<>> /\ calls = <<>>)

\* The chain works for the process at its head.
Busy == pc["chain"] # "idle" => chain # <<>>

\* While a worker starts, its first call is unanswered, and none behind it is answered.
Booting ==
    pc["start"] = "boot" =>
        /\ chain = <<>> /\ calls # <<>> /\ Head(calls) = "start"
        /\ \A p \in Procs \ {"start"} :
              pc[p] \in {"idle", "reading", "lines", "persisting", "fetch", "answered"}

Places == ChainPlaces /\ CallPlaces /\ Down /\ Busy /\ Booting

\* The head of the chain is a handler that is done with its own work.
LEMMA HeadOfChain ==
    ASSUME ChainPlaces, chain # <<>>
    PROVE  Head(chain) \in Procs \ {"chain"} /\ pc[Head(chain)] = "apply"
<1>1. Len(chain) \in Nat /\ Len(chain) >= 1 /\ Head(chain) = chain[1]
      /\ Head(chain) \in Procs \ {"chain"}
  BY QueueFacts DEF ChainPlaces
<1>2. 1 \in 1..Len(chain)
  BY <1>1
<1> QED
  BY <1>1, <1>2 DEF ChainPlaces

\* A process that awaits storage and is answered is not overtaken by the first call.
LEMMA NotBooting ==
    ASSUME Places, NEW p \in Procs,
           \/ pc[p] \in Waiting \ {"boot"} /\ Head(calls) = p
           \/ pc[p] \in {"suspend", "suspending", "tierDiff", "families", "decide", "apply",
                         "plan", "write"}
           \/ chain # <<>>
    PROVE  pc["start"] # "boot" /\ up
<1>1. pc["start"] # "boot"
  BY DEF Places, Booting, Waiting
<1>2. up
  BY DEF Places, Down, Waiting
<1> QED
  BY <1>1, <1>2

LEMMA MovesApart ==
    ASSUME WorkTyped, NEW p \in Procs, NEW at, pc' = [pc EXCEPT ![p] = at]
    PROVE  pc'[p] = at /\ \A q \in Procs \ {p} : pc'[q] = pc[q]
BY DEF WorkTyped

\* A process moves on without a call or an apply.
LEMMA PlacesQuiet ==
    ASSUME Places, WorkTyped, up, up' = up, NEW p \in Procs, NEW at,
           pc' = [pc EXCEPT ![p] = at], UNCHANGED <<chain, calls>>,
           pc[p] \notin Waiting \cup {"apply"}, at \notin Waiting,
           p = "chain" => chain # <<>>,
           pc["start"] = "boot" => at \in {"idle", "fetch", "answered"}
    PROVE  Places'
<1>1. pc'[p] = at /\ \A q \in Procs \ {p} : pc'[q] = pc[q]
  BY MovesApart
<1>2. ChainPlaces'
  BY <1>1, ChainStays DEF Places
<1>3. CallPlaces'
  BY <1>1, CallsStay DEF Places
<1>4. Down' /\ Busy'
  BY <1>1, NamedProcs DEF Places, Down, Busy
<1>5. Booting'
  <2>1. pc'["start"] = "boot" => p # "start" /\ pc["start"] = "boot"
    BY <1>1, NamedProcs DEF Waiting
  <2> QED
    BY <1>1, <2>1 DEF Places, Booting
<1> QED
  BY <1>2, <1>3, <1>4, <1>5 DEF Places

\* ... with a call.
LEMMA PlacesCall ==
    ASSUME Places, WorkTyped, up, up' = up, NEW p \in Procs \ {"start", "chain"}, NEW at,
           pc' = [pc EXCEPT ![p] = at], UNCHANGED chain, calls' = Append(calls, p),
           pc[p] \notin Waiting \cup {"apply"}, at \in Waiting \ {"boot"},
           pc["start"] = "boot" => at \in {"reading", "lines", "persisting"}
    PROVE  Places'
<1>1. pc'[p] = at /\ \A q \in Procs \ {p} : pc'[q] = pc[q]
  BY MovesApart
<1>2. ChainPlaces'
  BY <1>1, ChainStays DEF Places
<1>3. CallPlaces' /\ (calls # <<>> => calls' # <<>> /\ Head(calls') = Head(calls))
  BY <1>1, CallsGrow DEF Places
<1>4. Down' /\ Busy'
  BY <1>1, NamedProcs DEF Places, Down, Busy
<1>5. Booting'
  <2>1. pc'["start"] = pc["start"]
    BY <1>1, NamedProcs
  <2> QED
    BY <1>1, <1>3, <2>1 DEF Places, Booting
<1> QED
  BY <1>2, <1>3, <1>4, <1>5 DEF Places

\* ... by an apply.
LEMMA PlacesApply ==
    ASSUME Places, WorkTyped, up, up' = up, NEW p \in Procs \ {"chain"},
           pc' = [pc EXCEPT ![p] = "apply"], UNCHANGED calls, chain' = Append(chain, p),
           pc[p] \notin Waiting \cup {"apply"}, pc["start"] # "boot"
    PROVE  Places' /\ chain' # <<>> /\ (chain # <<>> => Len(chain') >= 2)
<1>1. pc'[p] = "apply" /\ \A q \in Procs \ {p} : pc'[q] = pc[q]
  BY MovesApart
<1>2. ChainPlaces' /\ chain' # <<>> /\ (chain # <<>> => Len(chain') >= 2)
  BY <1>1, ChainGrows DEF Places
<1>3. CallPlaces'
  BY <1>1, CallsStay DEF Places, Waiting
<1>4. Down' /\ Busy'
  BY <1>2 DEF Places, Down, Busy
<1>5. Booting'
  BY <1>1, NamedProcs DEF Booting
<1> QED
  BY <1>2, <1>3, <1>4, <1>5 DEF Places

\* ... when its call is answered.
LEMMA PlacesAnswered ==
    ASSUME Places, WorkTyped, up' = up, NEW p \in Procs \ {"chain"}, NEW at,
           pc' = [pc EXCEPT ![p] = at],
           pc[p] \in Waiting \ {"boot"} /\ Head(calls) = p,
           \/ calls' = Tail(calls) /\ at \notin Waiting
           \/ calls' = Append(Tail(calls), p) /\ at \in Waiting \ {"boot"},
           \/ at # "apply" /\ UNCHANGED chain
           \/ at = "apply" /\ chain' = Append(chain, p)
    PROVE  /\ Places' /\ up /\ pc["start"] # "boot"
           /\ at = "apply" => chain' # <<>> /\ (chain # <<>> => Len(chain') >= 2)
<1>1. pc'[p] = at /\ \A q \in Procs \ {p} : pc'[q] = pc[q]
  BY MovesApart
<1>2. pc["start"] # "boot" /\ up
  BY NotBooting
<1>3. /\ ChainPlaces'
      /\ at = "apply" => chain' # <<>> /\ (chain # <<>> => Len(chain') >= 2)
  <2>1. CASE at # "apply" /\ UNCHANGED chain
    BY <1>1, <2>1, ChainStays DEF Places, Waiting
  <2>2. CASE at = "apply" /\ chain' = Append(chain, p)
    BY <1>1, <2>2, ChainGrows DEF Places, Waiting
  <2> QED
    BY <2>1, <2>2
<1>4. CallPlaces'
  BY <1>1, CallsShrink DEF Places
<1>5. Down' /\ Busy'
  BY <1>1, <1>2, <1>3, NamedProcs DEF Places, Down, Busy
<1>6. Booting'
  BY <1>1, <1>2, NamedProcs DEF Booting, Waiting
<1> QED
  BY <1>2, <1>3, <1>4, <1>5, <1>6 DEF Places

LEMMA PlacesEnd ==
    ASSUME Places, WorkTyped, Inv, pc["chain"] # "idle", EndApply, NEW own, own = Head(chain)
    PROVE  /\ Places' /\ up /\ up' = up /\ pc["start"] # "boot" /\ own \in Procs \ {"chain"}
           /\ pc'["chain"] = "idle" /\ pc'[own] = "idle" /\ pc[own] = "apply"
           /\ \A q \in Procs \ {"chain", own} : pc'[q] = pc[q] /\ my'[q] = my[q]
           /\ chain # <<>> /\ (Len(chain) >= 2 => chain' # <<>>)
<1>1. chain # <<>>
  BY DEF Places, Busy
<1>2. own \in Procs \ {"chain"} /\ pc[own] = "apply"
  BY <1>1, HeadOfChain DEF Places
<1>3. /\ pc' = [pc EXCEPT !["chain"] = "idle", ![own] = "idle"]
      /\ my' = [my EXCEPT !["chain"] = Blank, ![own] = Blank]
      /\ chain' = Tail(chain) /\ UNCHANGED <<up, calls>>
  BY DEF EndApply
<1>4. /\ pc'["chain"] = "idle" /\ pc'[own] = "idle"
      /\ \A q \in Procs \ {"chain", own} : pc'[q] = pc[q] /\ my'[q] = my[q]
  BY <1>2, <1>3, NamedProcs DEF WorkTyped
<1>5. up /\ pc["start"] # "boot"
  BY <1>1, <1>2, NotBooting
<1>6. pc["chain"] \in {"suspending", "plan", "write"}
  BY Apart
<1>7. ChainPlaces'
  BY <1>1, <1>3, <1>4, <1>6, ChainShrinks DEF Places
<1>8. CallPlaces'
  BY <1>2, <1>3, <1>4, <1>6, CallsStay DEF Places, Waiting
<1>9. Down' /\ Busy' /\ Booting'
  BY <1>2, <1>3, <1>4, <1>5, NamedProcs DEF Down, Busy, Booting
<1>10. Len(chain) >= 2 => chain' # <<>>
  <2>1. Len(Tail(chain)) = Len(chain) - 1 /\ Len(chain) \in Nat
    BY <1>1, QueueFacts DEF Places, ChainPlaces
  <2>2. Len(chain) >= 2 => Len(chain') >= 1
    BY <1>3, <2>1
  <2> QED
    BY <2>2
<1> QED
  BY <1>1, <1>2, <1>3, <1>4, <1>5, <1>7, <1>8, <1>9, <1>10 DEF Places

LEMMA PlacesDown ==
    ASSUME TearDown
    PROVE  Places'
<1>1. /\ \A p \in Procs : pc'[p] = "idle"
      /\ chain' = <<>> /\ calls' = <<>>
  BY DEF TearDown
<1>2. chain' \in Seq(Procs \ {"chain"}) /\ calls' \in Seq(Procs) /\ Len(chain') = 0 /\ Len(calls') = 0
  BY <1>1
<1>3. ChainPlaces' /\ CallPlaces'
  BY <1>1, <1>2 DEF ChainPlaces, CallPlaces, Waiting
<1> QED
  BY <1>1, <1>3, NamedProcs DEF Places, Down, Busy, Booting

LEMMA PlacesWake ==
    ASSUME Places, WorkTyped, Wake
    PROVE  Places'
<1>1. /\ \A p \in Procs : pc[p] = "idle"
      /\ chain = <<>>
  BY DEF Wake, Places, Down
<1>2. /\ pc'["start"] = "boot" /\ \A q \in Procs \ {"start"} : pc'[q] = "idle"
      /\ chain' = <<>> /\ calls' = <<"start">> /\ up'
  BY <1>1, NamedProcs DEF Wake, Goto, WorkTyped
<1>3. chain' \in Seq(Procs \ {"chain"}) /\ Len(chain') = 0
  BY <1>2
<1>4. /\ calls' \in Seq(Procs) /\ Len(calls') = 1 /\ calls'[1] = "start" /\ calls' # <<>>
      /\ Head(calls') = "start"
  BY <1>2, NamedProcs
<1>5. ChainPlaces'
  BY <1>3 DEF ChainPlaces
<1>6. CallPlaces'
  <2>1. 1 \in 1..Len(calls') /\ \A i \in 1..Len(calls') : i = 1
    BY <1>4
  <2>2. \A i \in 1..Len(calls') : pc'[calls'[i]] \in Waiting
    BY <1>2, <1>4, <2>1 DEF Waiting
  <2>3. \A p \in Procs : pc'[p] \in Waiting => p = "start"
    BY <1>2 DEF Waiting
  <2> QED
    BY <1>4, <2>1, <2>2, <2>3 DEF CallPlaces
<1> QED
  BY <1>2, <1>4, <1>5, <1>6, NamedProcs DEF Places, Down, Busy, Booting

LEMMA PlacesInit == Init => Places
<1> SUFFICES ASSUME Init PROVE Places
  OBVIOUS
<1>1. /\ \A p \in Procs : pc[p] = "idle"
      /\ chain = <<>> /\ calls = <<>>
  BY DEF Init
<1>2. chain \in Seq(Procs \ {"chain"}) /\ calls \in Seq(Procs) /\ Len(chain) = 0 /\ Len(calls) = 0
  BY <1>1
<1>3. ChainPlaces /\ CallPlaces
  BY <1>1, <1>2 DEF ChainPlaces, CallPlaces, Waiting
<1> QED
  BY <1>1, <1>3, NamedProcs DEF Places, Down, Busy, Booting

\* The start block goes on from its first call to its second.
LEMMA PlacesBooted ==
    ASSUME Places, WorkTyped, Inv, Booted
    PROVE  Places' /\ up /\ chain = <<>> /\ pc["chain"] = "idle"
<1>1. /\ pc["start"] = "boot" /\ Head(calls) = "start"
      /\ pc' = [pc EXCEPT !["start"] = "reading"]
      /\ calls' = Append(Tail(calls), "start") /\ UNCHANGED <<up, chain>>
  BY DEF Booted, Goto
<1>2. "start" \in Procs /\ "chain" \in Procs
  BY NamedProcs
<1>3. pc'["start"] = "reading" /\ \A q \in Procs \ {"start"} : pc'[q] = pc[q]
  BY <1>1, <1>2, MovesApart
<1>4. ChainPlaces'
  BY <1>1, <1>3, ChainStays DEF Places
<1>5. CallPlaces'
  BY <1>1, <1>2, <1>3, CallsShrink DEF Places, Waiting
<1>6. up /\ chain = <<>> /\ pc["chain"] = "idle"
  BY <1>1, <1>2, Apart DEF Places, Down, Booting
<1> QED
  BY <1>1, <1>3, <1>4, <1>5, <1>6 DEF Places, Down, Busy, Booting

\* A reconcile that finds nothing to do, or only a sync to join.
LEMMA PlacesReconciled ==
    ASSUME Places, WorkTyped, Inv, up, up' = up, NEW p \in Procs, pc[p] = "decide", NEW at,
           at = pc["sync"] \/ (at = "fetch" /\ pc["sync"] = "idle"),
           pc' = [pc EXCEPT ![p] = "idle", !["sync"] = at], UNCHANGED <<chain, calls>>
    PROVE  Places'
<1>1. p # "sync" /\ p # "chain" /\ pc["start"] # "boot"
  BY Apart, NotBooting
<1>2. pc'[p] = "idle" /\ pc'["sync"] = at /\ \A q \in Procs \ {p, "sync"} : pc'[q] = pc[q]
  BY <1>1, NamedProcs DEF WorkTyped
<1>3. \A q \in Procs : (pc[q] = "apply" => pc'[q] = "apply")
                       /\ (pc'[q] \in Waiting <=> pc[q] \in Waiting)
  BY <1>1, <1>2 DEF Waiting
<1>4. ChainPlaces' /\ CallPlaces'
  BY <1>3, ChainStays, CallsStay DEF Places
<1>5. pc'["chain"] = pc["chain"] /\ pc'["start"] # "boot"
  BY <1>1, <1>2, NamedProcs
<1> QED
  BY <1>4, <1>5 DEF Places, Down, Busy, Booting

LEMMA PlacesStay ==
    ASSUME Places, UNCHANGED <<pc, chain, calls, up>>
    PROVE  Places'
BY DEF Places, ChainPlaces, CallPlaces, Down, Busy, Booting

LEMMA HandlerPlaces ==
    ASSUME Places, WorkTyped, Inv, NEW p \in Procs, Handler(p)
    PROVE  Places'
<1>1. up' = up
  BY DEF Handler, ControlRead, Saved, Suspend, UpdateTiers, Persisted, ReadFamilies, Reconcile,
         SaveLine
<1>2. pc["chain"] \in {"idle", "suspending", "plan", "write"}
  BY Apart
<1>3. CASE ControlRead(p)
  <2>1. /\ pc[p] = "reading" /\ Head(calls) = p /\ UNCHANGED chain
        /\ my[p].kind \in Readers
    BY <1>3 DEF ControlRead, WorkTyped
  <2>2. CASE my[p].kind \in Decisions
    <3>1. Goto(p, "saving") /\ calls' = Append(Tail(calls), p)
      BY <1>3, <2>2 DEF ControlRead
    <3> QED
      BY <1>1, <1>2, <2>1, <3>1, PlacesAnswered DEF Goto, Waiting
  <2>3. CASE my[p].kind \notin Decisions
    <3>1. PICK at : at = AfterRead(my[p].kind) /\ Goto(p, at) /\ calls' = Tail(calls)
      BY <1>3, <2>3 DEF ControlRead
    <3>2. at \in {"suspend", "families", "idle"}
      BY <2>1, <2>3, <3>1 DEF AfterRead, Readers
    <3>3. at \notin Waiting /\ at # "apply" /\ pc[p] \in Waiting \ {"boot"} /\ p # "chain"
      BY <1>2, <2>1, <3>2 DEF Waiting
    <3> QED
      BY <1>1, <2>1, <3>1, <3>3, PlacesAnswered DEF Goto
  <2> QED
    BY <2>2, <2>3
<1>4. CASE Saved(p)
  BY <1>1, <1>2, <1>4, PlacesAnswered DEF Saved, Goto, Waiting
<1>5. CASE Suspend(p)
  <2>1. /\ AtSuspend(p) /\ Goto(p, "suspending") /\ UNCHANGED <<chain, calls>>
    BY <1>5 DEF Suspend
  <2>2. /\ pc[p] \in {"idle", "suspend"} /\ (p = "chain" => chain # <<>>)
        /\ (pc[p] \in {"suspend"} \/ chain # <<>>)
    BY <2>1 DEF AtSuspend
  <2>3. up /\ pc["start"] # "boot"
    BY <2>2, NotBooting
  <2> QED
    BY <1>1, <2>1, <2>2, <2>3, PlacesQuiet DEF Goto, Waiting
<1>6. CASE UpdateTiers(p)
  <2>1. /\ pc[p] \in {"suspending", "tierDiff"} /\ UNCHANGED <<chain, calls>>
        /\ (p = "chain" => chain # <<>>)
    BY <1>6 DEF UpdateTiers, Places, Busy
  <2>2. up /\ pc["start"] # "boot"
    BY <2>1, NotBooting
  <2>3. PICK at : at = AfterTiers(p) /\ Goto(p, at)
    BY <1>6 DEF UpdateTiers
  <2>4. at \in {"plan", "families", "idle"}
    BY <2>3 DEF AfterTiers
  <2>5. at \notin Waiting /\ pc[p] \notin Waiting \cup {"apply"}
    BY <2>1, <2>4 DEF Waiting
  <2> QED
    BY <1>1, <2>1, <2>2, <2>3, <2>5, PlacesQuiet DEF Goto
<1>7. CASE Persisted(p)
  <2>1. pc[p] = "persisting" /\ Head(calls) = p /\ calls' = Tail(calls) /\ UNCHANGED chain
    BY <1>7 DEF Persisted
  <2>2. PICK at \in {"idle", "tierDiff"} : Goto(p, at)
    BY <1>7 DEF Persisted, Done
  <2>3. at \notin Waiting /\ at # "apply" /\ pc[p] \in Waiting \ {"boot"} /\ p # "chain"
    BY <1>2, <2>1 DEF Waiting
  <2> QED
    BY <1>1, <2>1, <2>2, <2>3, PlacesAnswered DEF Goto
<1>8. CASE ReadFamilies(p)
  <2>1. pc[p] = "families" /\ UNCHANGED <<chain, calls>>
    BY <1>8 DEF ReadFamilies
  <2>2. PICK at \in {"idle", "decide"} : Goto(p, at)
    BY <1>8 DEF ReadFamilies, Done
  <2>3. up /\ pc["start"] # "boot"
    BY <2>1, NotBooting
  <2> QED
    BY <1>1, <1>2, <2>1, <2>2, <2>3, PlacesQuiet DEF Goto, Waiting
<1>9. CASE Reconcile(p)
  <2>1. pc[p] = "decide" /\ UNCHANGED calls
    BY <1>9 DEF Reconcile
  <2>2. up /\ pc["start"] # "boot"
    BY <2>1, NotBooting
  <2>3. CASE Goto(p, "apply") /\ chain' = Append(chain, p)
    BY <1>1, <1>2, <2>1, <2>2, <2>3, PlacesApply DEF Goto, Waiting
  <2>4. CASE /\ pc' = [pc EXCEPT ![p] = "idle", !["sync"] =
                         IF ListEmpty(my[p].rules) /\ ~mem.control.paused THEN SyncPc ELSE @]
             /\ UNCHANGED chain
    <3>1. p # "sync"
      BY <2>1, Apart
    <3>2. PICK at : /\ at = IF ListEmpty(my[p].rules) /\ ~mem.control.paused THEN SyncPc
                                                                            ELSE pc["sync"]
                    /\ pc' = [pc EXCEPT ![p] = "idle", !["sync"] = at]
      BY <2>4, <3>1, NamedProcs DEF WorkTyped
    <3>3. at = pc["sync"] \/ (at = "fetch" /\ pc["sync"] = "idle")
      BY <3>2 DEF SyncPc
    <3> QED
      BY <1>1, <2>1, <2>2, <2>4, <3>2, <3>3, PlacesReconciled
  <2> QED
    BY <1>9, <2>3, <2>4 DEF Reconcile
<1>10. CASE SaveLine(p)
  <2>1. pc[p] = "lines" /\ Head(calls) = p /\ UNCHANGED chain
    BY <1>10 DEF SaveLine
  <2>2. PICK at : /\ Goto(p, at)
                  /\ \/ at = "idle" /\ calls' = Tail(calls)
                     \/ at = "saving" /\ calls' = Append(Tail(calls), p)
    BY <1>10 DEF SaveLine
  <2> QED
    BY <1>1, <1>2, <2>1, <2>2, PlacesAnswered DEF Goto, Waiting
<1> QED
  BY <1>3, <1>4, <1>5, <1>6, <1>7, <1>8, <1>9, <1>10 DEF Handler

LEMMA MessagePlaces ==
    ASSUME Places, WorkTyped, NEW o \in Slots,
           ReadFirst(o) \/ RemotePause(o) \/ AddLine(o) \/ SwitchTier(o)
    PROVE  Places'
<1>1. o \in Procs \ {"start", "chain"}
  BY ExtensionAssumption DEF Procs
<1>2. up /\ up' = up /\ pc[o] = "idle" /\ UNCHANGED chain /\ calls' = Append(calls, o)
  BY DEF ReadFirst, RemotePause, AddLine, SwitchTier, Receive
<1>3. PICK at \in {"reading", "saving", "lines", "persisting"} :
         pc' = [pc EXCEPT ![o] = at] /\ (at = "saving" => pc["start"] # "boot")
  BY DEF ReadFirst, RemotePause, AddLine, SwitchTier, Goto
<1> QED
  BY <1>1, <1>2, <1>3, PlacesCall DEF Waiting

LEMMA OtherPlaces ==
    ASSUME Places, WorkTyped, Inv,
           \/ Worker \/ Wake \/ Alarm \/ Publish \/ IdleTearDown \/ Kill \/ UNCHANGED vars
           \/ \E p \in Procs : ReadFails(p) \/ CallThrows(p)
    PROVE  Places'
<1>1. {"start", "sync", "chain"} \subseteq Procs
  BY NamedProcs
<1>2. \A p \in Procs : pc[p] # "idle" => up
  BY DEF Places, Down
<1>3. CASE Booted
  BY <1>3, PlacesBooted
<1>4. CASE PlanRules
  <2>1. /\ pc["chain"] = "plan" /\ pc' = [pc EXCEPT !["chain"] = "write"]
        /\ UNCHANGED <<up, chain, calls>>
    BY <1>4 DEF PlanRules, Goto
  <2>2. up /\ pc["start"] # "boot" /\ chain # <<>>
    BY <1>1, <2>1, NotBooting DEF Places, Busy
  <2> QED
    BY <1>1, <2>1, <2>2, PlacesQuiet DEF Waiting
<1>5. CASE WriteRules
  BY <1>5, PlacesEnd DEF WriteRules
<1>6. CASE Answer
  <2>1. /\ pc["sync"] = "fetch" /\ pc' = [pc EXCEPT !["sync"] = "answered"]
        /\ UNCHANGED <<up, chain, calls>>
    BY <1>6 DEF Answer, Goto
  <2> QED
    BY <1>1, <1>2, <2>1, PlacesQuiet DEF Waiting
<1>7. CASE Fetched
  <2>1. /\ pc["sync"] = "answered" /\ pc["start"] # "boot" /\ chain' = Append(chain, "sync")
        /\ pc' = [pc EXCEPT !["sync"] = "apply"] /\ UNCHANGED <<up, calls>>
    BY <1>7 DEF Fetched, Goto
  <2> QED
    BY <1>1, <1>2, <2>1, PlacesApply DEF Waiting
<1>8. CASE Alarm \/ RulesUpdated
  <2>1. up /\ UNCHANGED <<up, chain, calls>>
    BY <1>8 DEF Alarm, RulesUpdated
  <2>2. CASE pc["sync"] = "idle" /\ pc' = [pc EXCEPT !["sync"] = "fetch"]
    BY <1>1, <2>1, <2>2, PlacesQuiet DEF Waiting
  <2>3. CASE pc' = pc
    BY <2>1, <2>3, PlacesStay
  <2> QED
    BY <1>1, <1>8, <2>2, <2>3 DEF Alarm, RulesUpdated, Goto, SyncPc, WorkTyped
<1>9. CASE Publish \/ UNCHANGED vars
  BY <1>9, PlacesStay DEF Publish, vars
<1>10. ASSUME NEW p \in Procs, CallThrows(p) PROVE Places'
  <2>1. CASE p = "chain" /\ pc[p] \in {"suspending", "write"} /\ EndApply
    BY <2>1, PlacesEnd
  <2>2. CASE /\ p # "chain" /\ pc[p] \in {"suspending", "tierDiff"} /\ Done(p)
             /\ UNCHANGED <<stored, feed, news, up, mem, chain, calls>>
    <3>1. up /\ pc["start"] # "boot"
      BY <2>2, NotBooting
    <3> QED
      BY <2>2, <3>1, PlacesQuiet DEF Done, Goto, Waiting
  <2> QED
    BY <1>10, <2>1, <2>2 DEF CallThrows
<1>11. CASE IdleTearDown \/ Kill
  BY <1>11, PlacesDown DEF IdleTearDown, Kill
<1>12. CASE \E p \in Procs : ReadFails(p)
  BY <1>12, PlacesStay DEF ReadFails
<1> QED
  BY <1>3, <1>4, <1>5, <1>6, <1>7, <1>8, <1>9, <1>10, <1>11, <1>12, PlacesWake DEF Worker

LEMMA OtherWork ==
    ASSUME Places, WorkTyped, WorldTyped, Inv,
           \/ Worker \/ Wake \/ Alarm \/ Publish \/ IdleTearDown \/ Kill \/ UNCHANGED vars
           \/ \E p \in Procs : ReadFails(p) \/ CallThrows(p)
    PROVE  WorkTyped'
<1>1. CASE Booted \/ PlanRules \/ Answer \/ Fetched \/ RulesUpdated
  BY <1>1, WorkerWork
<1>2. CASE WriteRules
  <2>1. Head(chain) \in Procs
    BY <1>2, PlacesEnd DEF WriteRules
  <2> QED
    BY <1>2, <2>1, EndApplyWork DEF WriteRules
<1>3. ASSUME NEW p \in Procs, CallThrows(p) PROVE WorkTyped'
  <2>1. CASE p = "chain" /\ pc[p] \in {"suspending", "write"} /\ EndApply
    <3>1. Head(chain) \in Procs
      BY <2>1, PlacesEnd
    <3> QED
      BY <2>1, <3>1, EndApplyWork
  <2>2. CASE Done(p)
    BY <2>2, BlankTyped, WorkMoves DEF Done, Goto, Pcs
  <2> QED
    BY <1>3, <2>1, <2>2 DEF CallThrows
<1>4. CASE Alarm
  BY <1>4, NamedProcs, WorkGoes DEF Alarm, Goto, Pcs
<1>5. CASE Publish \/ UNCHANGED vars
  BY <1>5, WorkStays DEF Publish, vars
<1> QED
  BY <1>1, <1>2, <1>3, <1>4, <1>5, FailedReadWork, WakeWork, TearDownWork
  DEF Worker, IdleTearDown, Kill

-----------------------------------------------------------------------------

Typed == Inv /\ WorldTyped /\ WorkTyped /\ Places

LEMMA TypedNext ==
    ASSUME Typed, [Next]_vars
    PROVE  Typed'
<1>1. Inv'
  BY NextInv DEF Typed
<1>2. CASE \E p \in Procs : Handler(p)
  BY <1>1, <1>2, HandlerWorld, HandlerWork, HandlerPlaces DEF Typed
<1>3. CASE \E o \in Slots : ReadFirst(o) \/ RemotePause(o) \/ AddLine(o) \/ SwitchTier(o)
  BY <1>1, <1>3, MessageWorld, MessageWork, MessagePlaces DEF Typed
<1>4. CASE \/ Worker \/ Wake \/ Alarm \/ Publish \/ IdleTearDown \/ Kill \/ UNCHANGED vars
           \/ \E p \in Procs : ReadFails(p) \/ CallThrows(p)
  <2>1. WorldTyped'
    BY <1>4, WorkerWorld, OtherWorld DEF Typed
  <2>2. WorkTyped' /\ Places'
    BY <1>4, OtherWork, OtherPlaces DEF Typed
  <2> QED
    BY <1>1, <2>1, <2>2 DEF Typed
<1> QED
  BY <1>2, <1>3, <1>4 DEF Next

LEMMA TypedIsTypeOK == Typed => TypeOK
<1> SUFFICES ASSUME Typed PROVE TypeOK
  OBVIOUS
<1>1. /\ stored \in [control : Control, custom : SUBSET Lines, tiers : SUBSET Tiers]
      /\ browser \in [rules : Dynamic, tiers : SUBSET Tiers]
      /\ mem \in [control : Control, list : 0..Versions, tiers : SUBSET Tiers,
                  suspended : BOOLEAN]
      /\ news \in BOOLEAN /\ up \in BOOLEAN /\ marred \in BOOLEAN
  BY DEF Typed, WorldTyped, Stores, Browsers, Memories
<1>2. feed \in 1..Versions /\ events \in 0..MaxEvents
  BY Numbers DEF Typed, WorldTyped
<1>3. pc \in [Procs -> Pcs]
  BY DEF Typed, WorkTyped
<1>4. chain \in Seq(Procs \ {"chain"}) /\ IsInjective(chain)
  BY DEF Typed, Places, ChainPlaces, IsInjective
<1>5. calls \in Seq(Procs) /\ IsInjective(calls)
  BY DEF Typed, Places, CallPlaces, IsInjective
<1> QED
  BY <1>1, <1>2, <1>3, <1>4, <1>5 DEF TypeOK, Pcs

\* Every variable keeps its type, for any number of handlers: no process is queued for an
\* apply twice, and none has two storage calls unanswered (applyChain, the awaits of index.ts).
THEOREM TypesHold == Spec => []TypeOK
<1>1. Init => Typed
  BY InitInv, TypedInit, PlacesInit DEF Typed
<1> QED
  BY <1>1, TypedNext, TypedIsTypeOK, PTL DEF Spec

-----------------------------------------------------------------------------
(* Whatever is not enforced yet, somebody will enforce.                     *)

\* The start block reads the site control, and switches the tiers, for its reconcile.
StartKind == pc["start"] \in {"reading", "suspend", "suspending"} => my["start"].kind = "start"

\* A worker that met no stale answer remembers what is stored.
Agree == up /\ ~marred /\ pc["start"] # "boot" => mem.control = stored.control

\* These rules hold the decisions and the lines that are to be enforced.
Intended(rules) ==
    /\ rules.user = Planned(mem.control)
    /\ ~mem.control.paused /\ rules.list \notin Tight => stored.custom \subseteq rules.custom

\* An apply is queued that has not read yet what it will write, or will be.
ApplyDue ==
    \/ \E p \in Procs : pc[p] = "saving"
    \/ chain # <<>> /\ (pc["chain"] # "write" \/ Len(chain) >= 2)

\* The start block will look at the installed rules, or has seen that they are not right.
StartRepairs ==
    \/ pc["start"] \in {"boot", "reading", "suspend", "suspending", "families"}
    \/ pc["start"] = "decide" /\ ~Intended(my["start"].rules)

WriteIntended ==
    /\ pc["chain"] = "write" /\ my["chain"].control = mem.control
    /\ stored.custom \subseteq my["chain"].lines

RepairDue ==
    up /\ ~marred => \/ pc["start"] = "boot" \/ ApplyDue \/ WriteIntended
                     \/ pc["chain"] # "write" /\ (Intended(browser.rules) \/ StartRepairs)

Repair == StartKind /\ Agree /\ RepairDue

\* Nothing that is to be enforced changes, and no fault is forgotten.
Unasked ==
    /\ mem'.control = mem.control /\ stored'.control = stored.control
    /\ stored'.custom = stored.custom /\ browser'.rules = browser.rules
    /\ up' = up /\ (marred => marred')

\* A step that leaves what is due, due.
LEMMA RepairKept ==
    ASSUME Repair, Unasked, UNCHANGED chain,
           \A q \in Procs : pc[q] = "saving" => pc'[q] = "saving",
           \/ pc'["chain"] = pc["chain"] /\ my'["chain"] = my["chain"]
           \/ pc["chain"] # "write" /\ pc'["chain"] # "write",
           \/ pc'["start"] = pc["start"] /\ my'["start"] = my["start"]
           \/ /\ pc["start"] # "boot" /\ pc'["start"] # "boot"
              /\ StartRepairs => StartRepairs' \/ Intended(browser.rules),
           StartKind'
    PROVE  Repair'
<1>1. Intended(browser.rules)' <=> Intended(browser.rules)
  BY DEF Unasked, Intended
<1>2. pc'["start"] = pc["start"] /\ my'["start"] = my["start"] => (StartRepairs' <=> StartRepairs)
  BY DEF Unasked, Intended, StartRepairs
<1>3. StartRepairs => StartRepairs' \/ Intended(browser.rules)'
  BY <1>1, <1>2
<1>4. pc["start"] = "boot" <=> pc'["start"] = "boot"
  OBVIOUS
<1>5. Agree'
  BY <1>4 DEF Repair, Agree, Unasked
<1>6. ApplyDue => ApplyDue'
  BY DEF ApplyDue
<1>7. WriteIntended => WriteIntended'
  BY DEF WriteIntended, Unasked
<1>8. RepairDue'
  <2> SUFFICES ASSUME up', ~marred'
               PROVE  (\/ pc["start"] = "boot" \/ ApplyDue \/ WriteIntended
                       \/ pc["chain"] # "write" /\ (Intended(browser.rules) \/ StartRepairs))'
    BY DEF RepairDue
  <2>1. up /\ ~marred
    BY DEF Unasked
  <2>2. \/ pc["start"] = "boot" \/ ApplyDue \/ WriteIntended
        \/ pc["chain"] # "write" /\ (Intended(browser.rules) \/ StartRepairs)
    BY <2>1 DEF Repair, RepairDue
  <2> QED
    BY <1>1, <1>3, <1>4, <1>6, <1>7, <2>2
<1> QED
  BY <1>5, <1>8 DEF Repair

\* A step after which an apply is due.
LEMMA RepairAsked ==
    ASSUME StartKind', Agree', ApplyDue'
    PROVE  Repair'
BY DEF Repair, RepairDue

\* A step that brings a fault, or ends the worker.
LEMMA RepairOff ==
    ASSUME StartKind', marred' \/ ~up'
    PROVE  Repair'
BY DEF Repair, RepairDue, Agree

LEMMA AgreeKept ==
    ASSUME Agree, mem'.control = mem.control, stored'.control = stored.control, up' = up,
           marred => marred', pc["start"] = "boot" => pc'["start"] = "boot"
    PROVE  Agree'
BY DEF Agree

\* A queue with one more apply is due, whatever the apply at its head has read.
LEMMA QueuedIsDue ==
    ASSUME Places, chain' # <<>>, chain # <<>> => Len(chain') >= 2,
           pc'["chain"] = pc["chain"]
    PROVE  ApplyDue'
BY DEF Places, Busy, ApplyDue

\* What a change of one field leaves of the others.
LEMMA FieldsKept ==
    ASSUME WorldTyped
    PROVE  /\ \A v : [mem EXCEPT !.control = v].control = v
           /\ \A v : [mem EXCEPT !.tiers = v].control = mem.control
           /\ \A v : [mem EXCEPT !.suspended = v].control = mem.control
           /\ \A v : [stored EXCEPT !.control = v].control = v
           /\ \A v : [stored EXCEPT !.tiers = v].control = stored.control
           /\ \A v : [stored EXCEPT !.tiers = v].custom = stored.custom
           /\ \A v : [stored EXCEPT !.custom = v].control = stored.control
           /\ \A v : [browser EXCEPT !.tiers = v].rules = browser.rules
           /\ \A v : [browser EXCEPT !.rules = v].rules = v
BY DEF WorldTyped, Stores, Memories, Browsers

LEMMA StartKindOther ==
    ASSUME StartKind,
           \/ pc'["start"] = pc["start"] /\ my'["start"] = my["start"]
           \/ pc'["start"] \notin {"reading", "suspend", "suspending"}
    PROVE  StartKind'
BY DEF StartKind

\* One process moves on: the start block or another one.
LEMMA OthersWork ==
    ASSUME WorkTyped, NEW p \in Procs, NEW at, pc' = [pc EXCEPT ![p] = at],
           NEW job, my' = my \/ my' = [my EXCEPT ![p] = job]
    PROVE  \A q \in Procs \ {p} : pc'[q] = pc[q] /\ my'[q] = my[q]
BY DEF WorkTyped

LEMMA ControlReadRepair ==
    ASSUME Typed, Repair, NEW p \in Procs, ControlRead(p)
    PROVE  Repair'
<1>1. /\ pc[p] = "reading" /\ Head(calls) = p /\ UNCHANGED <<browser, up, chain>>
      /\ my[p].kind \in Readers
  BY DEF ControlRead, Typed, WorkTyped
<1>2. p \notin {"chain", "sync"} /\ {"start", "chain"} \subseteq Procs
  BY <1>1, Apart, NamedProcs DEF Typed
<1>3. pc["start"] # "boot" /\ up
  BY <1>1, NotBooting DEF Typed, Places, Waiting
<1>4. WorkTyped /\ WorldTyped
  BY DEF Typed
<1>5. CASE my[p].kind \in Decisions
  <2>1. /\ Goto(p, "saving") /\ Saves(Decided(my[p].control, my[p]), 0)
        /\ my' = [my EXCEPT ![p] = [Blank EXCEPT !.kind = my[p].kind]]
    BY <1>5 DEF ControlRead, Decisions
  <2>2. marred' \/ mem'.control = stored'.control
    BY <1>4, <2>1, FieldsKept, StoreFields DEF Saves
  <2>3. pc'[p] = "saving" /\ \A q \in Procs \ {p} : pc'[q] = pc[q] /\ my'[q] = my[q]
    BY <1>4, <2>1 DEF Goto, WorkTyped
  <2>4. StartKind' /\ Agree' /\ ApplyDue'
    BY <1>2, <2>2, <2>3, StartKindOther DEF Repair, Agree, ApplyDue
  <2> QED
    BY <2>4, RepairAsked
<1>6. CASE my[p].kind \notin Decisions
  <2>1. /\ TakeControl(p) /\ Goto(p, AfterRead(my[p].kind)) /\ UNCHANGED stored
        /\ my' = [my EXCEPT ![p] = IF my[p].kind = "view" THEN Blank
                                   ELSE [Blank EXCEPT !.kind = my[p].kind]]
    BY <1>6 DEF ControlRead
  <2>2. mem'.control = my[p].control /\ marred' = (marred \/ my[p].control # stored.control)
    BY <1>4, <2>1, FieldsKept DEF TakeControl
  <2>3. /\ pc'[p] = AfterRead(my[p].kind) /\ (my[p].kind = "start" => my'[p].kind = "start")
        /\ \A q \in Procs \ {p} : pc'[q] = pc[q] /\ my'[q] = my[q]
    BY <1>4, <2>1 DEF Goto, WorkTyped, Blank
  <2>4. p = "start" => my[p].kind = "start" /\ pc'["start"] = "suspend"
    BY <1>1, <2>3 DEF Repair, StartKind, AfterRead
  <2>5. StartKind'
    <3>1. CASE p = "start"
      BY <2>3, <2>4, <3>1 DEF StartKind
    <3>2. CASE p # "start"
      BY <1>2, <2>3, <3>2, StartKindOther DEF Repair
    <3> QED
      BY <3>1, <3>2
  <2>6. CASE marred'
    BY <2>5, <2>6, RepairOff
  <2>7. CASE ~marred'
    <3>1. mem'.control = mem.control
      BY <1>3, <2>2, <2>7 DEF Repair, Agree
    <3>2. Unasked
      BY <1>1, <2>1, <2>2, <3>1 DEF Unasked
    <3>3. \/ pc'["start"] = pc["start"] /\ my'["start"] = my["start"]
          \/ pc["start"] # "boot" /\ pc'["start"] # "boot" /\ StartRepairs'
      BY <1>2, <1>3, <2>3, <2>4 DEF StartRepairs
    <3>4. /\ \A q \in Procs : pc[q] = "saving" => pc'[q] = "saving"
          /\ pc'["chain"] = pc["chain"] /\ my'["chain"] = my["chain"]
      BY <1>1, <1>2, <2>3
    <3> QED
      BY <1>1, <2>5, <3>2, <3>3, <3>4, RepairKept
  <2> QED
    BY <2>6, <2>7
<1> QED
  BY <1>5, <1>6

\* A process that is not the start block at its reconcile leaves what is due, due.
LEMMA BystanderRepair ==
    ASSUME Typed, Repair, Unasked, UNCHANGED chain, NEW p \in Procs \ {"chain"},
           NEW at, NEW job, pc' = [pc EXCEPT ![p] = at], my' = my \/ my' = [my EXCEPT ![p] = job],
           pc[p] # "saving",
           p = "start" => pc[p] \in {"lines", "persisting", "tierDiff"} /\ at \in {"idle", "tierDiff"}
    PROVE  Repair'
<1>1. pc'[p] = at /\ \A q \in Procs \ {p} : pc'[q] = pc[q] /\ my'[q] = my[q]
  BY OthersWork, MovesApart DEF Typed
<1>2. {"start", "chain"} \subseteq Procs
  BY NamedProcs
<1>3. StartKind'
  BY <1>1, <1>2, StartKindOther DEF Repair
<1>4. \/ pc'["start"] = pc["start"] /\ my'["start"] = my["start"]
      \/ pc["start"] # "boot" /\ pc'["start"] # "boot" /\ ~StartRepairs
  BY <1>1, <1>2 DEF StartRepairs
<1> QED
  BY <1>1, <1>2, <1>3, <1>4, RepairKept

LEMMA SavedRepair ==
    ASSUME Typed, Repair, NEW p \in Procs, Saved(p)
    PROVE  Repair'
<1>1. /\ pc[p] = "saving" /\ Head(calls) = p /\ pc' = [pc EXCEPT ![p] = "apply"]
      /\ calls' = Tail(calls) /\ chain' = Append(chain, p) /\ UNCHANGED <<stored, mem, my, up, marred>>
  BY DEF Saved, Goto
<1>2. p # "chain" /\ {"start", "chain"} \subseteq Procs
  BY <1>1, Apart, NamedProcs DEF Typed
<1>3. pc'[p] = "apply" /\ \A q \in Procs \ {p} : pc'[q] = pc[q]
  BY <1>1, MovesApart DEF Typed
<1>4. /\ pc["start"] # "boot" /\ chain' # <<>>
      /\ chain # <<>> => Len(chain') >= 2
  BY <1>1, <1>2, PlacesAnswered DEF Typed, Waiting
<1>5. StartKind' /\ Agree'
  BY <1>1, <1>2, <1>3, <1>4, StartKindOther DEF Repair, Agree
<1>6. ApplyDue'
  BY <1>2, <1>3, <1>4, QueuedIsDue DEF Typed
<1> QED
  BY <1>5, <1>6, RepairAsked

LEMMA SuspendRepair ==
    ASSUME Typed, Repair, NEW p \in Procs, Suspend(p)
    PROVE  Repair'
<1>1. PICK seen :
         /\ AtSuspend(p) /\ pc' = [pc EXCEPT ![p] = "suspending"]
         /\ mem' = [mem EXCEPT !.suspended = mem.control.paused]
         /\ my' = [my EXCEPT ![p].tiers = seen, ![p].paused = mem.control.paused]
         /\ IF seen = {Unread} THEN Fault ELSE NoFault
         /\ UNCHANGED <<stored, browser, up, chain>>
  BY DEF Suspend, Goto
<1>2. pc'[p] = "suspending" /\ \A q \in Procs \ {p} : pc'[q] = pc[q] /\ my'[q] = my[q]
  BY <1>1, MovesApart DEF Typed, WorkTyped
<1>3. my'[p].kind = my[p].kind
  BY <1>1 DEF Typed, WorkTyped, Jobs
<1>4. {"start", "chain"} \subseteq Procs
  BY NamedProcs
<1>5. p # "chain" => pc[p] = "suspend"
  BY <1>1 DEF AtSuspend
<1>6. p = "chain" => pc[p] = "idle"
  BY <1>1 DEF AtSuspend
<1>7. StartKind'
  BY <1>2, <1>3, <1>4, <1>5 DEF Repair, StartKind
<1>8. Unasked
  BY <1>1, FieldsKept DEF Unasked, Typed, Fault, NoFault
<1>9. \A q \in Procs : pc[q] = "saving" => pc'[q] = "saving"
  BY <1>2, <1>5, <1>6
<1>10. \/ pc'["chain"] = pc["chain"] /\ my'["chain"] = my["chain"]
       \/ pc["chain"] # "write" /\ pc'["chain"] # "write"
  BY <1>2, <1>4, <1>6
<1>11. \/ pc'["start"] = pc["start"] /\ my'["start"] = my["start"]
       \/ pc["start"] # "boot" /\ pc'["start"] # "boot" /\ StartRepairs'
  BY <1>2, <1>4, <1>5 DEF StartRepairs
<1> QED
  BY <1>1, <1>7, <1>8, <1>9, <1>10, <1>11, RepairKept

LEMMA UpdateTiersRepair ==
    ASSUME Typed, Repair, NEW p \in Procs, UpdateTiers(p)
    PROVE  Repair'
<1>1. PICK at, job, t :
         /\ pc[p] \in {"suspending", "tierDiff"} /\ at = AfterTiers(p)
         /\ pc' = [pc EXCEPT ![p] = at] /\ my' = [my EXCEPT ![p] = job]
         /\ browser' = [browser EXCEPT !.tiers = t]
         /\ UNCHANGED <<stored, mem, up, chain, marred>>
  BY DEF UpdateTiers, Goto
<1>2. Unasked
  BY <1>1, FieldsKept DEF Unasked, Typed
<1>3. {"start", "chain"} \subseteq Procs
  BY NamedProcs
<1>4. CASE p = "chain" \/ (p = "start" /\ pc[p] = "suspending")
  <2>1. pc'[p] = at /\ \A q \in Procs \ {p} : pc'[q] = pc[q] /\ my'[q] = my[q]
    BY <1>1, OthersWork, MovesApart DEF Typed
  <2>2. /\ p = "chain" => at = "plan"
        /\ p = "start" => at = "families"
    BY <1>1, <1>4 DEF AfterTiers, Repair, StartKind
  <2>3. StartKind'
    BY <1>3, <1>4, <2>1, <2>2, StartKindOther DEF Repair
  <2>4. \A q \in Procs : pc[q] = "saving" => pc'[q] = "saving"
    BY <1>1, <2>1
  <2>5. \/ pc'["chain"] = pc["chain"] /\ my'["chain"] = my["chain"]
        \/ pc["chain"] # "write" /\ pc'["chain"] # "write"
    BY <1>1, <1>3, <2>1, <2>2
  <2>6. \/ pc'["start"] = pc["start"] /\ my'["start"] = my["start"]
        \/ pc["start"] # "boot" /\ pc'["start"] # "boot" /\ StartRepairs'
    BY <1>1, <1>3, <1>4, <2>1, <2>2 DEF StartRepairs
  <2> QED
    BY <1>1, <1>2, <2>3, <2>4, <2>5, <2>6, RepairKept
<1>5. CASE p # "chain" /\ p # "start"
  BY <1>1, <1>2, <1>5, BystanderRepair
<1>6. CASE p = "start" /\ pc[p] = "tierDiff"
  <2>1. pc'[p] = at /\ \A q \in Procs \ {p} : pc'[q] = pc[q] /\ my'[q] = my[q]
    BY <1>1, OthersWork, MovesApart DEF Typed
  <2>2. at \in {"families", "idle"}
    BY <1>1, <1>6 DEF AfterTiers
  <2>3. StartKind'
    BY <1>3, <1>6, <2>1, <2>2, StartKindOther DEF Repair
  <2>4. /\ \A q \in Procs : pc[q] = "saving" => pc'[q] = "saving"
        /\ pc'["chain"] = pc["chain"] /\ my'["chain"] = my["chain"]
    BY <1>3, <1>6, <2>1
  <2>5. pc["start"] # "boot" /\ pc'["start"] # "boot" /\ ~StartRepairs
    BY <1>6, <2>1, <2>2 DEF StartRepairs
  <2> QED
    BY <1>1, <1>2, <2>3, <2>4, <2>5, RepairKept
<1> QED
  BY <1>1, <1>4, <1>5, <1>6

LEMMA QuietRepair ==
    ASSUME Typed, Repair, NEW p \in Procs, Persisted(p) \/ SaveLine(p)
    PROVE  Repair'
<1>1. p # "chain"
  BY Apart DEF Typed, Persisted, SaveLine
<1>2. CASE Persisted(p)
  <2>1. /\ pc[p] = "persisting" /\ UNCHANGED <<stored, browser, up, mem, chain>>
        /\ (marred => marred')
        /\ \E at \in {"idle", "tierDiff"} : pc' = [pc EXCEPT ![p] = at]
    BY <1>2 DEF Persisted, Done, Goto, NoFault, Fault
  <2>2. PICK job : my' = [my EXCEPT ![p] = job]
    <3>1. CASE Done(p)
      BY <3>1 DEF Done
    <3>2. CASE my' = [my EXCEPT ![p].tiers = browser.tiers]
      BY <3>2
    <3> QED
      BY <1>2, <3>1, <3>2 DEF Persisted
  <2>3. Unasked
    BY <2>1 DEF Unasked
  <2> QED
    BY <1>1, <2>1, <2>2, <2>3, BystanderRepair
<1>3. CASE SaveLine(p)
  <2>1. /\ pc[p] = "lines" /\ UNCHANGED <<browser, up, mem, chain>>
        /\ my' = [my EXCEPT ![p] = Blank]
    BY <1>3 DEF SaveLine
  <2>2. CASE UNCHANGED <<stored, marred>> /\ pc' = [pc EXCEPT ![p] = "idle"]
    <3>1. Unasked
      BY <2>1, <2>2 DEF Unasked
    <3> QED
      BY <1>1, <2>1, <2>2, <3>1, BystanderRepair
  <2>3. CASE /\ pc' = [pc EXCEPT ![p] = "saving"]
             /\ \E l : Store([stored EXCEPT !.custom = l], 0)
    <3>1. pc'[p] = "saving" /\ \A q \in Procs \ {p} : pc'[q] = pc[q] /\ my'[q] = my[q]
      BY <2>1, <2>3, MovesApart, OthersWork DEF Typed
    <3>2. stored'.control = stored.control /\ (marred => marred')
      BY <2>3, StoreFields DEF Typed
    <3>3. StartKind' /\ Agree'
      BY <2>1, <3>1, <3>2, NamedProcs, StartKindOther DEF Repair, Agree
    <3>4. ApplyDue'
      BY <3>1 DEF ApplyDue
    <3> QED
      BY <3>3, <3>4, RepairAsked
  <2> QED
    BY <1>3, <2>2, <2>3 DEF SaveLine, Goto
<1> QED
  BY <1>2, <1>3

LEMMA ReadFamiliesRepair ==
    ASSUME Typed, Repair, NEW p \in Procs, ReadFamilies(p)
    PROVE  Repair'
<1>1. pc[p] = "families" /\ UNCHANGED <<stored, browser, up, mem, chain>>
  BY DEF ReadFamilies
<1>2. p # "chain" /\ {"start", "chain"} \subseteq Procs
  BY <1>1, Apart, NamedProcs DEF Typed
<1>3. CASE Goto(p, "decide") /\ my' = [my EXCEPT ![p].rules = browser.rules] /\ NoFault
  <2>1. /\ pc'[p] = "decide" /\ my'[p].rules = browser.rules
        /\ \A q \in Procs \ {p} : pc'[q] = pc[q] /\ my'[q] = my[q]
    BY <1>3 DEF Goto, Typed, WorkTyped, Jobs
  <2>2. Unasked
    BY <1>1, <1>3 DEF Unasked, NoFault
  <2>3. StartKind'
    BY <1>2, <2>1, StartKindOther DEF Repair
  <2>4. Intended(browser.rules)' <=> Intended(browser.rules)
    BY <2>2 DEF Unasked, Intended
  <2>5. p = "start" => StartRepairs' \/ Intended(browser.rules)
    BY <1>1, <2>1, <2>4 DEF StartRepairs, Intended
  <2>6. \/ pc'["start"] = pc["start"] /\ my'["start"] = my["start"]
        \/ /\ pc["start"] # "boot" /\ pc'["start"] # "boot"
           /\ StartRepairs => StartRepairs' \/ Intended(browser.rules)
    BY <1>1, <1>2, <2>1, <2>5
  <2>7. /\ \A q \in Procs : pc[q] = "saving" => pc'[q] = "saving"
        /\ pc'["chain"] = pc["chain"] /\ my'["chain"] = my["chain"]
    BY <1>1, <1>2, <2>1
  <2> QED
    BY <1>1, <2>2, <2>3, <2>6, <2>7, RepairKept
<1>4. CASE Fault /\ Done(p)
  <2>1. pc'[p] = "idle" /\ \A q \in Procs \ {p} : pc'[q] = pc[q] /\ my'[q] = my[q]
    BY <1>4 DEF Done, Goto, Typed, WorkTyped
  <2>2. StartKind'
    BY <1>2, <2>1, StartKindOther DEF Repair
  <2> QED
    BY <1>4, <2>2, RepairOff DEF Fault
<1> QED
  BY <1>3, <1>4 DEF ReadFamilies

LEMMA ReconcileRepair ==
    ASSUME Typed, Repair, NEW p \in Procs, Reconcile(p)
    PROVE  Repair'
<1>0. PICK lines :
         /\ LoadLines(lines)
         /\ IF \/ DecisionsDiffer(my[p].rules, mem.control)
               \/ LinesMissing(my[p].rules, lines, mem.control)
            THEN Goto(p, "apply") /\ chain' = Append(chain, p)
            ELSE /\ pc' = [pc EXCEPT ![p] = "idle", !["sync"] =
                             IF ListEmpty(my[p].rules) /\ ~mem.control.paused THEN SyncPc ELSE @]
                 /\ UNCHANGED chain
  BY DEF Reconcile
<1>1. /\ pc[p] = "decide" /\ UNCHANGED <<stored, browser, up, mem, calls>> /\ (marred => marred')
      /\ my' = [my EXCEPT ![p] = Blank] /\ (marred' \/ lines = stored.custom)
  BY <1>0 DEF Reconcile, LoadLines, NoFault, Fault
<1>2. p # "chain" /\ p # "sync" /\ {"start", "chain", "sync"} \subseteq Procs
  BY <1>1, Apart, NamedProcs DEF Typed
<1>3. pc["start"] # "boot" /\ up
  BY <1>1, NotBooting DEF Typed
<1>4. \A q \in Procs \ {p} : my'[q] = my[q]
  BY <1>1 DEF Typed, WorkTyped
<1>5. CASE Goto(p, "apply") /\ chain' = Append(chain, p)
  <2>1. pc'[p] = "apply" /\ \A q \in Procs \ {p} : pc'[q] = pc[q]
    BY <1>5, MovesApart DEF Goto, Typed
  <2>2. chain' # <<>> /\ (chain # <<>> => Len(chain') >= 2)
    BY <1>1, <1>2, <1>3, <1>5, PlacesApply DEF Goto, Typed, Waiting
  <2>3. StartKind' /\ Agree'
    BY <1>1, <1>2, <1>3, <1>4, <2>1, StartKindOther DEF Repair, Agree
  <2>4. ApplyDue'
    BY <1>2, <2>1, <2>2, QueuedIsDue DEF Typed
  <2> QED
    BY <2>3, <2>4, RepairAsked
<1>6. CASE /\ ~DecisionsDiffer(my[p].rules, mem.control)
           /\ ~LinesMissing(my[p].rules, lines, mem.control)
           /\ pc' = [pc EXCEPT ![p] = "idle", !["sync"] =
                       IF ListEmpty(my[p].rules) /\ ~mem.control.paused THEN SyncPc ELSE @]
           /\ UNCHANGED chain
  <2>1. marred' \/ Intended(my[p].rules)
    BY <1>1, <1>6 DEF Intended, DecisionsDiffer, LinesMissing
  <2>2. /\ pc'[p] = "idle" /\ (pc'["sync"] = pc["sync"] \/ pc["sync"] = "idle")
        /\ \A q \in Procs \ {p, "sync"} : pc'[q] = pc[q]
    BY <1>2, <1>6 DEF Typed, WorkTyped, SyncPc
  <2>3. Unasked
    BY <1>1 DEF Unasked
  <2>4. StartKind'
    BY <1>2, <1>4, <2>2, NamedProcs, StartKindOther DEF Repair
  <2>5. \/ pc'["start"] = pc["start"] /\ my'["start"] = my["start"]
        \/ pc["start"] # "boot" /\ pc'["start"] # "boot" /\ (marred' \/ ~StartRepairs)
    BY <1>1, <1>2, <1>4, <2>1, <2>2 DEF StartRepairs
  <2>6. /\ \A q \in Procs : pc[q] = "saving" => pc'[q] = "saving"
        /\ pc'["chain"] = pc["chain"] /\ my'["chain"] = my["chain"]
    BY <1>1, <1>2, <1>4, <2>2
  <2> QED
    BY <1>6, <2>3, <2>4, <2>5, <2>6, RepairKept, RepairOff
<1> QED
  BY <1>0, <1>5, <1>6

LEMMA HandlerRepair ==
    ASSUME Typed, Repair, NEW p \in Procs, Handler(p)
    PROVE  Repair'
BY ControlReadRepair, SavedRepair, SuspendRepair, UpdateTiersRepair, QuietRepair,
   ReadFamiliesRepair, ReconcileRepair DEF Handler

\* What the apply wrote is what is to be enforced, if that is what it had read.
LEMMA InstalledIntended ==
    ASSUME NEW job, job.control = mem.control, stored.custom \subseteq job.lines,
           NEW rules \in Installed(job)
    PROVE  Intended(rules)
<1>1. CASE mem.control.paused
  BY <1>1 DEF Intended, Installed, Planned, NoRules
<1>2. CASE ~mem.control.paused
  <2>1. PICK kept : kept = IF job.list = None THEN job.rules.custom \ job.lines ELSE {}
    OBVIOUS
  <2>2. PICK list : list = IF job.list = None THEN job.rules.list ELSE job.list
    OBVIOUS
  <2>3. PICK placed \in Placed(list, job.lines) :
           rules = [user |-> job.control.sites, list |-> list, custom |-> kept \cup placed]
    BY <1>2, <2>1, <2>2 DEF Installed
  <2>4. list \notin Tight => placed = job.lines
    BY <2>3 DEF Placed
  <2> QED
    BY <1>2, <2>3, <2>4 DEF Intended, Planned
<1> QED
  BY <1>1, <1>2

LEMMA WriteRepair ==
    ASSUME Typed, Repair, WriteRules
    PROVE  Repair'
<1>0. PICK rules \in Installed(my["chain"]) : browser' = [browser EXCEPT !.rules = rules]
  BY DEF WriteRules
<1>1. pc["chain"] = "write" /\ EndApply /\ UNCHANGED <<stored, mem, up, marred>>
  BY DEF WriteRules, EndApply, NoFault
<1>2. PICK own : own = Head(chain)
  OBVIOUS
<1>3. /\ up /\ pc["start"] # "boot" /\ own \in Procs \ {"chain"}
      /\ pc'["chain"] = "idle" /\ pc'[own] = "idle" /\ pc[own] = "apply"
      /\ \A q \in Procs \ {"chain", own} : pc'[q] = pc[q] /\ my'[q] = my[q]
      /\ Len(chain) >= 2 => chain' # <<>>
  BY <1>1, <1>2, PlacesEnd DEF Typed
<1>4. {"start", "chain"} \subseteq Procs
  BY NamedProcs
<1>5. pc'["start"] = "idle" \/ (pc'["start"] = pc["start"] /\ my'["start"] = my["start"])
  BY <1>3, <1>4
<1>6. StartKind'
  BY <1>5, StartKindOther DEF Repair
<1>7. Agree'
  BY <1>1, <1>3 DEF Repair, Agree
<1>8. CASE marred
  BY <1>1, <1>6, <1>8, RepairOff
<1>9. CASE ~marred /\ ApplyDue
  <2>1. ASSUME NEW q \in Procs, pc[q] = "saving" PROVE pc'[q] = "saving"
    BY <1>1, <1>3, <2>1
  <2>2. ApplyDue'
    BY <1>1, <1>3, <1>9, <2>1 DEF ApplyDue
  <2> QED
    BY <1>6, <1>7, <2>2, RepairAsked
<1>10. CASE ~marred /\ ~ApplyDue
  <2>1. WriteIntended
    BY <1>1, <1>3, <1>10 DEF Repair, RepairDue
  <2>2. browser'.rules = rules
    BY <1>0, FieldsKept DEF Typed
  <2>3. Intended(browser.rules)'
    BY <1>1, <2>1, <2>2, InstalledIntended DEF WriteIntended, Intended
  <2> QED
    BY <1>3, <1>6, <1>7, <2>3 DEF Repair, RepairDue
<1> QED
  BY <1>8, <1>9, <1>10

LEMMA WorkerRepair ==
    ASSUME Typed, Repair, Worker
    PROVE  Repair'
<1>1. {"start", "sync", "chain"} \subseteq Procs
  BY NamedProcs
<1>2. WorkTyped /\ WorldTyped /\ Places /\ Inv
  BY DEF Typed
<1>3. CASE Booted
  <2>1. /\ pc' = [pc EXCEPT !["start"] = "reading"] /\ UNCHANGED <<stored, up>>
        /\ mem' = [mem EXCEPT !.control = my["start"].control, !.tiers = my["start"].tiers]
        /\ marred' = (marred \/ my["start"].control # stored.control)
        /\ my' = [my EXCEPT !["start"] = [Blank EXCEPT !.kind = "start",
                                                       !.control = stored.control]]
    BY <1>3 DEF Booted, Goto
  <2>2. pc'["start"] = "reading" /\ pc'["chain"] = pc["chain"] /\ my'["start"].kind = "start"
    BY <1>1, <1>2, <2>1 DEF WorkTyped, Blank
  <2>3. mem'.control = my["start"].control
    BY <1>2, <2>1 DEF WorldTyped, Memories
  <2>4. pc'["chain"] = "idle"
    BY <1>2, <1>3, <2>2, PlacesBooted
  <2> QED
    BY <2>1, <2>2, <2>3, <2>4 DEF Repair, StartKind, Agree, RepairDue, StartRepairs
<1>4. CASE PlanRules
  <2>1. PICK lines :
          /\ LoadLines(lines) /\ pc["chain"] = "plan" /\ pc' = [pc EXCEPT !["chain"] = "write"]
          /\ my' = [my EXCEPT !["chain"].lines = lines, !["chain"].control = mem.control,
                              !["chain"].list = mem.list, !["chain"].rules = browser.rules]
          /\ UNCHANGED <<stored, browser, up, mem, chain>>
    BY <1>4 DEF PlanRules, Goto
  <2>2. /\ pc'["chain"] = "write" /\ pc'["start"] = pc["start"] /\ my'["start"] = my["start"]
        /\ my'["chain"].lines = lines /\ my'["chain"].control = mem.control
    BY <1>1, <1>2, <2>1 DEF WorkTyped, Jobs
  <2>3. StartKind'
    BY <2>2, StartKindOther DEF Repair
  <2>4. CASE lines = stored.custom /\ NoFault
    <3>1. Agree'
      BY <2>1, <2>2, <2>4 DEF Repair, Agree, NoFault
    <3>2. WriteIntended'
      BY <2>1, <2>2, <2>4 DEF WriteIntended
    <3> QED
      BY <2>3, <3>1, <3>2 DEF Repair, RepairDue
  <2>5. CASE Fault
    BY <2>3, <2>5, RepairOff DEF Fault
  <2> QED
    BY <2>1, <2>4, <2>5 DEF LoadLines
<1>5. CASE Answer
  <2>1. /\ pc["sync"] = "fetch" /\ pc' = [pc EXCEPT !["sync"] = "answered"]
        /\ UNCHANGED <<stored, browser, up, mem, chain>> /\ (marred => marred')
    BY <1>5 DEF Answer, Goto, Fault, NoFault
  <2>2. my' = my \/ my' = [my EXCEPT !["sync"].list = feed]
    BY <1>5 DEF Answer
  <2>3. PICK job : my' = my \/ my' = [my EXCEPT !["sync"] = job]
    BY <2>2
  <2>4. Unasked
    BY <2>1 DEF Unasked
  <2> QED
    BY <1>1, <2>1, <2>3, <2>4, BystanderRepair
<1>6. CASE Fetched
  <2>1. /\ pc["sync"] = "answered" /\ pc["start"] # "boot" /\ chain' = Append(chain, "sync")
        /\ pc' = [pc EXCEPT !["sync"] = "apply"] /\ my' = [my EXCEPT !["sync"] = Blank]
        /\ UNCHANGED <<stored, up, calls, marred>>
        /\ \E v : mem' = [mem EXCEPT !.list = v]
    BY <1>6 DEF Fetched, Goto
  <2>2. mem'.control = mem.control
    BY <1>2, <2>1 DEF WorldTyped, Memories
  <2>3. \A q \in Procs \ {"sync"} : pc'[q] = pc[q] /\ my'[q] = my[q]
    BY <1>2, <2>1 DEF WorkTyped
  <2>4. up
    BY <1>1, <1>2, <2>1 DEF Places, Down
  <2>5. chain' # <<>> /\ (chain # <<>> => Len(chain') >= 2)
    BY <1>1, <1>2, <2>1, <2>4, PlacesApply DEF Waiting
  <2>6. StartKind' /\ Agree'
    BY <1>1, <2>1, <2>2, <2>3, StartKindOther DEF Repair, Agree
  <2>7. ApplyDue'
    BY <1>1, <1>2, <2>3, <2>5, QueuedIsDue
  <2> QED
    BY <2>6, <2>7, RepairAsked
<1>7. CASE RulesUpdated
  <2>1. /\ pc' = [pc EXCEPT !["sync"] = SyncPc]
        /\ UNCHANGED <<stored, browser, up, mem, my, chain, marred>>
    BY <1>7 DEF RulesUpdated, Goto
  <2>2. Unasked
    BY <2>1 DEF Unasked
  <2>3. pc["sync"] # "saving"
    BY <1>2, Apart
  <2> QED
    BY <1>1, <2>1, <2>2, <2>3, BystanderRepair
<1> QED
  BY <1>3, <1>4, <1>5, <1>6, <1>7, WriteRepair DEF Worker

LEMMA MessageRepair ==
    ASSUME Typed, Repair, NEW o \in Slots,
           ReadFirst(o) \/ RemotePause(o) \/ AddLine(o) \/ SwitchTier(o)
    PROVE  Repair'
<1>1. o \in Procs \ {"start", "chain"} /\ {"start", "chain"} \subseteq Procs
  BY ExtensionAssumption, NamedProcs DEF Procs
<1>2. pc[o] = "idle" /\ UNCHANGED <<browser, up, chain>>
  BY DEF ReadFirst, RemotePause, AddLine, SwitchTier, Receive
<1>3. CASE RemotePause(o)
  <2>1. /\ pc["start"] # "boot" /\ Saves(Decided(mem.control, [kind |-> PauseButton]), 1)
        /\ pc' = [pc EXCEPT ![o] = "saving"] /\ my' = my
    BY <1>3 DEF RemotePause, Goto
  <2>2. marred' \/ mem'.control = stored'.control
    BY <2>1, FieldsKept, StoreFields DEF Saves, Typed
  <2>3. pc'[o] = "saving" /\ pc'["start"] = pc["start"]
    BY <1>1, <2>1 DEF Typed, WorkTyped
  <2>4. StartKind' /\ Agree' /\ ApplyDue'
    BY <1>1, <2>1, <2>2, <2>3, StartKindOther DEF Repair, Agree, ApplyDue
  <2> QED
    BY <2>4, RepairAsked
<1>4. CASE ReadFirst(o)
  <2>1. pc' = [pc EXCEPT ![o] = "reading"] /\ UNCHANGED <<stored, mem, marred>>
    BY <1>4 DEF ReadFirst, Goto
  <2>2. PICK op : my' = [my EXCEPT ![o].kind = op.kind, ![o].arg = op.arg,
                                   ![o].control = stored.control]
    BY <1>4 DEF ReadFirst
  <2>3. PICK job : my' = [my EXCEPT ![o] = job]
    BY <2>2
  <2>4. Unasked
    BY <1>2, <2>1 DEF Unasked
  <2> QED
    BY <1>1, <1>2, <2>1, <2>3, <2>4, BystanderRepair
<1>5. CASE AddLine(o)
  <2>1. pc' = [pc EXCEPT ![o] = "lines"] /\ UNCHANGED <<stored, mem, marred>>
    BY <1>5 DEF AddLine, Goto
  <2>2. PICK l : my' = [my EXCEPT ![o].arg = l, ![o].lines = stored.custom]
    BY <1>5 DEF AddLine
  <2>3. PICK job : my' = [my EXCEPT ![o] = job]
    BY <2>2
  <2>4. Unasked
    BY <1>2, <2>1 DEF Unasked
  <2> QED
    BY <1>1, <1>2, <2>1, <2>3, <2>4, BystanderRepair
<1>6. CASE SwitchTier(o)
  <2>1. pc' = [pc EXCEPT ![o] = "persisting"] /\ my' = my
    BY <1>6 DEF SwitchTier, Goto
  <2>2. PICK next : /\ mem' = [mem EXCEPT !.tiers = next]
                    /\ Store([stored EXCEPT !.tiers = next], 1)
    BY <1>6 DEF SwitchTier
  <2>3. Unasked
    BY <1>2, <2>2, FieldsKept, StoreFields DEF Unasked, Typed
  <2> QED
    BY <1>1, <1>2, <2>1, <2>3, BystanderRepair
<1> QED
  BY <1>3, <1>4, <1>5, <1>6

LEMMA OtherRepair ==
    ASSUME Typed, Repair,
           \/ Wake \/ Alarm \/ Publish \/ IdleTearDown \/ Kill \/ UNCHANGED vars
           \/ \E p \in Procs : ReadFails(p) \/ CallThrows(p)
    PROVE  Repair'
<1>1. {"start", "sync", "chain"} \subseteq Procs
  BY NamedProcs
<1>2. WorkTyped /\ WorldTyped /\ Places /\ Inv
  BY DEF Typed
<1>3. CASE Wake
  <2>1. pc'["start"] = "boot"
    BY <1>1, <1>2, <1>3 DEF Wake, Goto, WorkTyped
  <2> QED
    BY <2>1 DEF Repair, StartKind, Agree, RepairDue
<1>4. CASE Alarm
  <2>1. /\ pc["sync"] = "idle" /\ pc' = [pc EXCEPT !["sync"] = "fetch"]
        /\ UNCHANGED <<stored, browser, up, mem, my, chain, marred>>
    BY <1>4 DEF Alarm, Goto
  <2>2. Unasked
    BY <2>1 DEF Unasked
  <2> QED
    BY <1>1, <2>1, <2>2, BystanderRepair
<1>5. CASE Publish \/ UNCHANGED vars
  <2>1. UNCHANGED <<stored, browser, up, mem, pc, my, chain, marred>>
    BY <1>5 DEF Publish, vars
  <2>2. Unasked
    BY <2>1 DEF Unasked
  <2>3. StartKind'
    BY <2>1, StartKindOther DEF Repair
  <2> QED
    BY <2>1, <2>2, <2>3, RepairKept
<1>6. CASE IdleTearDown \/ Kill
  <2>1. ~up' /\ pc'["start"] = "idle"
    BY <1>1, <1>6 DEF IdleTearDown, Kill, TearDown
  <2>2. StartKind'
    BY <2>1 DEF StartKind
  <2> QED
    BY <2>1, <2>2, RepairOff
<1>7. ASSUME NEW p \in Procs, CallThrows(p) PROVE Repair'
  <2>1. marred'
    BY <1>7 DEF CallThrows, Fault
  <2>2. CASE p = "chain" /\ pc[p] \in {"suspending", "write"} /\ EndApply
    <3>1. PICK own : own = Head(chain)
      OBVIOUS
    <3>2. pc'["start"] = "idle" \/ (pc'["start"] = pc["start"] /\ my'["start"] = my["start"])
      BY <1>1, <1>2, <2>2, <3>1, PlacesEnd
    <3> QED
      BY <2>1, <3>2, StartKindOther, RepairOff DEF Repair
  <2>3. CASE Done(p)
    <3>1. pc'["start"] = "idle" \/ (pc'["start"] = pc["start"] /\ my'["start"] = my["start"])
      BY <1>1, <1>2, <2>3 DEF Done, Goto, WorkTyped
    <3> QED
      BY <2>1, <3>1, StartKindOther, RepairOff DEF Repair
  <2> QED
    BY <1>7, <2>2, <2>3 DEF CallThrows
<1>8. ASSUME NEW p \in Procs, ReadFails(p) PROVE Repair'
  <2>1. marred' /\ pc' = pc
    BY <1>8 DEF ReadFails, Fault
  <2>2. PICK job : my' = [my EXCEPT ![p] = job] /\ job.kind = my[p].kind
    BY <1>2, <1>8, FailedRead
  <2>3. my'["start"].kind = my["start"].kind
    BY <1>1, <1>2, <2>2 DEF WorkTyped
  <2> QED
    BY <2>1, <2>3, RepairOff DEF Repair, StartKind
<1> QED
  BY <1>3, <1>4, <1>5, <1>6, <1>7, <1>8

LEMMA RepairNext ==
    ASSUME Typed, Repair, [Next]_vars
    PROVE  Repair'
BY HandlerRepair, WorkerRepair, MessageRepair, OtherRepair DEF Next

LEMMA RepairSettles ==
    ASSUME Typed, Repair
    PROVE  SettledEnforced
<1> SUFFICES ASSUME Settled, ~marred
             PROVE  /\ stored.control = mem.control
                    /\ browser.rules.user = Planned(mem.control)
                    /\ ~mem.control.paused /\ browser.rules.list \notin Tight =>
                           stored.custom \subseteq browser.rules.custom
  BY DEF SettledEnforced
<1>1. up /\ \A p \in Procs : pc[p] = "idle"
  BY DEF Settled
<1>2. pc["start"] = "idle" /\ pc["chain"] = "idle"
  BY <1>1, NamedProcs
<1>3. chain = <<>>
  BY <1>1, HeadOfChain DEF Typed, Places
<1>4. ~ApplyDue /\ ~WriteIntended /\ ~StartRepairs
  BY <1>1, <1>2, <1>3 DEF ApplyDue, WriteIntended, StartRepairs
<1>5. Intended(browser.rules)
  BY <1>1, <1>2, <1>4 DEF Repair, RepairDue
<1> QED
  BY <1>1, <1>2, <1>5 DEF Repair, Agree, Intended

\* However saves, reads, applies, reconciles and worker starts interleave: when nothing is
\* under way in a worker that met no failing call and no answer older than a save, memory
\* holds the stored decisions and the browser what they plan, with every saved line beside
\* a list that leaves the room for them (mutateSiteControl, reconcileDynamicRules).
THEOREM SettledIsEnforced == Spec => []SettledEnforced
<1>1. Init => Typed /\ Repair
  <2>1. Init => Typed
    BY InitInv, TypedInit, PlacesInit DEF Typed
  <2>2. ASSUME Init PROVE ~up /\ pc["start"] = "idle"
    BY <2>2, NamedProcs DEF Init
  <2> QED
    BY <2>1, <2>2 DEF Repair, StartKind, Agree, RepairDue
<1>2. Typed /\ Repair /\ [Next]_vars => (Typed /\ Repair)'
  BY TypedNext, RepairNext
<1>3. Typed /\ Repair => SettledEnforced
  BY RepairSettles
<1> QED
  BY <1>1, <1>2, <1>3, PTL DEF Spec

=============================================================================
