--------------------------- MODULE ExtensionRules ---------------------------
(***************************************************************************)
(* What the browser extension's service worker has the browser enforce     *)
(* (packages/browser-extension/src/background/: index.ts, dnrManager.ts,   *)
(* rulesetManager.ts): the user's decisions and rules in storage, the      *)
(* compiled list fetched from the hub, the dynamic rules and the static    *)
(* tiers the browser holds, and a worker that is torn down at any time.    *)
(*                                                                         *)
(* The worker is one event loop.  Each handler is a process that runs from *)
(* await to await: an action is the code between two of them, and what a   *)
(* call read is carried in my[p] until the continuation uses it.  A write  *)
(* takes effect when it is issued, or fails.  Storage answers its calls in *)
(* order, and before the network does.                                     *)
(***************************************************************************)
EXTENDS Integers, Sequences, Functions

CONSTANTS
    Sites,         \* sites a user may pause
    Lines,         \* filter lines a user may save
    Tiers,         \* static rule sets of the manifest
    DefaultTiers,  \* those enabled by default
    Slots,         \* handlers of user messages that may run at once
    Versions,      \* bound: compiled lists
    Tight,         \* the lists that leave no room for every saved line
    MaxEvents      \* bound: messages, lists published, calls that fail, kills

ASSUME ExtensionAssumption ==
    /\ DefaultTiers \subseteq Tiers
    /\ Slots \cap {"start", "sync", "chain"} = {}
    /\ Versions \in Nat \ {0} /\ Tight \subseteq 1..Versions
    /\ MaxEvents \in Nat

VARIABLES
    stored,    \* chrome.storage.local: control, custom lines, tiers
    browser,   \* dynamic rules (user, list, custom) and enabled tiers
    feed,      \* version of the compiled list the hub serves
    news,      \* a rules_updated event is on its way
    up,        \* the worker runs
    mem,       \* its variables: siteControl, lastSyncedNetworkRules, RulesetManager
    pc,        \* process -> where its handler awaits
    my,        \* process -> what it has read
    chain,     \* applyChain: processes whose apply has not ended
    calls,     \* processes whose storage call is unanswered, in order
    marred,    \* history: this worker took an answer older than a save, or a call failed
    events     \* events so far, of MaxEvents

vars == <<stored, browser, feed, news, up, mem, pc, my, chain, calls, marred, events>>

None == 0
Unread == "unread"
Procs == Slots \cup {"start", "sync", "chain"}

Control == [paused : BOOLEAN, sites : SUBSET Sites]
EmptyControl == [paused |-> FALSE, sites |-> {}]
\* The dynamic rules: the user family, and of the list family the part that the
\* hub's list and the part that the custom lines gave.
Dynamic == [user : SUBSET Sites, list : 0..Versions, custom : SUBSET Lines]
NoRules == [user |-> {}, list |-> None, custom |-> {}]

FreshMem == [control |-> EmptyControl, list |-> None,
             tiers |-> DefaultTiers, suspended |-> FALSE]
Blank == [kind |-> "none", arg |-> None, paused |-> FALSE, control |-> EmptyControl,
          tiers |-> {}, lines |-> {}, rules |-> NoRules, list |-> None]

Goto(p, at) == pc' = [pc EXCEPT ![p] = at]
\* The handler of p ends.
Done(p) == Goto(p, "idle") /\ my' = [my EXCEPT ![p] = Blank]
Events(n) == events + n <= MaxEvents /\ events' = events + n
Event == Events(1)
Fault == Event /\ marred' = TRUE
NoFault == UNCHANGED <<events, marred>>

\* planSiteControlRules, under the pause that installs nothing.
Planned(control) == IF control.paused THEN {} ELSE control.sites

-----------------------------------------------------------------------------

TypeOK ==
    /\ stored \in [control : Control, custom : SUBSET Lines, tiers : SUBSET Tiers]
    /\ browser \in [rules : Dynamic, tiers : SUBSET Tiers]
    /\ feed \in 1..Versions /\ news \in BOOLEAN /\ up \in BOOLEAN
    /\ mem \in [control : Control, list : 0..Versions, tiers : SUBSET Tiers, suspended : BOOLEAN]
    /\ pc \in [Procs -> {"idle", "boot", "reading", "lines", "saving", "persisting",
                         "tierDiff", "suspend", "suspending", "families", "decide",
                         "apply", "plan", "write", "fetch", "answered"}]
    /\ chain \in Seq(Procs \ {"chain"}) /\ IsInjective(chain)
    /\ calls \in Seq(Procs) /\ IsInjective(calls) /\ marred \in BOOLEAN
    /\ events \in 0..MaxEvents

\* A profile whose first list is installed, and no worker.
Init ==
    /\ stored = [control |-> EmptyControl, custom |-> {}, tiers |-> DefaultTiers]
    /\ feed = 1 /\ news = FALSE
    /\ browser = [rules |-> [NoRules EXCEPT !.list = feed], tiers |-> DefaultTiers]
    /\ up = FALSE /\ mem = FreshMem
    /\ pc = [p \in Procs |-> "idle"] /\ my = [p \in Procs |-> Blank]
    /\ chain = <<>> /\ calls = <<>> /\ marred = FALSE
    /\ events = 0

-----------------------------------------------------------------------------
(* A worker starts: the script's top level asks for the tiers and the site  *)
(* control before any event is delivered.                                   *)

Wake ==
    /\ ~up /\ up' = TRUE
    /\ Goto("start", "boot")
    /\ my' = [my EXCEPT !["start"].control = stored.control, !["start"].tiers = stored.tiers]
    /\ calls' = <<"start">>
    /\ UNCHANGED <<stored, browser, feed, news, mem, chain, marred, events>>

\* p takes an answer of loadSiteControl() into siteControl.
TakeControl(p) ==
    /\ mem' = [mem EXCEPT !.control = my[p].control]
    /\ marred' = (marred \/ my[p].control # stored.control)

\* rulesets.load() and the first loadSiteControl() return; the start block goes on
\* to its own.
Booted ==
    /\ pc["start"] = "boot" /\ Head(calls) = "start" /\ Goto("start", "reading")
    /\ calls' = Append(Tail(calls), "start")
    /\ mem' = [mem EXCEPT !.control = my["start"].control, !.tiers = my["start"].tiers]
    /\ marred' = (marred \/ my["start"].control # stored.control)
    /\ my' = [my EXCEPT !["start"] = [Blank EXCEPT !.kind = "start", !.control = stored.control]]
    /\ UNCHANGED <<stored, browser, feed, news, up, chain, events>>

\* A read of storage fails: no decision, no line, the default tiers.
ReadFails(p) ==
    /\ pc[p] \in {"boot", "reading", "lines"} /\ Head(calls) = p /\ Fault
    /\ my' = CASE pc[p] = "reading" -> [my EXCEPT ![p].control = EmptyControl]
               [] pc[p] = "lines" -> [my EXCEPT ![p].lines = {}]
               [] pc[p] = "boot" -> [my EXCEPT ![p].control = EmptyControl,
                                               ![p].tiers = DefaultTiers]
    /\ UNCHANGED <<stored, browser, feed, news, up, mem, pc, chain, calls>>

\* The decision a message carries, applied to a control state.
Decided(control, op) ==
    IF op.kind = "site"
    THEN [control EXCEPT !.sites = IF op.arg \in @ THEN @ \ {op.arg} ELSE @ \cup {op.arg}]
    ELSE [control EXCEPT !.paused = (op.kind = "pause")]

Decisions == {"site", "pause", "resume"}

\* Where a handler that decides nothing goes on behind loadSiteControl().
AfterRead(kind) ==
    CASE kind \in {"start", "tierRepair"} -> "suspend"
      [] kind = "repair" -> "families"
      [] kind = "view" -> "idle"

\* A write to storage in a step of n events: it holds next, or, when the call fails,
\* what it held.
Store(next, n) ==
    \/ stored' = next /\ Events(n) /\ UNCHANGED marred
    \/ UNCHANGED stored /\ Events(n + 1) /\ marred' = TRUE

Saves(next, n) ==
    /\ mem' = [mem EXCEPT !.control = next]
    /\ Store([stored EXCEPT !.control = next], n)

\* loadSiteControl() returns; mutateSiteControl() saves the changed state.
ControlRead(p) ==
    /\ pc[p] = "reading" /\ Head(calls) = p
    /\ my' = [my EXCEPT ![p] = IF my[p].kind = "view" THEN Blank
                               ELSE [Blank EXCEPT !.kind = my[p].kind]]
    /\ IF my[p].kind \in Decisions
       THEN /\ Saves(Decided(my[p].control, my[p]), 0) /\ Goto(p, "saving")
            /\ calls' = Append(Tail(calls), p)
       ELSE /\ TakeControl(p) /\ Goto(p, AfterRead(my[p].kind))
            /\ calls' = Tail(calls) /\ UNCHANGED <<stored, events>>
    /\ UNCHANGED <<browser, feed, news, up, chain>>

\* The save returns, and the caller queues an apply.
Saved(p) ==
    /\ pc[p] = "saving" /\ Head(calls) = p
    /\ calls' = Tail(calls)
    /\ Goto(p, "apply") /\ chain' = Append(chain, p)
    /\ UNCHANGED <<stored, browser, feed, news, up, mem, my, marred, events>>

-----------------------------------------------------------------------------
(* RulesetManager.                                                          *)

\* Where a handler goes on behind its tier update, and when that throws.
AfterTiers(p) ==
    IF p = "chain" THEN "plan" ELSE IF my[p].kind = "start" THEN "families" ELSE "idle"

\* The head of the chain, or the handler p, reaches setSuspended().
AtSuspend(p) ==
    IF p = "chain" THEN chain # <<>> /\ pc[p] = "idle" ELSE pc[p] = "suspend"

\* Variant: nothing is done unless the flag changes.
SuspendOnChange(p) ==
    /\ AtSuspend(p)
    /\ IF mem.suspended = mem.control.paused
       THEN /\ Goto(p, AfterTiers(p)) /\ my' = [my EXCEPT ![p] = Blank] /\ UNCHANGED mem
       ELSE /\ Goto(p, "suspending")
            /\ mem' = [mem EXCEPT !.suspended = mem.control.paused]
            /\ my' = [my EXCEPT ![p].tiers = browser.tiers, ![p].paused = mem.control.paused]
    /\ UNCHANGED <<stored, browser, feed, news, up, chain, calls, marred, events>>

\* setSuspended(): the flag, and the reading of the browser; Unread when it throws.
Suspend(p) ==
    /\ AtSuspend(p) /\ Goto(p, "suspending")
    /\ mem' = [mem EXCEPT !.suspended = mem.control.paused]
    /\ \E seen \in {browser.tiers, {Unread}} :
          /\ my' = [my EXCEPT ![p].tiers = seen, ![p].paused = mem.control.paused]
          /\ IF seen = {Unread} THEN Fault ELSE NoFault
    /\ UNCHANGED <<stored, browser, feed, news, up, chain, calls>>

\* sync(), the browser's tiers once the difference to `seen` is applied to them.
Synced(seen) ==
    IF seen = {Unread} THEN browser.tiers
    ELSE (browser.tiers \ (seen \ mem.tiers)) \cup (mem.tiers \ seen)

\* setSuspended(TRUE): what was read is switched off, or the selection unread.
Silenced(seen) == browser.tiers \ (IF seen = {Unread} THEN mem.tiers ELSE seen)

\* updateEnabledRulesets() of setSuspended() or of sync().
UpdateTiers(p) ==
    /\ \/ /\ pc[p] = "suspending"
          /\ browser' = [browser EXCEPT !.tiers =
                           IF my[p].paused THEN Silenced(my[p].tiers) ELSE Synced(my[p].tiers)]
       \/ /\ pc[p] = "tierDiff"
          /\ browser' = [browser EXCEPT !.tiers = Synced(my[p].tiers)]
    /\ Goto(p, AfterTiers(p))
    /\ my' = [my EXCEPT ![p] = IF AfterTiers(p) = "idle" THEN Blank
                               ELSE [Blank EXCEPT !.kind = my[p].kind]]
    /\ UNCHANGED <<stored, feed, news, up, mem, chain, calls, marred, events>>

\* setEnabledTierIds() behind persist(): silent while paused, otherwise sync(), which
\* reads the browser.
Persisted(p) ==
    /\ pc[p] = "persisting" /\ Head(calls) = p
    /\ calls' = Tail(calls)
    /\ \/ mem.suspended /\ Done(p) /\ NoFault
       \/ /\ ~mem.suspended /\ Goto(p, "tierDiff")
          /\ my' = [my EXCEPT ![p].tiers = browser.tiers] /\ NoFault
       \/ ~mem.suspended /\ Done(p) /\ Fault
    /\ UNCHANGED <<stored, browser, feed, news, up, mem, chain>>

-----------------------------------------------------------------------------
(* The apply chain.                                                         *)

\* loadCustomRules(): the saved lines, or none when the call fails.
LoadLines(lines) ==
    \/ lines = stored.custom /\ NoFault
    \/ lines = {} /\ Fault

\* updateDynamicRules() is called with the custom lines, the control and the list,
\* and calls the browser's rules.
PlanRules ==
    /\ pc["chain"] = "plan" /\ Goto("chain", "write")
    /\ \E lines \in {stored.custom, {}} :
          /\ LoadLines(lines)
          /\ my' = [my EXCEPT !["chain"].lines = lines, !["chain"].control = mem.control,
                              !["chain"].list = mem.list, !["chain"].rules = browser.rules]
    /\ UNCHANGED <<stored, browser, feed, news, up, mem, chain, calls>>

\* The custom lines that find a place beside list v: all of them where the list fits.
\* Where it does not, those among the browser's own fired rules, when the hot set is
\* installed in its stead (chooseRuleSource), or those that the cut of the export or
\* what the kept list leaves of the budget lets in.
Placed(v, lines) == IF v \in Tight THEN SUBSET lines ELSE {lines}

\* Variant: no fetched list calls as an empty one.
InstalledBare(job) ==
    IF job.control.paused THEN {NoRules}
    ELSE {[user |-> job.control.sites, list |-> job.list, custom |-> placed] :
             placed \in Placed(job.list, job.lines)}

\* The rules updateDynamicRules() may leave: none under the pause; without a fetched
\* list, the ones that are installed and the custom lines planned anew.
Installed(job) ==
    LET list == IF job.list = None THEN job.rules.list ELSE job.list
        kept == IF job.list = None THEN job.rules.custom \ job.lines ELSE {}
    IN  IF job.control.paused THEN {NoRules}
        ELSE {[user |-> job.control.sites, list |-> list, custom |-> kept \cup placed] :
                 placed \in Placed(list, job.lines)}

\* The head of the chain is answered, and the next apply may begin.
EndApply ==
    /\ pc' = [pc EXCEPT !["chain"] = "idle", ![Head(chain)] = "idle"]
    /\ my' = [my EXCEPT !["chain"] = Blank, ![Head(chain)] = Blank]
    /\ chain' = Tail(chain)
    /\ UNCHANGED <<stored, feed, news, up, mem, calls>>

WriteRules ==
    /\ pc["chain"] = "write"
    /\ \E rules \in Installed(my["chain"]) : browser' = [browser EXCEPT !.rules = rules]
    /\ EndApply /\ NoFault

\* A call of the browser throws: the apply ends with lastApplyError, a handler of
\* the tiers or the start block ends.
CallThrows(p) ==
    /\ Fault /\ UNCHANGED browser
    /\ \/ p = "chain" /\ pc[p] \in {"suspending", "write"} /\ EndApply
       \/ /\ p # "chain" /\ pc[p] \in {"suspending", "tierDiff"} /\ Done(p)
          /\ UNCHANGED <<stored, feed, news, up, mem, chain, calls>>

-----------------------------------------------------------------------------
(* The reconcile and the sync.                                              *)

\* Variant: every caller starts a sync of its own.
SyncAlways == "fetch"

\* syncAndApplyRules(): single flight, a caller joins the fetch under way.
SyncPc == IF pc["sync"] = "idle" THEN "fetch" ELSE pc["sync"]

\* reconcileDynamicRules() calls the browser's rules, and ends without a reading.
ReadFamilies(p) ==
    /\ pc[p] = "families"
    /\ \/ /\ Goto(p, "decide") /\ my' = [my EXCEPT ![p].rules = browser.rules]
          /\ NoFault
       \/ Fault /\ Done(p)
    /\ UNCHANGED <<stored, browser, feed, news, up, mem, chain, calls>>

\* Variant: only what is missing is looked for.
DecisionsMissing(rules, control) == ~(Planned(control) \subseteq rules.user)

\* Not userDecisionsAreInstalled(): compared both ways.
DecisionsDiffer(rules, control) == rules.user # Planned(control)

\* Not customRulesAreInstalled().
LinesMissing(rules, lines, control) == ~control.paused /\ ~(lines \subseteq rules.custom)

ListEmpty(rules) == rules.list = None /\ rules.custom = {}

\* ... then the custom lines, and decides on them, on the rules it read and on
\* siteControl as it is now.
Reconcile(p) ==
    /\ pc[p] = "decide"
    /\ my' = [my EXCEPT ![p] = Blank]
    /\ \E lines \in {stored.custom, {}} :
          /\ LoadLines(lines)
          /\ IF \/ DecisionsDiffer(my[p].rules, mem.control)
                \/ LinesMissing(my[p].rules, lines, mem.control)
             THEN Goto(p, "apply") /\ chain' = Append(chain, p)
             ELSE /\ pc' = [pc EXCEPT ![p] = "idle", !["sync"] =
                              IF ListEmpty(my[p].rules) /\ ~mem.control.paused THEN SyncPc ELSE @]
                  /\ UNCHANGED chain
    /\ UNCHANGED <<stored, browser, feed, news, up, mem, calls>>

\* The hub answers, or no feed does.
Answer ==
    /\ pc["sync"] = "fetch" /\ Goto("sync", "answered")
    /\ \/ my' = [my EXCEPT !["sync"].list = feed] /\ NoFault
       \/ my' = my /\ Fault
    /\ UNCHANGED <<stored, browser, feed, news, up, mem, chain, calls>>

\* fetchCompiledRules() returns; an empty list leaves the last one in place.
Fetched ==
    /\ pc["sync"] = "answered" /\ pc["start"] # "boot" /\ Goto("sync", "apply")
    /\ mem' = [mem EXCEPT !.list = IF my["sync"].list = None THEN @ ELSE my["sync"].list]
    /\ my' = [my EXCEPT !["sync"] = Blank]
    /\ chain' = Append(chain, "sync")
    /\ UNCHANGED <<stored, browser, feed, news, up, calls, marred, events>>

-----------------------------------------------------------------------------
(* Messages and events.                                                     *)

\* A message takes a handler that is free: nothing tells the free ones apart.
FreeSlot == CHOOSE o \in Slots : pc[o] = "idle"

Receive(o) ==
    /\ up /\ pc[o] = "idle" /\ o = FreeSlot
    /\ UNCHANGED <<browser, feed, news, up>>

\* The pause button does what the stored state does not.
PauseButton == IF stored.control.paused THEN "resume" ELSE "pause"

\* Messages that begin with a read of the site control.
ReadFirst(o) ==
    /\ Receive(o) /\ Event /\ Goto(o, "reading")
    /\ calls' = Append(calls, o)
    /\ \E op \in [kind : {"site"}, arg : Sites] \cup
              [kind : {PauseButton, "tierRepair", "repair", "view"}, arg : {None}] :
           my' = [my EXCEPT ![o].kind = op.kind, ![o].arg = op.arg,
                            ![o].control = stored.control]
    /\ UNCHANGED <<stored, mem, chain, marred>>

\* A remote command changes the control in memory, unread, and saves it.
RemotePause(o) ==
    /\ Receive(o) /\ pc["start"] \notin {"boot", "reading"}
    /\ Goto(o, "saving") /\ calls' = Append(calls, o)
    /\ Saves(Decided(mem.control, [kind |-> PauseButton]), 1)
    /\ UNCHANGED <<my, chain>>

\* appendCustomRule() reads the saved lines ...
AddLine(o) ==
    /\ Receive(o) /\ Event /\ Goto(o, "lines")
    /\ calls' = Append(calls, o)
    /\ \E l \in Lines : my' = [my EXCEPT ![o].arg = l, ![o].lines = stored.custom]
    /\ UNCHANGED <<stored, mem, chain, marred>>

\* ... and writes them back with the new one, unless it is there.
SaveLine(o) ==
    /\ pc[o] = "lines" /\ Head(calls) = o
    /\ my' = [my EXCEPT ![o] = Blank]
    /\ IF my[o].arg \in my[o].lines
       THEN Goto(o, "idle") /\ calls' = Tail(calls) /\ UNCHANGED <<stored, marred, events>>
       ELSE /\ Goto(o, "saving") /\ calls' = Append(Tail(calls), o)
            /\ Store([stored EXCEPT !.custom = my[o].lines \cup {my[o].arg}], 0)
    /\ UNCHANGED <<browser, feed, news, up, mem, chain>>

\* setTierEnabled(): the selection in memory with one tier switched.
SwitchTier(o) ==
    /\ Receive(o) /\ Goto(o, "persisting") /\ calls' = Append(calls, o)
    /\ \E t \in Tiers :
          LET next == IF t \in mem.tiers THEN mem.tiers \ {t} ELSE mem.tiers \cup {t}
          IN  /\ mem' = [mem EXCEPT !.tiers = next]
              /\ Store([stored EXCEPT !.tiers = next], 1)
    /\ UNCHANGED <<my, chain>>

\* The hourly alarm, or a manual sync.
Alarm ==
    /\ up /\ pc["sync"] = "idle" /\ Goto("sync", "fetch")
    /\ UNCHANGED <<stored, browser, feed, news, up, mem, my, chain, calls, marred, events>>

\* The hub compiles a list and says so to a worker that listens.
Publish ==
    /\ Event /\ feed' \in feed + 1..Versions /\ news' = up
    /\ UNCHANGED <<stored, browser, up, mem, pc, my, chain, calls, marred>>

RulesUpdated ==
    /\ up /\ news /\ news' = FALSE
    /\ Goto("sync", SyncPc)
    /\ UNCHANGED <<stored, browser, feed, up, mem, my, chain, calls, marred, events>>

Settled == up /\ \A p \in Procs : pc[p] = "idle"

\* The worker and all it remembers are gone.
TearDown ==
    /\ up' = FALSE /\ news' = FALSE /\ mem' = FreshMem
    /\ pc' = [p \in Procs |-> "idle"] /\ my' = [p \in Procs |-> Blank]
    /\ chain' = <<>> /\ calls' = <<>> /\ marred' = FALSE
    /\ UNCHANGED <<stored, browser, feed>>

IdleTearDown == Settled /\ TearDown /\ UNCHANGED events

\* ... in the middle of its work.
Kill ==
    /\ up /\ ~Settled /\ TearDown /\ Event

-----------------------------------------------------------------------------

Handler(p) ==
    \/ ControlRead(p) \/ Saved(p) \/ Suspend(p) \/ UpdateTiers(p) \/ Persisted(p)
    \/ ReadFamilies(p) \/ Reconcile(p) \/ SaveLine(p)

Worker == Booted \/ PlanRules \/ WriteRules \/ Answer \/ Fetched \/ RulesUpdated

Next ==
    \/ \E p \in Procs : Handler(p) \/ ReadFails(p) \/ CallThrows(p)
    \/ \E o \in Slots : ReadFirst(o) \/ RemotePause(o) \/ AddLine(o) \/ SwitchTier(o)
    \/ Worker \/ Wake \/ Alarm \/ Publish \/ IdleTearDown \/ Kill

Spec == Init /\ [][Next]_vars

\* The event loop runs what is due, alarms wake the worker and fire, and the
\* browser tears an idle worker down between them.
FairSpec ==
    /\ Spec
    /\ \A p \in Procs : WF_vars(Handler(p))
    /\ WF_vars(Worker) /\ WF_vars(Wake) /\ SF_vars(Alarm) /\ SF_vars(IdleTearDown)

-----------------------------------------------------------------------------

\* When nothing is under way in a worker that met no failing call and no answer older
\* than a save, memory holds the stored decisions (mutateSiteControl), and the browser
\* the allow rules they plan and, beside a list that leaves the room, every saved line:
\* whatever an earlier worker left undone, reconcileDynamicRules() has repaired.
SettledEnforced ==
    Settled /\ ~marred =>
        /\ stored.control = mem.control
        /\ browser.rules.user = Planned(mem.control)
        /\ ~mem.control.paused /\ browser.rules.list \notin Tight =>
               stored.custom \subseteq browser.rules.custom

\* Only the global pause takes the compiled list out of the browser or an older one in
\* (updateDynamicRules): a worker that holds no list yet keeps the installed one.
ListKept ==
    [][browser'.rules.list < browser.rules.list => my["chain"].control.paused]_vars

\* What storage and the hub ask for, the saved lines as far as the list leaves room; or
\* silence under the pause.
Enforced ==
    /\ IF stored.control.paused THEN browser.rules = NoRules
       ELSE /\ browser.rules.user = stored.control.sites
            /\ browser.rules.list = feed
            /\ browser.rules.custom \in Placed(feed, stored.custom)
    /\ browser.tiers = IF stored.control.paused THEN {} ELSE stored.tiers

\* However messages, workers torn down, failing calls and stale answers fell, the browser
\* ends up with what is stored, rules and tiers: worker starts and hourly syncs repair it.
EventuallyEnforced == <>[]Enforced

=============================================================================
