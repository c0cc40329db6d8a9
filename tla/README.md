# Blockingmachine in TLA+

Specifications of the parts of Blockingmachine whose difficulty is not in the data but in the
order things happen: threads that share a table without a lock, a userspace TCP endpoint, a ledger
that must survive a crash in the middle of a write, an event loop that must not starve its
sockets, a browser extension whose worker dies at any time, an app that starts and stops a child
process from overlapping calls. Each part has a module (its state, one action per operation or step, its properties), an
MC module and configurations for TLC, and a module of proofs checked by TLAPS. `PROJECT.json` maps
every definition to the source lines it stands for, lists the runs, a mutation of the model that
each property must catch, the hazards, the findings and the theorems.

Paths below are relative to `src/packages/`; `local-vpn/` abbreviates
`mobile/modules/local-vpn/android/src/main/java/com/blockingmachine/localvpn/`.

## 1. The system

| component | state it keeps | operations | talks to |
|---|---|---|---|
| policy ledger (`https-filter/src/policy/policyStore.ts`) | two host sets, list of entries, chain anchor, event set; a JSONL file | open, pin, bypass, remove, event, list, close | the proxy's sockets ask it; the control API changes it |
| leaf forge queue (`https-filter/src/ca/leafForgeQueue.ts`) | running count, waiters, dedupe map | get a certificate for a name | TLS handshakes call it; it calls the CA and the event loop |
| proxy, CA, response pipeline (`https-filter/src/`) | live connections, CA key | accept, peek at the SNI, terminate or tunnel, rewrite | ledger, forge queue, upstream servers |
| TCP session (`local-vpn/tcp/TcpSession.kt`) | both streams' sequence numbers, queues, FINs, clocks | client packet, upstream bytes / EOF / error, tick, abort | dispatcher below, upstream above |
| upstream sockets (`local-vpn/tcp/HubUpstream.kt`) | write queue, socket, two threads | write, closeOut, abort | calls back into the session |
| flow dispatchers (`local-vpn/tcp/TcpDispatcher.kt`, `UdpDispatcher.kt`) | flow table, touch log, counters, closed flag | packet, tick, close | the tun reader, the ticker, the sessions |
| DNS forwarder (`local-vpn/DnsForwarder.kt`) | pending table, eviction log, timers, counters | forward, receive loop, timeout, close | tun reader, upstream resolver |
| VPN service (`local-vpn/VpnFilterService.kt`) | tun descriptor, reader job, dispatchers, ticker | start, restart, stop | owns the three above |
| system daemon (`system-daemon/src/`) | the domain trie, feeds, quarantine, observations | DNS answer, reload, control calls | electron app, Home Assistant |
| engine managers (`electron-app/src/filterProxyManager.ts`, `daemonManager.ts`) | child handle, start latch | start, stop, child exit, probe | child processes, through signals and their control port |
| browser extension (`browser-extension/src/background/`) | site control, fetched list, tier selection, each in memory and in storage; what the browser enforces | decide, save, apply, sync, reconcile | the browser's rule API and storage, the hub's feed |
| core, cli, mobile UI, Home Assistant, database, AI training | parsing, screens, data, scripts | - | - |

The hard behaviours, and what makes each component correct:

* **Ledger.** A decision changes the sets first and appends its line second; the append may fail,
  tear, or be the last thing the process does. Correct: what is in memory is what a replay would
  give, damage is bounded and counted.
* **TCP session.** Segments are lost, repeated, reordered, re-cut and numbered modulo 2^32; either
  side closes at any time; windows shut. Correct: each side receives the other's stream, its end
  comes after its last byte, and no flow stays for ever.
* **Dispatchers, forwarder.** Reader threads, ticker, receiver, timers and close share concurrent
  maps with no lock across two accesses. Correct: nothing live is lost from the table, each slot is
  given up once, bounds hold up to the race the code accepts, answers go to those who asked.
* **Forge queue.** The slot changes hands on a later turn of the event loop. Correct: slots are
  neither lost nor minted, one forge per name, the loop polls between the forges of a queued burst,
  every caller is answered.
* **Extension.** The worker is torn down between events, or in the middle of one; two stores (storage
  and the browser) and a memory that starts from defaults must agree again, whatever was read before
  an await and used after it. Correct: what a quiet worker settles on is what is stored, the
  blocklist is never lost to a local decision, and in the end the browser enforces what was saved.
* **Engine manager.** start() and stop() overlap, each across probes of a port that any engine may
  answer, a child exits at any time, and an engine may outlive the app. Correct: the latch always
  has an owner, overlapping starts make one spawn, the user is obeyed in the end.
* **Service, daemon.** A step reads state, awaits, and acts on what it read while a restart or a
  reload runs. Not modelled yet: see section 7.

`PROJECT.json` "hazards" lists 40 places where this bites, at their lines, each with the properties
that would catch it or the reason none does yet.

## 2. The modules

**PolicyStore** (`policyStore.ts`). `file` holds physical lines, each reduced to what replay looks
at: whether it parses, its record, and `sum`, the identity of its bytes, standing for their
sha256. `dangling` says that the last line lacks its newline, so that the next append is glued to
it. `AppendRecord` is `append` with its four outcomes: kept in memory by an ephemeral store,
written, failed (nothing, part, or all but the newline on disk) and the process dying in it. `Open`
is the constructor's replay: a line counts if it parses and its `prevHash` is the hash of the
physical line before it. A `Standing` host is one whose last decision was the asked-for action.
Host normalisation and the reason text are abstracted; the (host, reason) key of an event is the
host.

**TcpSession** (`TcpSession.kt`, plus what it sees of `HubUpstream.kt`). Every public method holds
the session's monitor, so each is one action: the SYN, segments, ACKs, FINs and RSTs of the client
(`OnPacket`, each kind with the acknowledgement, the receive path and the flush behind it),
upstream bytes, EOF and failure (`OnUpstreamData`, `OnUpstreamOverrun`, `OnUpstreamEof`,
`AbortWithRst`), and `OnTick`. Bytes are named by their position in their stream and a payload is an interval of
positions; the sequence number it travels under is a separate value that wraps at `SeqMod`, with
initial numbers just below the wrap, and comparisons are the code's signed distances. A client
segment starts at any position of the client's stream with any length up to `MaxSegment`: that is
loss, repetition, reordering and re-cutting at once. Clocks are ages counted in ticks.
`written`, `closeOuts` and `aborts` record what the upstream was told. The upstream's queue cap is
a choice (`UpstreamMayOverflow`) that calls `abortWithRst` from inside `processRcv`, as the code
does. MSS negotiation, checksums and packet layout are left out.

**StreamRelay** is what a session promises its two ends, without sequence numbers, windows, timers or
states: the upstream is given the client's bytes in order and then, once, its end; the client is told
of no byte that was not given to an upstream still reading; it confirms no more than the upstream
sent; a flow ends complete in both directions, each end confirmed, or is torn down. `TcpSession`
implements it under the positions that rcvNxt and sndUna name (`acked`, `confirmed`), and
`closeOuts`, `produced`, `upstreamEof` and `reset` for the rest. One packet may give bytes, confirm
others and shut the output: it is one `Exchange`. Retransmission and a repeated SYN or FIN are
`Exchange`s in which nothing moves. What an ended session had acknowledged is left out (0).

**FlowTable** (`TcpDispatcher.kt` 50-179). Reader threads, the ticker and the closing thread have a
program counter and locals; each access to the concurrent map, the LRU log (its own lock), the
counters or a session is a step, named for the line it stands for. Sessions are numbered in the
order they are dialled and reduced to live or not; an upstream may fail one at any time.
`UdpDispatcher.kt` keeps the same table by the same steps.

**DnsForwarder** (`DnsForwarder.kt`). The tun reader walks through `forward` (eviction, id, timer,
slot, log, send or failed send) and `close`; the receiver through its loop (check, receive, peek at
the slot, claim it, deliver); each query's timer through delay, claim, count. `removePending` is
two steps because the slot and the log have no common lock. The upstream may answer anything it was
ever asked, late and repeatedly. `Teardown` is the cancellation of the reader's job, the parent of
the forwarder's scope. A packet is its id and its question. Id allocation always finds a free id
(65 536 ids, fewer than `maxPending` of them taken), so giving up after 64 unlucky samples is left out.

**LeafForgeQueue** (`leafForgeQueue.ts`). Node's event loop is part of the model: `micro` is the
microtask queue, drained before the next callback, and `immediates` the check phase. `Share` and
`Start` are a call that meets the dedupe map, `Forge` the `then` callback with `release`, `Settle`
the `finally`. `Turn` is the loop's poll, where pending I/O is handled, and the start of the check
phase behind it: `due` counts the immediates that were queued by then, which the phase runs before
the next poll, each with its microtasks (`Grant`). A forge returns or throws. `turnForges` counts the
forges, since the last poll, of jobs that waited for their slot.

**ForgePool** is what that queue promises, without an event loop: requests in the order they came,
queued, served, ended, answered. A caller joins the open request of its name or makes one; a request
that ends hands its slot to the oldest that is queued, in the same step. `LeafForgeQueue` implements
it under `requests <- Served` of its jobs (a slot that is granted but not delivered counts as
served) and `holds <- asked`: acquiring, granting and the turns of the loop are stutters.

**ExtensionRules** (`browser-extension/src/background/index.ts`, `dnrManager.ts`,
`rulesetManager.ts`, `syncClient.ts`, `shared/siteControl.ts`). The service worker is one event loop;
each asynchronous handler is a process, `pc[p]` the await it stands at, `my[p]` what it has read and
not yet used, and an action is the code between two awaits. `stored` is `chrome.storage.local`,
`browser` what the browser enforces: the dynamic rules, by what they come from (the decisions, the
hub's list, the custom lines), and the enabled tiers. `Wake` and `Booted` are the script's top level;
`ReadFirst`, `ControlRead` and `Saved` are `mutateSiteControl` and the messages that only read;
`RemotePause` the hub's command, which changes memory unread; `AddLine`, `SaveLine` the custom rules.
`chain` is the apply chain: each apply suspends or syncs the tiers (`Suspend`, `UpdateTiers`), plans
from memory and the lines (`PlanRules`) and writes (`WriteRules`, `Installed`). `ReadFamilies` and
`Reconcile` are `reconcileDynamicRules`; `Alarm`, `RulesUpdated`, `Answer` and `Fetched` the
single-flight sync. `CallThrows` is the browser refusing a call, `ReadFails`, `LoadLines` and `Store`
the calls of storage that fail (a read counts as an empty answer, a write leaves memory ahead of
storage), `IdleTearDown` and `Kill` the end of a worker. Two orders of the platform are used: storage answers its calls in order (`calls`), and
before the network does. A rule is reduced to what it comes from, and the compiled list to its
version. What the budget and the choice between the full list and the hot set do is reduced to the
saved lines that find a place (`Placed`): beside a list that fits, all; beside one of `Tight`, any
subset, for the hot set holds none but those among the browser's own fired rules, a cut may drop
them, and a list that is kept may fill the budget. Compilation and accounting are left out. The three
addresses a list is asked from (`syncClient.ts` 148-152) are one feed: a fallback that serves another
list than the hub is not modelled.

**EngineManager** (`electron-app/src/filterProxyManager.ts` 599-838, `https-filter/src/main.ts`). A
call is a process too: `Start` takes the latch, `Probe` is `getStatus` with the answer fixed in one
step and used in a later one, `AlreadyThere` and `Spawn` what follows it (a process, a spawn that
throws, or one that fails behind its return and leaves the child `NoProcess`, of which no exit ever
comes), `Polled`, `ChildExit` and
`Deadline` the ends of the poll. `Stop` signals a child, `StopUnmanaged`, `Retire`, `Post` and
`Retired` shut down an engine the manager does not hold. A process boots, binds the ports or dies on
them, is told to end, closes its control port first, and its exit handler runs one step after its
end. `Quit` is the app going away and coming back: the processes stay, as `orphans` for the watchdog.
`overtaken` records that somebody cleared the latch under a start() that is still probing.

The components are independent in the code at this level (a dispatcher holds sessions by reference
and asks only whether they live), so no module composes two of them yet; `FlowTable` reduces a
session to what the dispatcher can see, and in `TcpSession` the SYN that `OnSyn` takes, `OnTick` and
`AbortWithRst` are the dispatcher's calls.

## 3. What is checked

| run | module | states | properties |
|---|---|---|---|
| `policy_store` | PolicyStore | 300 000 | `LedgerFaithful`, `ListIsLedger`, `DamageBounded`, `OpenReportsLoss`, `TypeOK` |
| `policy_torn` | PolicyStore | - | `PersistedIsReplayed`, violated (finding 1) |
| `tcp_receive` | TcpSession | 1 100 | `UpstreamStream`, `ReassemblySound` |
| `tcp_flow` | TcpSession | 16 000 | `SendBuffer`, `FinAfterData`, `WindowRespected`, `StatePairing`, `EndsHonestly`, `ImplementsRelay`, `SilentFlowEnds`, `FlightResolved`, `TypeOK` |
| `tcp_early` | TcpSession | - | `SendBuffer`, violated (finding 2) |
| `flow_table` | FlowTable | 1 700 000 | `NoLeak`, `ClosedIsEmpty`, `CountersAgree`, `TableBounded` |
| `flow_live` | FlowTable | 68 000 | `DeadFlowsLeave`, `EvictionEnds` |
| `dns_forwarder` | DnsForwarder | 4 100 000 | `RightAnswer`, `SlotsAccounted`, `PendingBounded`, `StillTimed` |
| `dns_live` | DnsForwarder | 330 000 | `ForwardReturns`, `WaitEnds` |
| `leaf_forge` | LeafForgeQueue | 136 000 | `SlotsAccounted`, `OneForgePerName`, `ForgesYield`, `EveryCallAnswered`, `ImplementsPool` |
| `ext_rules` | ExtensionRules | 396 000 | `SettledEnforced`, `ListKept`, `EventuallyEnforced`, `TypeOK` |
| `engine` | EngineManager | 342 000 | `LatchOwned`, `SingleSpawn`, `Obeyed` |

Run one with `tlc -config PolicyStore.cfg MCPolicyStore`, and so on. Each property is stated in
words above its definition.

**Bounds, and why they are enough.**
* *PolicyStore*: two hosts (a decision on one must leave the other alone), four appends, one torn
  append. Damage spreads to the two records behind a torn one, so four appends show a record lost,
  its neighbour lost, and a chain that has found its footing again. `EventCap` 1 makes the cap bite.
* *TcpSession*: two configurations, because each half of a flow multiplies the other. Receiving:
  six bytes, segments of up to three, a reassembly cap of four bytes and two entries, so that
  segments overlap a buffered entry on either side, fill a gap and drain two entries, and meet both
  caps. Sending and closing: three bytes against a send cap of two and a segment size of two,
  windows 0, 1 and 2, one byte of the client's, one retransmission, every stray packet, short clocks:
  windows that shut on data in flight, partial acknowledgement, overflow, FINs in either order and
  at once. The upstream's own queue overflows in the first only. The sequence
  space is 16 or 32, more than twice what a flow uses (as 2^32 is of a window), and both initial
  numbers lie just below the wrap.
* *FlowTable*: two readers and two flows on a table of one entry make each birth meet a victim and
  every race need only one more thread; two births give a stale session and its successor. The
  liveness run needs one reader and three births, the least at which the log and the table have
  come apart in both directions.
* *DnsForwarder*: two slots, three ids (one free while the table is full, so ids are used again at
  once), two questions (an answer may or may not repeat the newer one's), three queries. The liveness run
  has one slot and one id for its three queries: a claimant that has freed the slot and not yet the
  log entry takes the entry of the query that used the id again, which is how the log and the table
  come apart, and eviction meets a full table with an empty log.
* *LeafForgeQueue*: one slot, the code's default, three names and four callers: one forges, two wait,
  and one shares. Two slots with four names and five callers (10.6 million states) were checked once
  by hand for the invariants; any number of them is what the theorems are about.
* *ExtensionRules*: one site, one line, one tier, two lists of which the second leaves no room for the
  line, two message handlers and two events (messages, published lists, calls that fail, kills, in any
  mix) on top of any number of worker starts, syncs
  and teardowns. Two events make a decision meet another, a kill, a failing call or a new list, each
  with the start block and a sync in between; a third multiplies the states past what a run can hold.
* *EngineManager*: two overlapping calls, two processes and three events (changes of mind, crashes,
  slow probes, failed spawns, quits), beside the process that a failed spawn never made. Two processes are a double spawn, which one event reaches; the other
  two take the handle from under it and quit the app on top. A third caller changes nothing a second does not do:
  the calls share the latch and the handle only.

Symmetry is used on hosts, flows, readers, ids and questions, in the runs that check no liveness.
Where liveness is checked, a new message, call or process takes one chosen slot of those that are free
(`FreeSlot`, `IdleCaller`, `NewEngine`): nothing tells the free ones apart.
`CHECK_DEADLOCK FALSE` stands where the system may really stop: all queries asked, all calls
answered, all births used and the tables closed.

**Fairness.** Nothing is assumed of clients, upstreams, resolvers, callers or disks. In
`TcpSession!FairSpec` the dispatcher's tick recurs: the service launches a ticker with the tunnel
that calls `onTick` every 100 ms (`VpnFilterService.kt` 353-378) until the tunnel goes. In
`FlowTable!FairSpec` each thread that has entered the dispatcher goes on, and the ticker and the
closer finish what they began; no reader is assumed to enter. In
`DnsForwarder!FairSpec` the tun reader goes on inside `forward` and `close`, a reader that was
cancelled leaves its loop and closes (`VpnFilterService.kt` 293-335: the loop asks `isActive`, and
teardown closes the fd its read waits on), and delays end; the receiver, which needs an upstream that
answers, has no fairness. In `LeafForgeQueue!FairSpec` the
event loop runs what is queued (microtasks and immediates). In `ExtensionRules!FairSpec` the event
loop runs what is due, an event wakes a worker (the periodic alarms do, if nothing else), the hourly
alarm's sync is started again and again (strong fairness: the alarm repeats, whether or not a sync is
in flight when it rings), and the browser tears down idle workers again and again; messages, kills and
failing calls are bounded by `MaxEvents` and owed nothing. In `EngineManager!FairSpec` calls go on,
processes boot, obey and exit, the deadlines of 30 s and 5 s pass (strong fairness: a clock does not
wait for its call), and a user whose wish is not met presses the button again. That last assumption
is one on the user: the code retries nothing, and a start() or stop() that lost a race reports so.
`SilentFlowEnds` says what ticks alone
achieve once both peers are silent, and `FlightResolved` holds while they keep talking.

## 4. Findings

1. **A torn append costs later records** (`policyStore.ts:335`, run `policy_torn`). The file's
   comment promises that a failed append never trips up the next write. It does when part of the
   line reached the disk: the next record, whose append succeeds, is glued to those bytes, and the
   one after it carries the hash of a line that is not in the file. `DamageBounded` shows that it
   ends there and `OpenReportsLoss` that the next open counts it.
2. **Bytes before the SYN are dropped** (`TcpSession.kt:447`, run `tcp_early`). The upstream's
   worker starts in the session's constructor, before the dispatcher hands over the SYN; what it
   reads until then finds the state `CLOSED` and is dropped, although the comment says the upstream
   may safely call. `tcp_flow` is the same model without such early calls.

Other behaviours the models reach. They are no findings of a run, and the properties are stated
around them, in the open:

* *Extension, a stale read at wake-up* (`index.ts:156`, 1120, 1985). A message that wakes the worker
  saves its decision while the start block's own `loadSiteControl` is under way. The older answer then
  overwrites `siteControl` in memory, and the apply behind the save, and the reconcile behind that,
  plan from it: the popup is told that blocking is paused and the rules stay, until a later worker or
  sync. The comment on `reconcileDynamicRules` (548) asks for the opposite. `SettledEnforced` holds
  with the workers that met such an answer set aside (`marred`); `EventuallyEnforced` includes them.
* *Extension, lost decisions* (`index.ts:183`, 647). Two messages that read storage, await and write
  the whole value back lose one of the two decisions, in storage and all; nothing can repair it.
* *Extension, tiers* (`rulesetManager.ts:100`). The tiers may be on while blocking is paused, and the
  other way round, when a sync and a pause cross; nothing compares them before the next start or apply.
* *Extension, a list that leaves no room* (`dnrManager.ts:831-846`, 913-916, 1252-1260). When the full
  list overflows the rule budget and a hot set or the browser's own fired rules are there, the set
  installed in its stead holds none of the saved lines unless they fired. Each full apply then takes
  them out of the browser; the next worker, which holds no list, finds them missing, plans them as a
  list of their own and installs them; the next sync takes them out again. The comment on
  `customRulesAreInstalled` (1010-1023) means to exclude a repair that never converges, the one on
  `reconcileDynamicRules` (`index.ts` 551-557) that a saved rule stays unenforced.
  `SettledEnforced` and `EventuallyEnforced` hold the lines to lists that leave room for them
  (`Tight`): without that condition TLC refutes both by this loop. Decisions, list and tiers are
  claimed for every list.
* *Extension, storage that fails* (`index.ts:158-161`, 169-171, 193). A read of the site control that
  fails is taken for "nothing paused", and the decision being made is saved on top of that: the stored
  decisions are gone, what the comment on `mutateSiteControl` (175-179) wants to prevent. The same
  holds of the saved lines. A write that fails leaves memory ahead of storage. `SettledEnforced` sets
  such workers aside (`marred`); `EventuallyEnforced` is about what storage holds in the end.
* *Engine manager, a spawn that fails behind its return* (`filterProxyManager.ts:690-719`). Node reports
  EAGAIN, ENOENT or EACCES by an 'error' event, which has no listener there (the app's handler of
  uncaught exceptions, `index.ts:309`, keeps it alive), and no 'exit' follows. The handle then names a
  process that never was. start() polls for it until its 30 s are over; the next start() reads
  `starting` (610), and returns with the latch held, for, says its comment, the start in flight owns
  it and the exit handler clears it. Neither exists: every later start() answers "already starting"
  until a stop(). `LatchOwned` and `Obeyed` name this handle as the one exception.
* *Engine manager, a child killed by a signal* (`filterProxyManager.ts:701`, 727). Its exit code is
  null, which the poll takes for no exit: start() goes on to its deadline instead of failing at once.
* *Engine manager, two spawns* (`filterProxyManager.ts:736-774`). The comment on the latch and the
  test "concurrent start() calls collapse to a single spawn" hold as long as nobody clears the latch
  under a start() that is still probing. A stop(), a child's exit or the late return of an earlier
  start() do, and then a second engine is spawned and takes the handle. `SingleSpawn` says when it
  cannot happen; `Obeyed` that the user still gets what he asks for, the engine without a handle
  being retired through its shutdown route.
* *`DnsForwarder`*, known and commented in the code: between the receiver's peek and its removal the
  slot's id may change hands, and then the later query loses its slot to the earlier one's answer. The
  answer still goes to the client that asked (`RightAnswer`), the slot is still counted once
  (`SlotsAccounted`); the later query is left without an answer.

## 5. What is proved

Every safety property of the passing runs, invariant or action property, is also a theorem: it holds
for every value of the constants that satisfies the module's assumptions (`PolicyAssumption`,
`SessionAssumption`, `BoundsAssumption`, `ThreadsAssumption`, `LimitAssumption`,
`ExtensionAssumption`, `EngineAssumption`), not only for the small instances of TLC.

| theorem | says | inductive invariant |
|---|---|---|
| `PolicyStoreProofs!LedgerIsFaithful` | `[]LedgerFaithful` | `Types`, `ChainIntact` while nothing was torn, and the property |
| `PolicyStoreProofs!CleanLedgerIsReplayed` | an untorn ledger is replayed whole | the same |
| `PolicyStoreProofs!TypesHold`, `ListIsTheLedger` | `[]TypeOK`, `[]ListIsLedger` | the same, each with its property or `ListTypes` |
| `PolicyStoreProofs!DamageIsBounded` | `[]DamageBounded` | `DamageInv` |
| `PolicyStoreProofs!OpeningReportsLoss` | `OpenReportsLoss` | `DamageInv`: each lost record has a line of its own that replay skips |
| `TcpReceiveProofs!ReceiveInvariant`, `UpstreamInOrder`, `BufferIsSound` | `[]UpstreamStream`, `[]ReassemblySound` | `RcvInv` |
| `TcpSessionProofs!StatesPaired` | `[]StatePairing` | with what an unborn session holds and what the FIN flags say |
| `TcpSessionProofs!SendInvariant`, `SendBufferWhole`, `FinComesLast`, `NoSilentEnd`, `WindowKept` | `[]SendBuffer`, `[]FinAfterData`, `[]EndsHonestly`, `WindowRespected`, under `~EarlyUpstream` | `SndInv` and the one of `StatesPaired` |
| `TcpSessionProofs!SessionImplementsRelay` | `Spec => Relay!Spec`, under `~EarlyUpstream` | `RcvInv`, `SndInv`, the one of `StatesPaired` |
| `TcpSessionProofs!TypesHold` | `[]TypeOK`, under `~EarlyUpstream` | `RcvInv`, `SndInv`, `Clocks` |
| `FlowTableProofs!NothingLeaks` | `[]NoLeak` | `Types`, what the locals of a thread are at each step (`Fits`), a session taken off the table ends in one hand or is dead |
| `FlowTableProofs!CountersAreRight`, `TableStaysBounded`, `CloseLeavesNothing` | `[]CountersAgree`, `[]TableBounded`, `[]ClosedIsEmpty` | the same and `TableInv` |
| `DnsForwarderProofs!AnswersAreRight`, `SlotsAreAccounted`, `PendingIsBounded`, `WaitingIsTimed` | the four properties | `Types`, `Counted`, `Identified` |
| `LeafForgeQueueProofs!SlotsAreAccounted`, `OneForgeAtATime` | `[]SlotsAccounted`, `[]OneForgePerName` | `Types`, each queue holds exactly the jobs in its stage, once each, and both properties |
| `LeafForgeQueueProofs!BurstsYield` | `[]ForgesYield` | the same and `YieldInv` |
| `LeafForgeQueueProofs!QueueImplementsPool` | `Spec => Pool!Spec` | the first, and jobs wait in the order they came |
| `ExtensionRulesProofs!ListIsKept` | `ListKept` | `Ordered`, `AnswerAhead`, `WriteAhead` |
| `ExtensionRulesProofs!TypesHold` | `[]TypeOK` | `Typed` |
| `ExtensionRulesProofs!SettledIsEnforced` | `[]SettledEnforced` | `Typed` and `Repair` |
| `EngineManagerProofs!LatchIsOwned`, `OneSpawn` | `[]LatchOwned`, `[]SingleSpawn` | both properties, `HolderLatched`, `OrphansThere` |
| `EngineManagerProofs!TypesHold` | `[]TypeOK` | itself |

Why the strengthenings are needed:

* *Ledger.* `LedgerFaithful` compares memory with a replay. An append keeps it only if the new line
  is accepted, and that needs the anchor to be the hash of the last physical line: `ChainIntact`
  says that every line parses, that each carries the hash of the one before, and that the anchor is
  the last one. `Standing` is the last matching line, so that one more accepted line changes it as
  the set was changed; a lemma says so for each action.
* *Damage to the ledger.* "At most two records for each tear" is not inductive: the loss comes later
  than the tear. `DamageInv` adds to the records already lost what the damage may still cost
  (`Owed`): two while bytes without a newline end the file (the record glued to them, and the one
  that chains to it), one while the anchor is not the last line on disk.
* *TCP, receiving.* A sequence number says where a byte belongs only if it is known how far along the
  stream the session is. `RcvInv` says that a live session stands at some position p of the client's
  stream with rcvNxt its number, that p is past the end exactly when the FIN was consumed, and that
  the buffer holds pieces of that stream beyond p, each under its own number, under both caps.
* *TCP, sending.* `SndInv` does the same for the upstream's stream: sndUna and sndNxt are the numbers
  of positions u and x, unacknowledged segments and the queue are the interval from u to what was
  produced (`Sending`), or everything has left and the FIN's number is the one behind the last byte
  (`Finished`). A partial acknowledgement, a prune, a re-cut by a smaller window and a retransmission
  all keep one interval. From it follow `SendBuffer`, `FinAfterData` and that no byte leaves outside
  the window; `EndsHonestly` also needs what the states say of the FINs (`StatePairing`).
  The hypothesis `~EarlyUpstream` is that of run `tcp_flow`; without it these fail, and `tcp_early`
  shows how (finding 2). What holds of the receiving half and of the states needs no such hypothesis.
* *Refinement of the session.* The invariants say where each stream stands before and after a step;
  what a step adds is that neither goes back (`Further` for what is given, shut and acknowledged,
  `AckMoves` for what is confirmed). A step that ends the flow without a reset is a `Close`: by
  `EndsHonestly` our FIN was confirmed and the client's was consumed, and by `RcvInv` a consumed FIN
  was passed on to the upstream.
* *Flow table.* A session may be neither in the table nor in a reader's hand only when it is dead.
  The races show as pairs (a reader between its insert and its re-check, `close()` between flag and
  sweep); `Fits` ties each thread's local session to its step, so that a removal by one thread can
  be told from a removal of the same key by another. `TableBounded` needs to know which readers are past the
  check. After `closed` is set every entry is `Covered`: `close()` still has its key ahead of it or in
  hand, or the reader that made it has yet to look at `closed` again.
* *Forwarder.* `Counted` carries the balance of slots with the reader's guarantee that between the
  eviction and the insert nobody else fills a slot. `Identified` ties every id in the table to the
  query that was given it, every claimant to what it claimed, and every waiting query to its timer.
* *Forge queue.* Counting slots needs the stages of jobs and the queues to agree: a granted job that
  is missing from `immediates` would hold its slot for ever. `Queued` states it for each queue, and
  the finite sets of jobs in a stage change by one element a step. `YieldInv`: at most one job that
  waited is ready, the one granted last, and with the forges that waited since the poll and the
  immediates still due they are at most `limit`, because what was queued when the check phase began
  held a slot each. A burst never starves the loop for longer; with a limit of two or more it does
  forge back to back up to that bound, as `leafForgeQueue.ts` 30-31 says, and jobs that find a slot
  free on arrival are not bounded by the queue at all.
* *Refinement of the queue.* Initial states map to the empty pool. `Share` is a `Join`, `Start` a
  `Request`, `Forge` an `End`, `Settle` an `Answer`. That a released slot goes to the oldest queued
  request needs the waiting jobs in the order of their numbers, and that `Start` of a name finds no
  open request needs the dedupe map (`OneForgePerName`).
* *Blocklist.* A version of the list is held by the hub, an answer under way, the worker and the
  browser. None is ahead of the hub (`Ordered`); an answer is not behind the worker or the browser,
  because syncs are single-flight (`AnswerAhead`); what an apply is about to write was read from the
  browser as it is, because applies are chained, and is no older list (`WriteAhead`). A worker that is
  torn down falls back to no list, which is why `Installed` must keep what is there.
* *Settled extension.* `SettledEnforced` speaks of states with nothing under way, and says nothing of
  how they are reached. `Repair` is true at every step: memory is what is stored, from the moment it
  was read (`Agree`), and either an apply is still to read what it will write, or the write under way
  is what is wanted, or the browser has it, or the start block has yet to look (`RepairDue`).
  Both rest on storage answering in the order of its calls and on applies running one behind the
  other, so the type invariant carries who stands in which queue (`Places`). What the theorem says of
  the saved lines has two exceptions, both in its statement: a worker that met a failing call
  (`marred`), and an installed list of `Tight`.
* *Engine manager.* A start() between its latch and its spawn holds the latch unless it was overtaken
  (`HolderLatched`): then a silent probe means `stopped` only if there is no handle, and by
  `SingleSpawn` nothing runs untold when it spawns. `LatchOwned` needs that a handle's process has not
  gone, and that an exit clears the latch whoever holds it; a handle of `NoProcess` is the case of a
  failed spawn, where the latch has a handle behind it that clears nothing (section 4).
* *TCP states.* Each handler's exits are followed one by one; that the state never claims a FIN that
  was not sent or consumed needs the fields of a session that has not seen its SYN.

Each proof goes action by action, and below an action conjunct by conjunct of the invariant. Three
devices carry those about the session and the ledger:

* *Positions for numbers.* `ClientSeqs` and `ServerSeqs` say that within the length of a flow two
  positions are ordered as their sequence numbers compare, although these wrap: the one fact about `%`
  the rest needs, from `SeqMod` being more than twice a flow.
* *Loops.* Draining the reassembly map, cutting the queue into segments and replaying a file are
  recursive functions in the models, and what they compute is proved by induction. The induction
  theorems of the library take an operator, which the provers here cannot instantiate; `SetInduction`
  takes a set instead (a set of naturals that holds 0 and every successor is all of them), and is proved from
  the library's facts on finite sets. `Draining`, `Emitting` and `Replaying` say that a given
  function satisfies the equations of the loop.
* *Least elements.* The entry that drains next and the first segment an acknowledgement leaves
  unpruned are chosen by `CHOOSE`; `Least` gives the witness.

**Only model-checked.** Liveness: `SilentFlowEnds`, `FlightResolved`, `DeadFlowsLeave`,
`EvictionEnds`, `ForwardReturns`, `WaitEnds`, `EveryCallAnswered`, the liveness half of
`ImplementsPool`, `EventuallyEnforced`, `Obeyed`. They rest on fairness, hence on ENABLED, which the
prover does not reason about.

## 6. What is not modelled

* Rule parsing, deduplication and evaluation (`core`), response rewriting, packet codecs: pure
  functions over text and bytes, with unit tests; the precedence in `evaluateRequest` could be
  checked against a reference definition.
* Windows, screens, stores of settings, the command line, Home Assistant entities: event handlers
  over plain state.
* Key generation and wrapping in the CA: external tools.
* Compiled lists, build scripts, training scripts: data and offline code.
* Counters that only feed a status page (`droppedUnknown`, `receiveErrors` and the like).
* Of the engine manager: the posture in which a capture service owns the engine (start and stop then
  refuse), the readiness checks that precede a spawn, the CA's drift, and `daemonManager.ts`, which has
  the same lifecycle without the latch.
* Of a TCP session: two ends it may come to before its SYN is handed over. An eviction or close() of
  the dispatcher, or a lost race to enter the table, may abort it there, and it then ends with no RST
  (`TcpDispatcher.kt:145`, 176; `TcpSession.kt:644`); an RST that overtakes the SYN ends it too. Any
  other packet that overtakes the SYN is modelled (`Overtaking`), and is answered with a reset.
* Of the extension: compilation of rules, cosmetic rules, the hit ledger, the popup, and
  alarms the browser has lost (`reconcileAlarms`).
* Most of the repository by size: bundled engines of the Home Assistant add-on, React views and the
  text classifiers of `core/src/ai` are large and hold little state that several actors share.
* A progress guarantee for a client whose window update was lost: the endpoint sends no window
  probe, by design of a link that is inside one device, and nothing short of a model of the
  client's own persist timer would show whether the flow resumes before it is reaped.

## 7. Plan

In this order:

1. **VpnTunnel** (`VpnFilterService.kt` 171-336, 400-460): start, restart and stop against a reader
   coroutine that is cancelled but still in its setup. It composes with `FlowTable` through the two
   readers assumed there.
2. **Upstream** (`HubUpstream.kt`) and **UdpRelay** (`UdpDispatcher.kt` 168-240): the worker and
   reader threads below a session; the abort that races the dial, the reader that leaves on an ICMP
   error while sends keep the session young.
3. **DaemonReload** (`system-daemon/src/index.ts` 28-139): a reload that awaits while names are
   answered and another reload starts; `daemonManager.ts` as a second instance of `EngineManager`.
4. **Abstract specifications**: a store of two sets with a list of saved decisions, implemented by
   `PolicyStore`; a set of held slots, by `DnsForwarder`'s table. Each is small, and states
   the promise in its `Next`.
