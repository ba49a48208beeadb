# TLA+ models of 3x-ui-multiport

3x-ui-multiport is a panel for an Xray proxy core.  One Go process serves the
web interface and the subscriptions, keeps inbounds, clients and their traffic
in a database, generates the configuration of a core it runs as a child
process, patches that core through its gRPC API, accounts for traffic every few
seconds, and drives other panels ("nodes") over HTTP.  Nearly all that is hard
in it is concurrency between HTTP handlers, cron jobs (a job may overlap its
own previous run), the process of the core, and shutdown.

The modules here model its concurrent parts, TLC checks them on small
instances, and TLAPS proves the central properties for any size.  Paths below
are relative to `src/internal/` unless they begin with `src/`.

- [Inventory](#inventory)
- [Modules](#modules): state, actions, properties, bounds, fairness, proofs
- [Where code and comments disagree](#where-code-and-comments-disagree)
- [What is not modelled](#what-is-not-modelled)
- [Plan](#plan)
- [Running the checks](#running-the-checks)

## Inventory

| Component | State | Operations | Hard behaviour | What makes it correct | Here |
|---|---|---|---|---|---|
| Traffic writer `web/service/traffic_writer.go` | queue, context and done channel of the current generation, behind `twMu` | Start, Stop, submit, consumer goroutine | Stop against waiting submitters, drain, panic, inline fallback, full queue | no write lost, doubled or misreported; all calls return; one writer | `TrafficWriter`, `WriteOnce`, `TrafficWriterProofs` |
| Xray supervision `web/service/xray.go`, `xray/process.go` | process, snapshot of its configuration, need-restart and manual-stop flags | RestartXray, hot apply, StopXray, watchdog, flag job | edits during a restart, partial hot apply, crash, two callers, flags read outside the lock | the core serves what the database says, or somebody knows it does not; a dead core comes back; a stopped one stays down | `XraySupervisor`, `XraySupervisorProofs` |
| Client operations `web/service/client_*.go` | rows, settings JSON, per-inbound mutexes | add, update, delete, bulk, attach, groups | row read before and saved inside the serialized write; push after commit | no lost update; rows, links and settings agree | commit and push in `XraySupervisor`, update over several inbounds in `TrafficAccounting` |
| WebSocket hub `web/websocket/hub.go`, `web/service/panel/websocket.go` | registry, two queues, one buffer per client | register, unregister, broadcast, evict, stop; two pumps per connection | full queues, unordered arrival, eviction, panic, shutdown races | ordered stream without gaps; no ghost clients; nobody blocked; all cut off at the end | `WebSocketHub`, `WebSocketHubProofs` |
| Node configuration sync `web/runtime/remote.go`, `web/service/inbound.go`, `inbound_node.go`, `node.go`, `web/job/node_traffic_sync_job.go` | dirty flag and stamp, tag cache, fingerprints, the node's own rows, a snapshot in flight | live push, mark, reconcile, snapshot, merge | node offline, answers lost or late, a tick racing an edit, crash between push and mark | node and panel converge; no edit lost; only deletes delete | `NodeConfigSync`, `NodeConfigSyncProofs` |
| Traffic accounting and quota `web/service/inbound_traffic.go`, `inbound_disable.go`, `client_traffic.go`, `xray/api.go` | rows of `client_traffics`, enable flags in row, record and settings, expiry, `StatsLastValues` | poll, add, delayed start, renewal, depletion, reset | edits that save stale settings, late or rolled-back polls, restarts between two polls | nothing counted twice; the three places agree; depleted means disabled; a reset lets in | `TrafficAccounting`, `TrafficAccountingProofs` |
| Hot diff `xray/hot_diff.go`, `tryHotApply` and `GetXrayConfig` of `web/service/xray.go` | none (pure) | generate, compare, apply | order of removals and additions, ports and positions that change hands, default outbound, handlers the snapshot does not know | the operations make the core a restart would have given, and none is refused | `HotDiff`, `SettingsReachCore`, `HotDiffProofs` |
| Event bus `eventbus/bus.go` | channel, subscribers | publish, subscribe, stop | overflow, subscriber changes during a delivery | order per subscriber, no blocking | planned |
| Service manager `servicemanager/` | one process per external protocol | start, stop, restart | a lock taken twice, stop against start | calls return | planned |
| Mtproto sidecars `mtproto/` | processes by inbound, one mutex | ensure, stop all, scrape | orphans of a previous run | desired and running agree | not modelled |
| Outbound subscriptions `web/service/outbound_subscription.go` | fetched outbounds, stable tags | refresh, merge | mostly data | tags stay stable | not modelled |
| Client IP limit `web/job/check_client_ip_job.go` | addresses seen per client | scan, ban list | parsing | limits enforced outside | not modelled |
| Subscription server `sub/` | none | render links and profiles | data | output format | not modelled |
| Monitor, performance helpers, protocol wrappers | health history, pools and caches, registries | checks, alerts, generation | little interaction | independent of the rest | not modelled |
| Xray settings editor `src/frontend/src/pages/xray`, `hooks/useXraySetting.ts` | cached query, text and object copy of the template, baseline, open form, saves in flight | type, forms, rename, WARP, save, reset, refetch | refetch and save answers in any order, positions kept across a reseed, references between entries | the two copies agree; clean means stored; no edit lost without news; no reference left dangling | `XrayTemplate`, `XrayTemplateProofs`, `TemplateEditor`, `TemplateEditorProofs` |
| Telegram, e-mail, controllers, sessions, other pages | user sessions | front ends | call the services above | access control | not modelled |
| Database `database/` | tables | migrations | run once at start | | transactions taken as atomic |

**How they interact.**  `src/main.go` starts the web server; `web/web.go` starts
the traffic writer and the hub, registers the cron jobs, and in `stop` ends
them in the order: core, cron (not waiting for jobs that run), event bus,
traffic writer, hub, HTTP server.  On SIGHUP the panel alone is stopped and a
new server with a new hub is made in the same process, while core and traffic
writer stay.  An HTTP handler that edits clients takes the mutex of the inbound,
commits through the traffic writer, and then pushes to the local core or to a
node; a failed push raises the need-restart flag, or the dirty flag of the node.
The 5 s traffic job goes through the traffic writer too, may disable clients,
and may restart the core.  The watchdog (1 s) and the flag job (30 s) restart
the core.  All of them broadcast through the hub.

The full list of what is hard to test, each with its line and the property that
covers it, and with what no property covers and why, is `hazards` in `PROJECT.json`.
Where the code cannot keep an edit, a renewal or a form from going wrong, the property
exempts the case and the hazard's note says so.

## Modules

### WriteOnce and TrafficWriter

`WriteOnce` is what callers of `submitTrafficWrite` may rely on, with no queue,
goroutine or mutex: a write is refused before anybody took charge of it, and then
never runs, or it is accepted, runs exactly once, and its caller is told what
that one execution returned.

`TrafficWriter` is the code.  A *generation* is what one call of
`StartTrafficWriter` creates: queue, context, done channel, goroutine.

| Code | Model |
|---|---|
| `twQueue`, `twCtx`, `twCancel`, `twDone` | `twCur`, the generation they belong to (0: nil) |
| the channel, its context, `close(done)` | `queue[g]`, `ctxDone[g]`, `writer[g] = "closed"` |
| `twMu` held while a submitter waits for room | `twMu` (the short critical sections are single steps) |
| `runTrafficWriter`: select, then drain | `WriterTakes`, `WriterReplies`, `WriterSeesCancel`, `WriterEnds` |
| `submitTrafficWrite` | `Submit`, `Enqueue` or `QueueFull`, `WaitEnds`; inline: `InlineReturns` |
| `safeApply` | `SafeApply` |

Run `tw`: three submissions, two controllers, two generations, a queue of one.
Three submissions are one being run, one in the queue and one waiting with the
mutex; two generations are enough for an old one to be confused with a new one.

- `OneReachableWriter`: never two consumer goroutines, and none that
  `StopTrafficWriter` could no longer reach, although the second half of Stop
  runs after the mutex was given up.
- `AnswerIsTrue`: what a call returns is what happened to its write, even when
  the answer and the closing of `done` arrive together.  In particular the error
  "traffic writer stopped before write completed" is never returned.
- `DoneMeansDrained`: when `done` is closed every request of the generation has
  its answer, so no accepted request is left behind by a stop.
- `EveryCallReturns`, `EveryStopReturns`: nobody waits for ever.
- `KeepsPromise`: `TrafficWriter` implements `WriteOnce`.

*Fairness*: weak, of the consumer goroutine, of every submission that has begun
and of the second half of a Stop: goroutines are scheduled, and write functions
end.  Nobody is obliged to call Start, Stop or submit.

*Proved* (`TrafficWriterProofs`, any number of requests, controllers and
generations, any queue size; assumption `ConstantsAssumption`): `TypeCorrect`,
`OneWriter`, `TrueAnswers`, `Drained`, and the refinement `Implementation`.
None of them is inductive alone.  `IInv` adds four conjuncts: *Current* (only
the generation the variables point to can be alive, and a goroutine drains or
ends only when its context is cancelled),
*Sending* (who holds `twMu` waits for room in the current, uncancelled queue),
*Custody* (a waiting request is in one queue or one hand of its own generation,
or has been answered; nothing is in two places) and *Accounts* (runs, reply and
verdict of a request agree with its phase).  `Sending` is the heart: because a
submitter keeps the mutex while it waits for room, Stop cannot cancel between
the check of the context and the send, and that is why a drained queue stays
empty.  Each step of the three kinds of actor is one lemma.  The refinement
maps each request's phase, runs and reply to its abstract status; one lemma per
action that changes the abstract state, a stutter for the others.  Liveness is
only model-checked (it needs fairness).

### XraySupervisor

| Code | Model |
|---|---|
| what `GetXrayConfig` would generate now | `desired` (the enabled clients of each inbound, and a *base*: the sections without reload API) |
| `p.GetConfig()`, the configuration the core was last given | `snap` |
| the clients the core serves | `live` |
| `isNeedXrayRestart`, `isManuallyStopped`, `checkTime` | `needRestart`, `manual`, `checkTime` |
| `lock`, and where its holder is in `RestartXray` | `holder`, `at`, `cfg`, `gone`, `fresh` |
| a goroutine that decided to call `RestartXray` and has no lock yet | `task[c]` |
| `addInboundClient`, `delInboundClients` | `CommitClient`, then `PushClient`, `PushFindsNothing` or `PushFails` |
| `CheckXrayRunningJob.Run`, the 30 s function of `startTask`, `XrayTrafficJob.Run`, `updateSetting` (template; panel settings), the restart button | `WatchdogTick`, `FlagJob`, `TrafficJob`, `SaveSettings`, `SaveEgress`, `PanelRestart` |
| `RestartXray` line by line | `Acquire`, `ReadConfig`/`ConfigFails`, `NothingToDo`/`Decide`, `HotRemove`, `HotAdd`, `HotApplied`/`HotFails`, `StopOld`, `StartNew`/`StartFails` |

A failing API call may or may not have acted on the core.  `missed` records
which inbounds a push failed for since the core last took them in; no action
reads it.

- `HiddenDriftIsMissed`: a core that serves other clients than the database has,
  while the snapshot agrees with the database (so that no reconciliation would
  notice), is always the trace of a *failed push*, never of the order in which
  commits, pushes, crashes, hot applies and restarts happen to interleave.
- `HotApplyConverges`: a hot apply that reports success leaves every inbound
  that was not edited meanwhile and missed no push as the database has it.
- `ManualMeansDown`: with the lock free, a core that was stopped from the panel
  is down.
- `WatchdogRepairs`: a core that is down and was not stopped is started again.

Run `xs` (safety): two inbounds, one client, two bases, two callers, three
edits, one fault, 2.3 million states under symmetry.  Two inbounds are one that
changes in the snapshot and one that does not; three edits are an add, a remove
and a change elsewhere; two callers are one in the lock and one that decided on
what it saw before.  Run `xs_live`: one inbound, three faults, so that start,
configuration and core may fail one after the other.  *Fairness* there: the cron
fires the watchdog, a caller gets the lock, and the lock's holder goes on (every
wait in it has a timeout).  Faults are bounded, which is what "eventually" needs:
a core that can never start is not repaired.

*Proved* (`XraySupervisorProofs`, any inbounds, clients, callers and bounds):
`TypeCorrect`, `StoppedIsDown`, `DriftIsMissed`, `HotApplyRepairs`.  The
inductive invariant `IInv` has three conjuncts beside the types.  *Stopped*: a
manual stop stands only while the lock is free and the core is down.
*Patching*: the sets of a hot apply are empty outside it, disjoint, and contain
changed inbounds only; and the core is down when `RestartXray` is to start it.
*Accounted* is the idea: in an inbound that missed no push, each single client is
served as the core was last *given* it (by the snapshot, or by the configuration
once the inbound has been put back) or as the database has it *now*, unless its
push is still to come.  Stated per inbound this would not be inductive, since
some clients of an inbound may be newer than the snapshot and others not; stated
per client, a commit exempts the client it toggles, and its push settles it.
Where snapshot and database agree the two alternatives coincide, which gives
`DriftIsMissed`; at the end of a hot apply "given" is the new configuration
everywhere, which gives `HotApplyRepairs`.

### WebSocketHub

| Code | Model |
|---|---|
| `h.clients`, `h.ops`, `h.broadcast`, `h.ctx` | `registry`, `ops`, `broadcast`, `ctxDone` |
| `Run` and `runOnce` | `hub` ("run", "backoff", "down") with `HubTakesOp`, `HubFansOut`, `HubShutsDown`, `HubCrashes`, `HubResumes` |
| `c.Send`, closed at most once | `send[c]`, `closed[c]` |
| `HandleConnection`, `readPump` | `reader[c]`: `Connect`, `Register`, `ReadFails`, `Unregister` |
| `writePump` | `writer[c]`: `WriterTakes`, `WriterSeesClose`, `PingFails` |
| `Broadcast` (sees a client), then `enqueue` | `Broadcast`, then `Enqueue` |

Messages are serial numbers modulo `Wrap`, given when a message enters the
queue.  A panic loses what the hub was handling; none can strike inside the
sections that hold `h.mu`, which only delete from a map and close a channel once.

- `NoGaps`: what a client has taken, then its buffer, then (while it is
  registered) the hub's queue are consecutive messages: nothing reordered,
  repeated or skipped.  A client too slow for that is evicted instead.
- `NoGhosts`: a client whose unregistration was accepted is not in the registry
  once it has been handled.
- `StragglersEvicted`: a client whose unregistration was *dropped* leaves the
  registry all the same, because its buffer fills.
- `EvictedIsCutOff`: whoever is evicted is disconnected.
- `RegisterReturns`: nobody waits for ever to register.

Run `ws` (safety): two connections, buffers of two places, queues of one, two
attempts, `Wrap` 5 (above the four messages that can be in sight).  Run
`ws_live`: buffers and queues of one and one attempt, two connections, so that
one registers while the other is evicted; the properties need no numbers, and
`Wrap` is 1.  Panics that end in another attempt are in `ws`.  *Fairness* of
`ws_live`: strong for the hub's two receives and for the sends of `Register`
(Go's select and channel queues starve nobody), weak for the rest; jobs keep
broadcasting while there is a client; a pump whose connection was closed
*from this side* notices.  No peer has to do anything.  In both, deadlock is not
an error: after Stop the system may come to rest.

*Proved* (`WebSocketHubProofs`, any number of clients, calls and attempts, any
sizes of queues and buffers; assumption `ConstantsAssumption`): `TypeCorrect`,
`GhostsGone`, `StreamsHaveNoGaps`.  The types need *Budget* (a hub that has not
given up has an attempt left).  `NoGhosts` is inductive only with *InOrder*: of
a client whose read pump has left, the hub's queue holds an unregistration
behind every registration, as long as queue or registry still hold the client;
that is what one queue for both kinds of operation buys.  `NoGaps` follows from
*Flow*: queue and buffers are consecutive, a client registers once and is
untouched until then, and the first message the hub is still to fan out is the
successor of the last one of every registered stream that has begun.  A fan-out
extends all those streams by that message and unregisters the clients it could
not reach, so the statement survives; the lemma `Joins` turns it into the
concatenation that `NoGaps` speaks of.  Liveness of the hub is only model-checked.

### XrayTemplate and TemplateEditor

`XrayTemplate` is the data the settings page edits, cut down to what refers to
what: outbounds (tag, dialer proxy), rules (target outbound or balancer,
enabled, subject), balancers (tag, selector, fallback, strategy) and the two
observatories; and the pure functions of the page on them:
`propagateOutboundTagRename`, `syncOutbound`, `syncObservatories`,
`EnsureStatsRouting` of the panel.  `TemplateEditor` is the page.

| Code | Model |
|---|---|
| `xrayTemplateConfig` in the panel's settings, what subscriptions add | `server`, `subs` |
| the config query: data, `isInvalidated`, `isError`, fetch in flight | `config`, `invalid`, `failed`, `fetch` |
| `xraySetting`, `templateSettings`, `oldXraySettingRef`, `saveDisabled` | `text`, `template`, `old`, `saveDisabled` |
| the open form or confirmation with its `editingIndex` | `modal` |
| `saveMut`, `changeIp`, logout of NordVPN, deletion of the WARP account, reset to default | `saves`, `rotation`, `leaving`, `deleting`, `resetting` |
| seeding effect, structural sharing | `FetchLand`, `Seed` |
| the timer that compares once a second | `Poll` |
| `updateSetting`: stored and applied, stored only, refused | `SaveAccept`, `SaveStoredOnly`, `SaveRefuse` |

A request whose answer changes the template is asked and answered in two actions,
between which the user may close the window, edit, and open another form:
`RotateAsk` to `RotateAnswer`, `NordLogoutAsk` and `NordLogoutAnswer`, `WarpLeaveAsk` and
`WarpLeaveAnswer`, `DefaultAsk` and `DefaultAnswer`.  One request of each of these
kinds is in flight at a time; the button shows that it is loading, and a window that
was closed and opened again is not taken further.

What a form offers besides the template's own outbounds (those of subscriptions and
of the clients' reverse proxies) is the constant `Offered`.  The selector of a balancer is
free text: a member of `Selectors`, any sets of tags in the proofs, or what it was.
An entry is a tag, not the beginning of one: for `NoNewDangling` an entry that only begins tags
names none of them.

`modal.seen`, `modal.tags`, `modal.replaced`, `others`, `key`, `stored` and the
`mine` flags only record; they say what the exemptions of the properties are.

- `TextTellsTemplate`: text and forms never tell different stories.
- `CleanMeansStored`: a page at rest that calls itself clean shows what the panel
  stores.
- `EditsGiveWayToNews`: without news no refetch takes an unsaved edit away.
- `FormsHitTheirTarget`: a form is applied to the entry it was opened on, unless news
  or the answer to such a request changed the template under it.
- `NoNewDangling`: no form leaves a reference that names nothing, except to what
  it removes and what is typed as the selector of a balancer.
- `ObserversFollow`: the observatories stay what the balancers need, except when
  an observed outbound is renamed from the outbounds' side.

Run `editor`: four tags (`direct`, `blocked` and `warp`, which the code treats
specially, and one more, which is also NordVPN's and the one on offer), two edits, four
events, two saves in flight, and a selector of two tags to type, besides the one there
is: it may name what has been removed.  An edit
needs a form and a confirmation, a race needs an edit, a save or a refetch, and
something in between: four events; two saves, so that their answers cross.  No
user has to do anything, so there is no fairness here.

The exemptions are the page's real limits, each found as a counterexample: a
reseed for *any* changed data (the subscriptions' outbounds as well) discards
unsaved edits; a save that is stored but fails to restart the core leaves the
page dirty over what is stored; a reset, a reseed, the logout of NordVPN and the
deletion of the WARP account, whose outbound is removed when the answer comes, move
entries under an open form, which keeps its position; a balancer may be given a
selector that no outbound has; a rename changes the
selectors of a balancer without `syncObservatories`; deleting an outbound or a
balancer leaves rules that name it; the basic view adds a rule that blocks
without an outbound to block with.

*Proved* (`XrayTemplateProofs` on the functions, `TemplateEditorProofs` on the page; any
tags, templates of any length, any bounds; assumptions `EditorAssumption`, that the two
templates given are templates, and `TemplateAssumption`, that the tags the code knows by
name are tags and that none of them stands for "no tag"): `TypeOK` and all six, by `TypeCorrect`,
`TextTells`, `EditsStay`, `FormsHit`, `CleanStored`, `NoDangling` and `Observers`.

- `TypeCorrect` rests on `Typed`, which is inductive where `TypeOK` is not: a seeded page has
  a template, an open form has an item of its kind, an answer on its way carries data.
  TLC checked `Typed` on a small instance before it was proved.
- `TextTells` is inductive.  `EditsStay` needs that without news every answer on its way and
  the cached data carry the template the panel had at first.  `FormsHit` needs that without
  news and without a replacement the lists under a form are changed by the form alone:
  an answer that does change the template under a form is recorded in `modal.replaced`.
  `CleanStored` follows how the baseline, the cached data, the fetch and the saves relate to
  what the panel stores, also while something is in flight.
- `NoDangling`: for every form there is a lemma on its function (`AddOutboundFollows`,
  `ReplaceBalancerFollows`, ...).  What a template mentions afterwards it mentioned before or
  names something that is there; only a list that got shorter loses a tag; and a rename
  carries every mention along (`RenameMentions`).  Of a balancer form this is said of its
  fallback and of everything but the selector: that one is as the user typed it.
- `Observers`: the balancer forms end in `syncObservatories`, which gives an aligned template
  whatever it is given; the others leave the balancers and observatories alone, except the
  rename.  `Fits` is not needed.

`Without`, the filter, is a recursive function.  What it returns for lists of any length is
proved without an induction over data, by looking at a least position at which the claim
would fail (`LeastOf`).

### HotDiff and SettingsReachCore

`HotDiff` holds three functions on configurations of any size, and what the core does
with their result; it keeps no state.  `SettingsReachCore` puts them behind the settings
page: whenever the page saves, the panel generates a configuration from the new template
and tries to lead the running core there through the API.

| Code | Model |
|---|---|
| `xray.Config`: `inbounds`, `outbounds`, `routing`, the API tag, the sections without a reload API | record of `inbounds`, `outbounds`, `routing`, `api`, `static` |
| `GetXrayConfig`, `stripDisabledRules`, `mergeSubscriptionOutbounds`, `injectPanelEgress` | `GetXrayConfig`, `stripDisabledRules`, `injectPanelEgress`, `FreePort` |
| `inboundsByTag`, `parseOutbounds`: tags present, and once each | `Addressable`, `ByTag` |
| the loops of `diffInbounds` and `diffOutbounds` | `RemovedTags`, `AddedEntries` |
| `diffInbounds`, `diffOutbounds`, `diffRouting`, `ComputeHotDiff` | the same names |
| `tryHotApply`, `addInboundReconciling`, `addOutboundReconciling` | `tryHotApply`, `InboundsLeft`, `AddHandlers`, `BeforeAdding` |
| the core: handlers by tag, default outbound, a taken port is refused | `CoreStart`, `DelHandlers`, `DefaultAfter` (external) |

Configurations are compared as JSON values, as `canonicalJSON` does; the text of the
routing section, which the code compares first, makes no difference to the result.  A
port stands for what `checkPortConflict` keeps apart (address, port, transport), and
`Surrounds` takes from it that the inbounds of the database have one each.  The inbounds
come with their clients in `body`.  Left out: the bridges of nodes and of mtproto
inbounds, which are built like the panel's; the accounting `GetXrayConfig` begins with
(`TrafficAccounting`).

- `HotReloadMatches`: "It returns true when the running instance now matches newCfg".
  After every save of the page, with any of the given changes in the rest of the database,
  the operations leave a core with the inbounds, outbounds, default outbound, routing and
  fixed sections that a restart would have given; also when handlers the operations touch
  were added or deleted through the API before (`Drifts`), which the snapshot does not
  show.  A drift in an inbound the operations do *not* touch stays: that is finding
  `xs_drift`, and outside `Drifts`.
- `HotReloadSucceeds`: "Removals first so changed handlers and port swaps never collide
  with the additions that follow".  From a core that runs its snapshot no addition meets a
  taken port, the bridge included.

They are checked in the run `editor`, on every template the two edits lead to, with three
changes of the database (`MCChanges`): a client in an inbound and a bridge through a
balancer where there was none; a second inbound that takes the port of the first, so that
the bridge moves; and the outbounds of a subscription in another order.  Between them and
the edits all of it happens: removed, changed and added inbounds and outbounds, a port that
changes hands, rules and balancers replaced, a default outbound that moves and forbids the
operations.

*Proved* (`HotDiffProofs`; any template, inbounds, outbounds and changes; assumptions
`TemplateAssumption`, `EditorAssumption`, `EgressAssumption`, that the base port is a number, and
`ChangesAssumption`, that the inbounds of the database have one port each): `ReloadMatches` and
`ReloadNeverRefused`.  The first shows the core equal to the restarted one whether or not the
calls succeed in the model, so `done.ok` is not needed.

- With tags that name one entry each, `RemovedTags` are the tags of what the new list has
  not, and `AddedEntries` are what the old list had not (`RemovedFacts`, `AddedFacts`); an entry
  of both lists has none of these tags (`SharedUntouched`).  So removing and adding gives
  the new list (`HandlersReach`), wherever the core differed only in tags that are touched, and
  the default outbound, being in both, stays (`DefaultStays`).
- Before an addition the core has only handlers of the new configuration (`NoneRefused`),
  which have a port each: the bridge's is free because among one more port than there are
  inbounds one is (`FreePortFacts`, the pigeonhole theorem).
- `Typed` of `TemplateEditorProofs` says that the panel stores and the page saves templates,
  and `GeneratedFacts` that a template gives a configuration of the kind the lemmas are about.

### NodeConfigSync

One central panel and one node.

| Code | Model |
|---|---|
| the panel's rows of inbounds of the node; the node's own rows | `central`, `node` |
| `status`, `inbound_sync_mode`, `inbound_tags`, `config_dirty`, `config_dirty_at` | `status`, `mode`, `tags`, `dirty`, `dirtyAt` |
| `remoteIDByTag`, `pushedFP` of `Remote` | `ids`, `pushedFP` |
| `AddInbound`, `UpdateInbound`, `SetInboundEnable`, `DelInbound` | one action each for the beginning; then `PlanAndPush`, `CommitRow`, `Return` (with `MarkNodeDirty`) |
| `Remote.AddInbound`, `UpdateInbound`, `DelInbound` with `resolveRemoteID` | `RemoteAdd`, `RemoteUpdate`, `RemoteDel`: the set of ways the call may end |
| `syncOne` | `LoadRow`; `ReconcileNode` as `ReadInbounds`, `ListRemoteTags`, `ReconcileInbound`, `StartSweep`, `SweepTag`; `ClearNodeDirty`; `FetchTrafficSnapshot`, `ReadDirty`, `SetRemoteTraffic` |
| `probeOne`; the node's operator; a crash of the panel | `Heartbeat`, `NodeEdit`, `Restart` |

A request to the node is lost (nothing happens), late (it happens, the caller
sees an error) or answered.  `alone`, `calm`, `held` and `wish` only record: an
edit that is *held* is the last word on its inbound and none of the cases
applies in which the code cannot keep it.

- `EditsHold`: a held edit is on the node, or the node is dirty and the panel
  still has the edit; no merge, reconcile, crash or other edit takes it back.
- `Converges`: once the faults are over, the copies of every inbound the panel
  answers for become equal and stay so.

The exemptions of `EditsHold` (`Holds`) are again the real limits, and each is
needed: without any one of them TLC finds an edit that is lost.  They are: a
disabled inbound that was added (`Mirrored`); a delete that could not look up its
id (`Confirmed`); an inbound outside the allowed tags (`Managed`), which also
happens to a *new* inbound when `EnsureInboundTagAllowed` cannot write, since its
caller has SQLite's one writer; a payload equal to the last one the *reconcile*
pushed, though others went out since (`FingerprintFits`); a mark in the
millisecond of the stamp the tick loaded, a mark after the tick read the flag,
and an edit that was pushed live, so that nothing marks it, while a tick was
under way (`Timely`).  The last one is the ordinary case of an edit within the
five seconds' job: it may be undone by a reconcile or a merge of older data.

Run `node`: one tag, two requests, two edits, one fault, one upset (crash, edit
on the node or failed heartbeat), two milliseconds.  Two requests and two edits
are an edit and its rival; one fault separates panel and node; two milliseconds
distinguish a stamp from the next.  Safety was also checked, once, on larger
instances: four edits with two faults; two tags with three edits; three edits, two
faults and two upsets with two requests (20.7 million states); convergence with
two tags, with two faults and with two upsets.  *Fairness*: weak, of each request's
steps, of the two steps of the cron job (`LoadRow`, then `SyncStep`) and of the
heartbeat that finds the node online.  Goroutines are scheduled, requests have
timeouts, and both jobs are on the cron.  Faults and upsets are bounded; nobody
is obliged to edit.

What the model leaves out: one inbound's tag under the two names it may have on
the two panels (`n<id>-` prefix) is one tag, and a remote id is its tag; an inbound keeps
its tag, while `UpdateInbound` gives one with a generated tag another when its port
changes (inbound.go:1091-1099), whereupon `Remote.UpdateInbound` forgets the id of the old
one (remote.go:435); an
*offline* status also stands for a node that is disabled; the node refuses to add
what it has; database errors do not happen; a merge is one step that waits while
`AddInbound` or `UpdateInbound` has the writer, as it does on SQLite; single
clients, counters, and changes to the node's own row.

*Proved* (`NodeConfigSyncProofs`, any inbounds, contents, requests and bounds;
assumption `ConstantsAssumption`): `TypeCorrect` and `EditsAreHeld`.  `EditsHold`
is far from inductive: between the edit and the day the node is clean again, it
depends on everything under way.  `IInv` says what that is.  *TickKept*: a tick
reconciles only while the node is dirty, and its stamp is never newer than the
row's.  *RequestKept*: a calm request is alone on its inbound, its written row
stays, and if it also was alone and its push went well the node has it.  Of each
held inbound: *EditKept* (the property, and that no request is on it), *PrintKept*
(a fingerprint equal to the edit means that the node has it, and that no older
row in the tick's hands can change that), *ReconcileKept* (a reconcile with the
row's own stamp has the edit among its rows, and brings it to the node step by
step) and *SnapshotKept* (a snapshot that will be merged has the edit).  The
stamp is the heart: a mark made now gives the row another stamp than the tick has
seen, unless it is the same millisecond, and then the edit is not held.  Each
action is one lemma.  `Converges` is only model-checked: it needs fairness.

### TrafficAccounting

The clients of the local inbounds.  Whether a client may connect is written down
in three places, which nothing but the code keeps equal.

| Code | Model |
|---|---|
| `client_traffics`: `up + down`, `expiry_time`, `enable` | `db.used`, `db.expiry` (ahead, negative, behind), `db.rowOn` |
| `clients.enable`; `enable` in the settings JSON of an inbound | `db.recOn`; `db.setOn[i]` |
| the core's counters; `StatsLastValues` of the traffic job | `running`, `counter`; `seen`, `last` |
| `XrayTrafficJob.Run` | `Fetch` (`GetTraffic`), then `ApplyCommits` or `ApplyFails` (`AddTraffic`), then perhaps a restart (`asked`) |
| `addTrafficLocked`: add, `autoRenewClients`, `disableInvalidClients` | `Added`, `Renewed`, `Disabled`, joined by `Maintain` |
| `RestartXray` | `RestartBegins` (`GetXrayConfig` runs `AddTraffic(nil, nil)`), then `RestartKeepsCore` or `Relaunch` |
| `Update`, `UpdateInboundClient` | `EditBegins`; for each inbound `ReadInbound`, then `CommitInbound`; `EditFails` |
| `ResetTrafficByEmail` | `ResetBegins`, the update if the record is off, then `ZeroRow` for each inbound; `ResetFails` |
| `ResetAllClientTraffics`; `ResetAllTraffics` | `ResetMany`; `ZeroAll` |
| `SyncInbound` | `Synced`: the record says what the last synced inbound says |

A function given to the traffic writer is one step: that is what `TrafficWriter`
proves of it while the panel runs.  `owed` and `torn` only record, and
`edit.disturbed` does: bytes moved less bytes ever added; the clients somebody has
set apart.

- `NeverOvercounts`: no byte is added to a row twice, although what was fetched
  may be added after a restart, `StatsLastValues` may outlive the core it is
  about, and counters begin again at zero.  (Bytes *are* lost: before the first
  poll that sees a counter, before a crash, and in a poll that fails.)
- `SiblingsAgree`: the settings of all inbounds of a client say what its record
  says, and an enabled record has an enabled row, outside updates of that client.
- `ResetRestores`: a reset that reports success has let the client in again.
- `DepletedIsCut`: while the core runs, nobody stays enabled beyond its quota or
  expiry for ever, whatever fails in between.

The exemptions are again the real limits, and TLC finds a counterexample without
each.  A client is *torn* when another edit saved the settings of an inbound it
had read before this client changed in them (`Reverted`: an edit of one client
may re-enable another that the poll has just disabled); when its own update
stopped half way; when a poll or restart renewed or disabled it between two of
its inbounds; or when it was renewed after having been off (`HalfRenewed`, see
below).  A reset is *disturbed* when its update failed, which is only logged, or a
poll or restart touched the client after the record had been read.

Run `acct`: a client of one inbound that has a quota, moves bytes and starts its
time with the first of them, and a client of both inbounds that is renewed; three
bytes, one edit or reset.  Two inbounds are what siblings need; a counter that
falls below the last value needs two bytes seen before a crash and one after.  An
edit, or the update inside a reset, gives the client a time that starts with its
next use.  Liveness is what bounds this run: with expiries ahead and behind instead
it takes some three times as long and passes too, and safety and the inductive
invariant were once checked with two edits and any expiry (4.3 million states).
*Fairness*: weak for `Fetch` (the job is on the cron, and a core that runs
answers), strong for `ApplyCommits` (a transaction that is tried every five
seconds succeeds at last).  Nobody has to edit, restart or move bytes.  Deadlock
is not an error: with the core down the system may come to rest.

*Proved* (`TrafficAccountingProofs`, any clients, inbounds, traffic and number of
edits; assumption `ConstantsAssumption`, in which every client has an inbound and
a set of inbounds has a greatest one): `TypeCorrect`, `NoOvercount`, `Siblings` and
`Restored`.  *Counting*: what the next fetch would report and what has been fetched
and not added are together still owed.  *Consistent* extends agreement to updates
that have written nothing yet.  *Written*: the inbounds an undisturbed update has
written say what it says, which with the lemmas on `Synced` gives agreement at its
last commit.  *Enabling*: once a reset comes to the rows, the record is enabled.
`MaintainKeeps` is the heart: adding, renewing and disabling keep all of it for
every client that agrees and is not half renewed.  `DepletedIsCut` is only
model-checked.

What the model leaves out: counters and quotas of inbounds (`tx.Save` of an inbound
read earlier also takes those back), clients of nodes, totals pushed by other
panels, changes of a client's e-mail or quota, more than one editor or one fetch at
a time, statements that fail alone (the whole transaction does), an expiry equal to
the current second (`autoRenewClients` selects it and does not move it), and an
order of inbounds other than by id in the queries of a renewal.

## Where code and comments disagree

Each of the first four is a run that TLC ends with a counterexample.

1. `tw_serial`, `Serialized`.  `runSerializedTx` promises that its function never
   runs concurrently with the traffic poll.  The trace: the writer is started, a write
   is queued, `StopTrafficWriter` cancels the context, the goroutine takes the write
   while draining, and another submission, finding the context cancelled, runs inline.
   The property speaks of a writer that drains only: without any writer all calls run
   inline, but the panel starts the writer before the jobs and the server (web.go:516).
2. `xs_drift`, `HotApplyMatches`.  `tryHotApply` "returns true when the running
   instance now matches newCfg".  It compares with the snapshot, which API pushes
   do not update: add a client through the API, fail to remove it, and the core
   keeps a client the database has not, through the restart that the failure
   itself requests (the flag is taken down before `RestartXray(false)` tests it)
   and through later hot applies of other inbounds.
3. `xs_stop`, `StaysStopped`.  `updateSetting` says that "a manually stopped xray
   stays stopped"; a stop between its check and its restart is undone.
4. `ws_stop`, `StopClosesAll`.  `Stop` "signals the hub to shut down and close all
   client connections"; a registration not yet handled, or sent afterwards, is
   never handled, and its connection stays open on pings with nobody to feed it.

Two more have no run of their own; the models behave so too.

5. `SetInboundEnable` explains that a push by `DelInbound` deletes the row on the
   node and is therefore not used for the switch (#4402); `UpdateInbound` uses it
   for an inbound saved with the switch off, and the row is gone on the node, and
   after the next merge here (`NodeConfigSync`, `PlanAndPush`).
6. A test of `autoRenewClients` says that every renewed client gets a "re-enabled
   state" (inbound_autorenew_test.go:12-14).  The flag of a client's row is raised in
   memory when the first of its inbounds is visited (inbound_traffic.go:380), so the
   settings of the others stay disabled; the record, synced inbound by inbound,
   ends up disabled as well, over an enabled row.  The test's clients have one
   inbound each (`TrafficAccounting`, `EnabledAgain` and `HalfRenewed`).

## What is not modelled

- The *content* of settings and links, and of configurations beyond what `HotDiff` keeps; database errors other
  than a configuration that cannot be read; time, other than as an order of
  events that a timeout permits.
- In `XraySupervisor`: hot changes of outbounds, routing and whole inbounds (the
  base stands for all that needs a restart; `HotDiff` has them), a core that survives SIGKILL.
- In `TrafficAccounting` and `NodeConfigSync`: what is listed there; in particular
  the pushes of single clients to nodes with their tombstones, and the traffic
  baselines.
- In `TemplateEditor`: outbound tests (their results are kept by position and
  shift with the list), the drawer of the subscriptions, the DNS and balancer
  status panels.
- The components marked so in the inventory.  Front ends and renderers hold no
  state of their own between requests; mtproto and the protocol wrappers repeat,
  behind a single mutex, what the supervisor does for the core.  Most of the
  TypeScript is forms, tables, link converters and generated schemas: data in,
  data out, over one query per page.  The settings page is the one with state
  that outlives a handler, which is why it is the one modelled.
- Liveness is not proved, only checked: it needs fairness and ENABLED.

## Plan

What would come next, in order of what matters to the users of the panel:

1. In `TrafficAccounting`: the counters of inbounds and `disableInvalidInbounds`,
   two editors at once, and the clients of nodes with their baselines.
2. Single clients in `NodeConfigSync`: tombstones of 90 s against a snapshot that
   was under way, and baselines of counters.
3. `HotDiff` one call at a time: what the core does between two calls of `tryHotApply`.
   It adds inbounds (xray.go:988) before it applies the routing (:995), whereas
   `injectPanelEgress` wants the rule of the bridge to be there before its inbound takes
   traffic (:333).  And the bridges of nodes and mtproto inbounds.
4. `ServiceProcess`: the locks of `servicemanager/process.go`, and `EventBus`.

## Running the checks

    tlc -workers 2 -config MCTrafficWriter.cfg MCTrafficWriter
    tlapm TrafficWriterProofs.tla
    tlapm XraySupervisorProofs.tla
    tlapm XrayTemplateProofs.tla
    tlapm TemplateEditorProofs.tla
    tlapm HotDiffProofs.tla
    tlapm NodeConfigSyncProofs.tla
    tlapm WebSocketHubProofs.tla
    tlapm TrafficAccountingProofs.tla

`PROJECT.json` lists every run with its configuration, the lines of the source
each definition stands for, and for each checked property a change of one
definition, as a bug might make it, that breaks the property.
