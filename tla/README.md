# Verification of openccu-loom-client

openccu-loom-client is the Python client of the OpenCCU-Loom daemon. It mirrors
the daemon's device graph in memory (`LoomStore`), keeps it current over a
WebSocket, and exposes it to Home Assistant through an aiohomematic-compatible
layer. Everything runs on one asyncio loop: there are no data races, but every
`await` is a point where another task, a push, a timer or `stop()` may run. The
models here put one action between two suspension points and let TLC, and for
part of it TLAPS, look at every order.

## 1. Inventory

| Component | State | Operations | Hard behaviour | What makes it correct |
| --- | --- | --- | --- | --- |
| `transport/ws.py` WsTransport | reader task, ladder step, cursor `_last_seq`, envelope queue, size deque, byte tally, overflow latch, subscriptions, ack future | start, stop, subscribe, unsubscribe, events, reauth, reconnect loop, frame handlers | reader against consumer around `queue.get()`, two budgets with one latch, resume after a cut, overlapping reauths, stop during a get | budgets hold, tally never undercounts, one resync per episode, resume without gap, link state reported truthfully, acks credited to the right call |
| `client.py` LoomClient | dispatch task, re-bootstrap task, cooldown stamp, reconcile tasks and semaphore | connect, bootstrap, start_events, close, `_on_replay_lost`, device created/released | trigger de-duplication, snapshot against pushes, reconcile against removal | the store equals the daemon once everything is at rest |
| `store.py` LoomStore | devices, channels, data points, custom/calculated data points, programs, sysvars, alarm panels | load_snapshot, attach_*, apply_*, refresh_*, writes | three writers on the same maps, cap on growth, in-place update of objects HA holds | no orphan channel or point, cap holds, no older value over a newer one |
| `bridge.py` | none | one handler per event type | order of subscription (bridge first, client second) | every push reaches its `apply_*` |
| `events/bus.py` EventBus | subscriptions per type and key | subscribe, cancel, publish | sequential fan-out, cancel or publish inside a handler | each live subscriber once, in order |
| `transport/http.py` HttpTransport | session, `/info` | connect, close, request with retry, downloads, uploads | retries under one deadline, idempotent verbs only, close() during a backoff or a connect() | no repeated non-idempotent call, deadline kept, cap kept, no session leaked |
| `compat/.../central/adapter.py` central | lifecycle state, grace timer, re-read tasks, announced panels | start, stop, connection/credential/feature/alarm handlers, reconcile loop | handlers live while start() and stop() are suspended, timers against reconnects | state follows the stream, HA is told, nothing survives stop() |
| `compat/.../central/held_devices.py` | announced, declined, re-sync timer, lock | sync, decline, forget, aclose | HA answers from inside the publish, three callers of sync() | no device stranded, none announced twice |
| `compat/.../central/hub_coordinator.py`, `compat/.../model/hub/*` | hub singletons, locks of the message lists, program and variable entities | aggregate fetch, one handler per push, operator fetches | aggregate answer against push, list re-reads overlapping, writers that do not publish | singletons and catalogue equal the daemon's, entities show them |
| `model/alarm_panel.py` | panels, their state and countdown | pushes, sweep, arm/disarm | four event types of one zone, sweep older than a push, master command over many zones | a panel follows its zone, HA holds the live object |
| `compat/.../model/*`, `model/*` | value overrides, cached schedules, staged on-times, event groups | HA reads and writes, commands, schedule edits | optimistic value against push and refresh, read-modify-write of a schedule, commands of several operations | a daemon value always shows through, an edit changes what it names, a command takes effect |
| `pairing.py`, `boxpairing.py`, `boxgate.py`, `probe.py` | flow state | onboarding requests, polling, withdrawal | expiry against confirmation, the box answering in the daemon's place, a foreign certificate | a token comes over the bound path and goes to its issuer, waiting ends, errors name who refused |
| `operations/*` | none | one REST call each | a retry after a lost answer | what a call reports is what happened |
| `wire/*`, `config.py`, `auth.py`, `exceptions.py`, ... | value objects | parsing, error classes | none | the right credential, port and error class |

The components interact as follows. The daemon's frames reach the WsTransport
reader, which advances the cursor and queues envelopes; the dispatch loop of
LoomClient takes them from `events()`, turns them into typed events and awaits
`EventBus.publish`, whose first subscriber is the store bridge. Losses (a
`replay_lost` frame, a queue overflow) reach `_on_replay_lost`, which schedules
the snapshot walk; the walk ends in the compat layer's hook. The compat central
subscribes to the same bus and publishes on aiohomematic's bus for HA.

## 2. Modules

| Module | Models | State and actions |
| --- | --- | --- |
| `WsTransport` | `ws.py` without subscriptions and reauth | connection: Start, Connected, StaysUp, ConnectionFails, ConnectionCloses, Retry, AuthRejected, StopBegin, StopEnd; reader: RecvEnvelope, RecvReplayLost; consumer: NextIteration, GetterTake, Yield, EndOfStream. Frames are free inputs. |
| `WsSession` | subscriptions and reauth of `ws.py` | Subscribe, Unsubscribe, Open, Cut, ReauthSend, ReauthReturn, ReauthTimeout, RecvAck, with the daemon's session as DaemonHandles |
| `DaemonHub` | external: the daemon's hub as the client uses it | Broadcast, Reload, Upgrade, Serve, Drop, Restart; replay ring and seq space |
| `EventSync` | WsTransport + DaemonHub + dispatch loop + re-bootstrap | extends `WsTransport`, instantiates `DaemonHub`; every action is a joint step (Connects = Connected and Upgrade, ReceivesEvent = RecvEnvelope and a frame off the wire and possibly `_on_replay_lost`, ...) |
| `StoreMirror` | abstract: what the event path promises of the store | DaemonChanges, StoreWritten, NothingWritten over the daemon's values, the store, the stale keys and rest; `EventSync` instantiates it as `Mirror` |
| `EventRouting` | `events/*`, `bridge.py`, `refresh.py`, `start_events()` | the bus as one bucket of subscriptions per type, a set in which each subscription carries its turn in the order of the subscribe calls (the code's list grows at its end); StartEvents, Publish, RunHandler (one handler a step), CredentialRejected, consumers that come and go. `Registry`, `EventKey`, `Applies` and `Pings` are the tables of event types, their keys, what the store takes from each and what HA is told |
| `StoreGraph` | `LoomStore`'s devices, channels and data points and their writers | pushes (OnDeviceCreated, OnDeviceRemoved), reconcile tasks (TakeSlot ... ReconcileDone), snapshot walk (SnapshotRead, SnapshotAttached, WalkAnnounces) |
| `CdpIndex` | the two indexes over custom data points | AttachCustomDataPoints, StateChanged, DeviceRemoved |
| `CentralLifecycle` | `adapter.py` lifecycle | StartBegins ... StartEnds, StopBegins ... StopEnds, LinkUp, LinkDown, GraceElapses, Tell, CredentialRefused, ReauthRefused, DaemonStatusPush, HubReconcile |
| `CentralReads` | `adapter.py` latch and features re-reads | handlers, read steps, and stop() with its awaits |
| `HeldDevices` | `held_devices.py` and its callers | DaemonHolds/Frees, HaConfirms, Decline, the three callers, the steps of sync() with AnswerReads apart from its use, Close |
| `HubSingletons` | `hub_coordinator.py`, `hub/singletons.py` | three actors over one set of singletons: "dispatch" (one handler per push), "hook" and "loop" (fetch_hub_singleton_data: one aggregate read and the reads of `Plan` behind it), and HA's optimistic writes |
| `HubCatalogue` | programs and variables in `store.py`, `hub_coordinator.py`, `hub/__init__.py` | pushes, the walk, the two operator fetches, SetProgramEnabled with its re-read; entities render on events |
| `AlarmPanels` | `model/alarm_panel.py`, its store and HA parts | the four pushes of a zone, the sweep's two answers and its announcement, the master's command zone by zone |
| `CompatModel` | the data points of one device as HA sees them: `store.py` (apply, refresh, attach), `model/*`, `refresh.py` (schedules), the bootstrap part of `adapter.py` | HandlePush, OnScheduleChanged and its reload, RefreshAsked ... RefreshApplied, HaWrites, the walk stage by stage, EmitDataPointsCreated. `val` keeps every object built so far, `entity` which of them HA holds |
| `EntityValues` | classes and values of generic, custom, calculated, combined, update and hub data points | Report (the daemon tells a truth on several planes), Arrives, UserWrites; `Make` picks the class, `Shown` is what HA reads, `PresetProfiles` inserts NONE into a thermostat's presets |
| `CustomCommands` | the command methods of `model/custom`, `_protocol_surface.py` | Command turns a call into a script of operations, Invoke and InvokeFails run it one POST at a time; SetTimerOnTime stages |
| `WeekSchedules` | `week_profile.py`, `operations/schedules.py` | edits (ScheduleRead, ScheduleLoaded, MergeEdit, SchedulePut, EditAnswered), locks, copies, pushes and re-reads |
| `EventGroups` | `event_group.py`, its cache and triggers | Announce, Scan, EntityRemoved, Trigger |
| `HttpTransport` | `transport/http.py` | ConnectBegins ... ConnectFails, CloseBegins/Ends, RequestBegins, Wakes, one action per way an attempt ends, ReadsChunk, Tick |
| `RestOperations` | `operations/*` on `HttpTransport.request` | each group of operations as a set of (verb, retry, effect, name); Call, Answered, AnswerLost, RequestLost, Raises |
| `Onboarding` | `probe.py`, `pairing.py`, `boxpairing.py`, `boxgate.py`, `config.py`, `auth.py`, `exceptions.py` | Probe, Ask, Accepted/Refused, Check, AbortWithdraws, Wait, PollAnswered, SlowDown, PollFails, Withdraw, Configure, RequestAnswered |
| `WsTransport_proofs`, `StoreGraph_proofs`, `Connection_proofs`, `Catalogue_proofs`, `Entities_proofs`, `Hub_proofs`, `EventSync_proofs`, `EntityValues_proofs` | TLAPS proofs | section 6 |
| `MC...` | nothing of their own | they extend modules for TLC and define the sets a cfg cannot write |

Conventions. A REST call is two or three steps: asked, answered by the daemon,
applied by the task. History variables (`drift`, `blame`, `excused`, ...) are
written and never read by the guards; they say why a state is what it is.
Definitions whose comment starts with "Mutant" or whose name is
`<definition>_<change>` are plausible bugs; no specification uses them, they
show that a property notices.

Values are abstract. In `EventSync`, `HubSingletons` and `EventRouting` a value
is the number of the change that wrote it, so staleness is `<`; in `StoreGraph`
the data points of a channel are one element, since the code attaches and drops
them together. An envelope's content is opaque to the transport. Logging,
formatting and metrics are left out. `HttpTransport` counts time in ticks: each
request carries the budget it has left and the rest of its sleep, and the loop
may resume a task `MaxLag` ticks late. One connect() runs at a time.

Several properties do not assert that the client always ends up right, because
the code does not do that: they name each way in which it can end up wrong, and
say there is no other. Section 4 lists the causes with their lines.

## 3. Runs

A run of `MCStream`, `MCConnection`, `MCHub` or `MCEntities` checks several
modules ("parts") that share no state: a variable `part`, chosen in the initial
state, says which of them moves, and the others keep their initial state. The
state space is the sum of theirs, not the product; a property of one part is
constant in the others. What does interact is composed in one module
(`EventSync`, `EventRouting`, `HubSingletons`, ...). No fair action of a part is
enabled in its initial state, so the fairness of the parts not chosen demands
nothing and the fairness of the chosen part is the module's own.

| Run | Parts and bounds | Reaches |
| --- | --- | --- |
| `stream` | `WsTransport`: queue of 3, budget of 4 bytes, frames of 1 and 2, ladder of 3, two starts | both budgets before the other in turn; episodes opened by each; the ladder's clamp; stop and restart with an envelope in the getter's hands |
| | `HttpTransport`: 2 requests of any kind, budget of 3 ticks, one backoff of 1, cap of 3 bytes in chunks of 2, lag of 1, 2 sessions | a wake without budget, close() during a backoff, connect() during close() |
| | `StoreGraph`: 2 addresses, 2 channels, 2 tasks on 1 slot, cap 1, 4 pairings, 1 gap, 1 failure | both tasks on one address, refusal at the cap by each writer, re-pairing with other channels |
| | `CdpIndex`: 3 names on 3 channels, every catalogue | two points changing places, three rotating, a channel taken over by another |
| | `EventGroups`: 3 parameters, 4 declarations with an unknown flavour, 3 objects | a flavour gone and back, two flavours over one parameter |
| | `CentralReads`: 3 changes, 1 failure | a burst of three around one read |
| `connection` | `HttpTransport` with one request, for liveness | a daemon that never answers |
| | `RestOperations`: every operation, 3 attempts | an answer lost at each attempt, a foreign change before and between calls |
| | `Onboarding`: both flavours, 5 paths, 2 waits, 1 slow_down | a withdrawal that fails, a token delivered on a lost poll, a gate in front of each request |
| | `WsSession`: 2 topics, 2 reauth calls (one valid), 1 cut | overlapping reauths and a late ack after a timeout |
| | `CentralLifecycle`: 3 drops, 2 sensor pushes | drop during start(), after it and during stop() in one behaviour |
| | `HeldDevices`: 2 addresses, 2 holds, 1 gap, 1 failure, 2 declines | decline during a publish, failing re-sync, both addresses declined |
| `event_sync` | 2 keys, queue of 1, ring of 2, 3 changes, 1 restart, 1 reload | every cause of drift; the ring ages out with 3 changes; a one-slot queue overflows with 2; coming to rest under fairness; every step against `StoreMirror` |
| `hub` | `HubSingletons`: one singleton of each kind moving, 2 changes, 2 fetches, 1 miss | two fetches and a count push on one message list, an update installed while a fetch runs |
| | `AlarmPanels`: 2 zones and the master, 2 changes, 1 outage, 1 command | a zone deleted and created again, the master appearing and going, a sweep older than its pushes |
| | `HubCatalogue`: 5 items of two centrals, 2 changes, 1 loss, 2 reads | a variable of another central, one name in both centrals, a variable and a program that appear later, a fetch across a push |
| `entities` | `CompatModel`: one object per kind, 3 changes, 1 re-read at a time, 1 loss, 1 failure | pushes, re-read, reload and walk around each other; HA's write before, between and after; a second walk's objects |
| | `WeekSchedules`: 2 profiles of a weekday, 2 locks, 2 editors, 2 edits, 1 outside edit, 1 failure | two edits from one cached copy, a push between read and write |
| | `CustomCommands`: 11 kinds, 2 callers, 3 calls, 2 stagings, 1 refusal, both daemon ages | a command between two operations of another, a stage left behind |
| | `EventRouting`: one event type per way of delivery, 2 events, 2 rejections, 1 raising handler | a restart before, during and after a fan-out |
| | `EntityValues`: every summary and every form a value is written in, preset lists of up to 3, 2 reports | each class with each plane present, late or absent |

Symmetry is not used: the longest run takes three minutes and most check
liveness or name their values. `CHECK_DEADLOCK FALSE` everywhere, because each
system may stop: bounds run out, the stream is stopped, a central is stopped.

Fairness. Only what the loop itself guarantees is fair: a task that is ready
runs, a timer fires, a lock that is freed again and again is obtained
(`asyncio.Lock` is first-in first-out, hence SF on `TakesLock`), the daemon
answers a request that does not fail, a pairing request expires, the transport
retries. Pushes, losses, restarts, failures and stop() are never forced.

### Violation runs

Each checks one statement of a comment or docstring against the code;
`PROJECT.json` quotes the line.

| Run | Statement | What TLC shows |
| --- | --- | --- |
| `sync_running_walk` | a running walk subsumes a loss | not once it has read its snapshot |
| `graph_ghosts` | a loss rebuilds the store | a device whose removal was lost stays |
| `compat_spawn` | what HA has spawned is not spawned again by the rebuild | calculated, schedule, combined and update data points are new objects after every walk; HA is offered them again and keeps the old ones |
| `cdp_index` | the channel index is kept in lock-step | the entry of the old channel stays |
| `held_declined` | a device HA has declined is not announced again until something about it changes | a decline during the announcement of one interface is overwritten by the next, whose list was made before it |
| `restart_in_handler` | call start_events() again on AuthFailed | from the handler itself the call is ignored and the stream ends |
| `master_disarm` | the master's commands are best-effort over the zones | the zones behind the first refusal are never asked |

## 4. Exceptions the properties name

A property with an exception in it says that the code has this weakness and no
other. TLC reaches each of them.

| Property | Exception | Where it comes from |
| --- | --- | --- |
| `DriftIsExplained` | `start_gap` | a change between the first snapshot and the first subscribe (`client.py:615`) |
| | `no_cursor` | a cut before the first event has set a cursor (`ws.py:554`) |
| | `overwritten` | a snapshot response older than a push already applied (`client.py:524`) |
| | `backlog` | a queued push older than the snapshot applied before it (`store.py:1102`) |
| | `running`, `cooldown` | a loss announced while a walk runs, or within the cooldown (`client.py:998`, `:1009`) |
| | `latched` | an envelope dropped under the latch after its resync was asked for (`ws.py:632`) |
| | `failed` | a walk that failed (`client.py:1050`) |
| | `alias` | an old cursor that is valid in a restarted daemon's sequence (`ws.py:554`) |
| `GraphIsExplained` | `late_detail`, `late_points` | a REST answer attached after the removal (`client.py:763`, `:771`) |
| | `missed` | the removal push was lost; the snapshot only adds (`store.py:980`) |
| | `failed` | a reconcile step failed (`client.py:886`) |
| | `cap` | refused at the cap; its data points are stored all the same (`store.py:1088`) |
| `OneResyncPerDrain` | `byteEpisode` | the latch is cleared by item count whichever budget set it (`ws.py:392`) |
| `TallyCovers` | `leaked` | stop() during a get leaves a size behind (`ws.py:380`) |
| `StateFollowsStream` | `overwritten` | start()'s last assignment (`adapter.py:1494`) |
| | `muted` | the credential handler writes the state without an event (`adapter.py:1657`) |
| `SessionAgrees` | not `alone` | overlapping reauths share one ack future; a rejected token may be mirrored (`ws.py:795`) |
| `ReadsFresh` | `readExcused` | a failed read; a latch push dropped after the answer (`adapter.py:1670`) |
| | `late` | a push during stop()'s awaits starts a read that stop() forgets (`adapter.py:2024`) |
| `EntitiesShowActual` | `blamed` | a loss whose walk was dropped, a failed read or walk stage, a walk's answer older than a push (`client.py:998`, `adapter.py:1549`) |
| | `own` | HA wrote after the last daemon value; a walk leaves that overlay in place (`generic/__init__.py:130`) |
| | not `Live` | calculated and schedule objects replaced by a walk are frozen (`store.py:1484`) |
| `EntitiesReadApplied` | `misplaced` | a second start_events() binds the store bridge behind the refresh bridge, which then renders one event late (`client.py:655`; `adapter.py:1446-1448` counts on the first order) |
| | `Unheard` | no handler of `refresh.py` tells combined numbers, update data points and event groups of these aspects |
| `NoSessionLeaks` | `overlapped` | close() clears the session a concurrent connect() has opened (`http.py:346`) |
| `AttemptsBounded`, `RequestsReturn` | `overdue` | resumed late from its backoff, an attempt starts with a budget that is not positive, which sets no timer (`http.py:463`) |
| `AnswersAreTrue` | `remove` left out | a DELETE whose answer was lost is answered 404 by its own retry (`http.py:66`) |
| `NoneStranded`, `DeclinedIsOffered` | `excused` | a failed read outside the timer (`held_devices.py:185`), or announced over its decline (`held_devices.py:207`) |
| `SingletonsExplained` | `excused` | a lost push, a first or handler's read that failed, an older answer over a newer push, a list of unchanged length, the install-mode push that names no interface, HA's optimistic writes (`hub_coordinator.py:464`, `:735`, `:905`) |
| | `silent` | HA's own calls write without an event |
| `FetchRepairs` | message lists by length | the re-read compares counts only (`hub_coordinator.py:733`) |
| `PanelsFollowZones` | `overtaken` | a sweep's answer older than a push already applied (`store.py:736`) |
| | `ghosts` | panels gone during an outage are dropped without telling HA (`store.py:693`) |
| `CatalogueExplained` | `outdated` | an answer older than a push, or a failed walk after a loss (`adapter.py:1837`) |
| both | `Ambiguous` | variables and programs of all centrals are kept by name or id alone, so two that share one share an object (`store.py:1610`, `:1631`) |
| `EntitiesShowRecords` | `unheard` | a walk and a switch's re-read write without an event (`store.py:1408`, `:1587`) |
| `ScheduleCacheExplained` | `behind` | an answer older than the pushes before it, a failed re-read (`refresh.py:418`) |
| | `editsCrossed` | two writes of one lock answered in the other order |
| `EditKeepsOtherDays` | outdated base | the whole schedule is written back from the cached copy (`week_profile.py:642`) |
| `CommandsTakeEffect` | `leaked` | an older daemon's own stage left by a failed command (`custom/__init__.py:481`) |

## 5. Assumptions about the outside

The daemon (`DaemonHub` and the actions marked external) is modelled from the
transport's docstrings and from `notes/reconnect-recovery.md`: seq restarts with
the process, the ring holds the last broadcasts, a cursor it cannot serve is
answered with `replay_lost`, a re-pull of the CCU is announced by one. Its REST
answers are a picture of its state at some moment between question and use; it
pushes what it changes, in order, unless a loss drops it. HA answers a DELAYED
event whenever it likes, from inside the publish included. In `Onboarding` the
issuer binds its code to the certificate it serves, the administrator decides or
lets the request expire, and the gate may answer any request with a redirect, a
401 or a 403 of its own.

## 6. Proofs

Assumptions are those of the modules (`TransportAssumption`, `GraphAssumption`,
`HeldAssumption`, ...): bounds are naturals, sets are finite, names that stand
for nothing are in none of them. TLC evaluates each on the runs that extend its
module. The theorems hold for every value of the constants.

No property below is inductive on its own; each comes from an invariant that
also says what is in flight, shown initial, preserved one lemma per action, and
strong enough.

`WsTransport_proofs`: `TypeOK`, `QueueBounded`, `TallyCovers`,
`OneResyncPerDrain`, `LadderClimbs`, for every queue size, byte budget, set of
frame sizes and ladder. The bound on bytes needs that the tally is at least what
is queued, which needs that the size deque is never shorter than queue plus the
envelope in the getter's hands, which needs the consumer's position. The resync
property needs that while the latch is set, the takes since then account for the
distance the queue has fallen below its limit (`DrainInv`). The ladder needs that
the counter is new or one above the step slept last (`LadderInv`).

`StoreGraph_proofs`: `CapHolds`, `ChannelsHaveDevices`, and two that no run
checks on their own, `GraphTypeOK` and `FanOutBounded` (the reconciles at work
never exceed the slots). `GraphInv` adds what is in flight: the addresses in
pushes, tasks and snapshots are addresses (`InputsOK`), and a task carries the
fields its step uses (`TasksOK`). The cap under a snapshot is the arithmetic of
`Admits`: the batch admitted fits the room left, by the cardinality of a disjoint
union. `GraphIsExplained` needs what will make an unblamed address right
(`Explained`): its removal is on its way, or it is unpaired and nothing of it is
stored, or it is complete and announced, or the created push, the walk or a
reconcile task brings it, where a task past its detail has the paired channels
in the store and all data points it need not read any more (`TaskBrings`).
That a delivered push leaves nothing behind needs the order of the pushes about
one device (`PushesOK`): the last one agrees with the daemon, and between two
created pushes there is a removed one.

`EventSync_proofs`, the event path end to end:
- `DriftIsExplained`: a key whose stored value is not the daemon's is blamed
  already, has the daemon's value on its way (ring, frames in flight, queue, the
  getter's hand), or is in reach of a walk or of a `replay_lost` frame
  (`CoverOK`). That a cut loses nothing unblamed needs that frames and ring agree
  and the cursor is behind all that is in flight (`WireOK`, `CursorOK`); that an
  older push or answer is blamed needs that no copy is newer than the daemon's
  value (`AgesOK`).
- `StreamContiguous`: the frames in flight end at the last broadcast without gap
  or repetition, and a cursor that was not re-anchored is right behind them
  (`RightBehind`). The proof does not use the restart condition of the property:
  numbers stay contiguous even where a cursor of a dead process is taken for the
  new one's, which is why that case is blamed (`alias`) and not visible in them.
- `MirrorsDaemon`, the refinement of `StoreMirror`: a key is stale when a named
  event is to blame for it, and rest is `AtRest`. Every step of `SyncNext` maps to
  one of the abstract ones or to a stutter: only Broadcasts and Reloads change the
  daemon's values, and both leave something on its way (`ChangesAreNews`); only an
  applied event and an applied snapshot write the store, never at rest, never
  anything newer than the daemon's value, and what they set back is blamed
  (`WritesAreOwned`); all other steps leave both alone (`OthersWriteNothing`);
  blame is never taken back (`StaleGrows`). That rest is agreement is
  `DriftIsExplained` in the next state. `StoreMirror` itself has no named cause in
  it: it is the promise, and the causes are who breaks it. That the promise is
  enough is `MirrorExplainsDrift`: `DriftIsExplained` follows from `MirrorsDaemon`
  alone.
- `SyncDrivesTransport`, the composition: seen at the transport, every step of
  `SyncNext` is one of `TransportNext` or leaves it alone. The frames the daemon
  sends are among the transport's inputs (`FramesAreInbound`, from
  `CarriesAssumption` and the bound on changes), so the four transport properties
  hold end to end (`SyncKeepsTransport`), with the invariants of
  `WsTransport_proofs`, which `EventSync_proofs` extends.

`Connection_proofs`, six components that share no variable:
- `StateFollowsStream` (CentralLifecycle). A state the stream contradicts is
  explained by the grace timer or an event still to be told, at every step of
  start() and stop() (`ReportsFollowLink`, `HonestReports`).
- `SessionAgrees` (WsSession). The frames in flight, replayed in order, turn the
  daemon's set into the client's (`FlightCloses`), and an ack in flight belongs
  to the call that waits unless calls overlap (`AcksAreOwn`).
- `TokenIsBound`, `AnswererIsNamed` (Onboarding). A flow past a check is on a
  path that passed it (`ChecksPassed`), and what it sends goes to the issuer
  (`SentToIssuer`).
- `NoneStranded` (HeldDevices). Every held device that no exception excuses is
  offered, declined, in an answer being applied, or due to be found by a push or
  the timer (`Tracked`); one caller is past the lock (`OneHolder`); the inbox
  push a device caused comes behind it (`InboxComesLast`).
- `NoSessionLeaks` (HttpTransport): between the two halves of close(), nothing is
  open unless connect() came between.
- `AttemptsBounded`: a sleeping request has more budget than sleep left, and one
  that changes something never sleeps.
- `AnswersAreTrue` (RestOperations): over the tables of operations, what creates,
  commands or releases is never repeated, so a call of that kind is one attempt.

`Catalogue_proofs`:
- `CdpFoundByChannel` (CdpIndex): inductive, because a catalogue names no channel
  twice.
- `EntityHearsTriggers` (EventGroups): an entity only ever sits on the object its
  flavour is cached under, and that object is never replaced.
- `ReadsFresh` (CentralReads): a change not yet shown is a push to come, the mark
  of the running read, or a read still to be answered (`NoneLost`).
- `CatalogueExplained`, `EntitiesShowRecords` (HubCatalogue): the last push about
  an item carries its value (`NewsOK`), so an object that does not show it has a
  push before it, was left outdated, or is before a walk that has it in its
  answer or has yet to read (`CatExplained`, `WalkMerges`). Neither holds of a
  key two items have, which the run's own items include (`Ambiguous`).

`Entities_proofs`:
- `ScheduleCacheExplained`, `EditKeepsOtherDays` (WeekSchedules): each edit, lock
  write and re-read in flight states what it holds of the device (`EditOK`,
  `LockOK`, `RereadOK`), and a cache that is neither the device's nor marked is
  about to be repaired by a push (`CacheOK`).
- `EntitiesShowActual`, `RefreshNeverRegresses` (CompatModel): no copy is newer
  than the daemon (`VersionsOK`); the last queued push of a kind carries the
  daemon's value (`QueueOK`); a re-read that would be accepted is not older than
  what is stored (`AnswersOK`); and every kind is stored, on its way, blamed or
  ahead of the walk (`CoverOK`, with `WalkRead` for what the walk has read).
- `CommandsTakeEffect` (CustomCommands): every script of every kind does what was
  asked for when its command starts (`ScriptsFit`); a command that runs alone has
  each aspect set already or by an operation left, none of which contradicts the
  request (`KnownCall`, `KnownAlone`); and a staged on-time is in one place, on
  the client, in one call or in the stage of the one call that is about to take it
  with its last operation (`StagingOK`).
- `AppliedOnce`, `EntitiesReadApplied` (EventRouting): a bucket holds one
  subscription of the store bridge, that of the current group, never a cancelled
  one, and one of the refresh bridge, behind it unless `misplaced` (`BusOK`). Of the
  event being published the snapshot says what is still to happen: the store has
  taken it, or its bridge is left in `todo` (`PublishOK`); the entities show what
  the store holds, or the refresh bridge is left and comes behind the store's
  (`RefreshOK`).

`Hub_proofs`:
- `PanelsFollowZones` (AlarmPanels): the last queued push about a zone carries
  its present state, and so does the last about its countdown; a tick lands on a
  panel that is there (`QueueOK`). A panel not up to date has such a push, or the
  walk, before it (`StoreOK`); HA holds the store's object or the walk is about to
  offer it (`HeldOK`).
- `SingletonsExplained` (HubSingletons): no push and no answer in flight is newer
  than the daemon (`NoneNewer`), so a write brings the daemon's value, replaces a
  newer one and is excused as late, or leaves a singleton wrong that was wrong
  before. One that is wrong and not excused has the daemon's value on its way
  (`OnTheWay`): in a queued push, in the read that push made the dispatch loop
  start, or, before the push routing exists, in a read the first fetch has still
  to do (`HubExplained`). What HA was not told of is in a running fetch's list of
  changes (`HubTold`).
- `FetchRepairs`: while a fetch is `calm` nobody else is at work, what is queued is
  another central's, an answer in its hands is the daemon's present, and the
  singletons of the reads it has done are as the daemon has them (`CalmRun`, one
  conjunct per read, carried for each fetch by `CalmInv`). Only its publication
  ends a fetch (`OnlyPublishEnds`), which makes the action property.

`EntityValues_proofs`: `EntityShowsTruth`. Every plane holds a form of the truth or
is about to (`ValuesInv`); the rest is data. One lemma per family of data points
says that no form it is written in misleads the class that reads it
(`BinaryFits` ... `UpdateFits`, `CustomFits`; `BrightnessFits` over all 256 levels).
That a thermostat's presets fit holds for lists of every length
(`PresetsFitLists`): the place where NONE goes is the least element of a set of
naturals, which exists because the naturals are well founded (`LeastNatural`).

Every invariant and every action property of the passing runs is proved, and so is
the refinement. Only model-checked, and why: the five liveness properties
`RequestsReturn`, `WaitReturns`, `OutageIsReported`, `DeclinedIsOffered` and
`ComesToRest`. They rest on fairness, hence on ENABLED, which the prover does not
handle. What a violation run shows is shown by its counterexample.

## 7. Not modelled

- Generated wire types, constants, translations, naming and formatting:
  definitions without behaviour.
- Discovery and the pass-through methods of the adapter (links, backups,
  JSON-RPC, paramsets): one call, nothing kept. The REST operation each makes is
  in `RestOperations`.
- Connect-time checks and close() of the client facade, `recheck_contract()`
  and sessions supplied by the caller.
- A request that sleeps out its backoff after close() ends in an error that is
  not of the library's classes (outcome `untyped` in `HttpTransport`: an
  AssertionError, or aiohttp's RuntimeError); no property is about it.
- A withdrawal that fails while a pairing is being given up replaces the
  certificate-mismatch error by its own (`pairing.py:289`); `Onboarding` models
  it (AbortWithdraws), the error class is still the one of the answerer.
- Trigger events with a token the client does not know are recorded as a key
  press (`refresh.py:123-128`); `EventGroups` models it, no property judges it.
- Alarm walk tests, reminders and notifications pass through as events;
  `EventRouting` has their keys, no state depends on them.
- The interplay of the parts of one run (a hub fetch during a snapshot walk, a
  schedule edit during a restart): they share no state of the client but the
  bus and the session, and those are composed where order matters
  (`EventRouting`, `EventSync`).

## 8. Plan

Left, in order of weight:

1. Connect-time checks and close() of the client facade; `recheck_contract()`.
2. An abstract promise for the compat layer as `StoreMirror` is one for the store:
   HA's entities mirror the store, and `CompatModel` refines it. It has to be weaker
   than `StoreMirror`: a push that was queued before a re-read was answered is applied
   after it, so a value goes back for a moment without being left stale.
3. The order of the turns of one bucket against the order of the code's list, once
   a caller subscribes inside a fan-out for the type being published.
