# A TLA+ model of aiohomematic

aiohomematic is an asyncio library that connects to a Homematic CCU (or Homegear) over XML-RPC
and JSON-RPC, keeps a model of its devices and passes their events on to Home Assistant. This
directory models the parts of it that decide whether a command reaches the CCU and what the user
sees of it meanwhile, how concurrent requests share the CCU and its session, how the library
comes back when the CCU goes away, how its devices and their files follow the CCU's list, and
how a thermostat's schedule is shown and written. Paths below are relative to
`src/aiohomematic/`.

## 1. Inventory

One `CentralUnit` owns a client per interface (HmIP-RF, BidCos-RF, ...), a scheduler,
several coordinators and an event bus. Everything runs on one event loop: state is shared
freely and code is interrupted only where it awaits. The hard behaviours are therefore not
data races but *what another task does during an await*, together with a CCU that
disappears, restarts and answers late.

| Component | State it keeps | Operations | Interacts with | What is hard | What makes it correct |
|---|---|---|---|---|---|
| Circuit breaker (`client/circuit_breaker.py`) | state, failure and success counters, time of last failure | `is_available`, `record_success`, `record_failure`, `reset` | asked and told by every RPC proxy; reports to the connection issues and the event bus | late answers of requests sent in an earlier state | no traffic while open, reopens only after the cooldown, closes only through a test |
| Connection issues (`central/connection_state.py`) | one entry per interface and transport | `add_issue`, `remove_issue`, `is_issue` | written by two proxies and two breakers | the entry is shared, the breakers are not | it guards the interface and goes away when the CCU answers |
| XML-RPC proxy (`client/rpc_proxy.py`) | requests in an executor | `_async_request` | breaker, issues | every error class has its own effect | the interface recovers |
| Command throttle (`client/command_throttle.py`) | priority queue, burst window, worker, time of the last grant | `acquire`, purge, `stop` | in front of `set_value` and `put_paramset` | worker sleeps with a command in hand; callers give up; purges | nobody is lost, spacing, order |
| Request coalescer (`client/request_coalescer.py`) | key to shared future | `execute`, `clear` | in front of reads | cancellation of leader or follower | one run, one outcome |
| Recovery coordinator (`central/coordinators/connection_recovery.py`) | attempts, active recoveries, failed flag, heartbeat | event handlers, staged recovery, heartbeat, `stop` | central state machine, clients, scheduler, breakers' events | overlapping recoveries, retry budget, several interfaces deciding about one central | nothing leaks, nothing is abandoned, the clients come back |
| Central state machine and evaluation (`central/state_machine.py`, `central/central_unit.py`) | central state | `_evaluate_central_state`, `start`, `stop` | client state events | invalid transitions are silently skipped | the state says what the clients do |
| Client (`client/interface_client.py`, `client/state_machine.py`) | client state, `modified_at`, error count | init, deinit, reconnect, check, stop | proxy, CCU, central, devices | three actors await the same proxy; answers get lost | no invalid transition, devices follow the client |
| Scheduler (`central/scheduler.py`) | its jobs | `_check_connection`, refreshes | clients, recovery | paused outside RUNNING and DEGRADED | somebody else must act meanwhile |
| Event bus (`central/events/bus.py`) | subscriptions | publish, publish_sync, batches | everybody | delivery is later than the change | order is kept |
| Command retry (`client/command_retry.py`) | the newest command per parameter | retry, supersede, cancel, wait for recovery | throttle, recovery events | superseded attempts in flight; missed events | the newest command wins, nobody waits for ever |
| In-flight store (`client/interface_client.py`) | the values being sent | stage, clear | `set_value`, `put_paramset`, readers of the last value sent | two commands on one data point | the newest value is found while it is sent |
| Ping/pong tracker (`store/dynamic/ping_pong.py`) | pending and unknown tokens | send, receive, expire, clear | checks, callbacks | expiry against late pongs | mismatch events come in pairs |
| JSON-RPC session (`client/json_rpc.py`) | session id and its age, a lock | login, renew, logout, post | every JSON-RPC call, recovery | a renewal awaits while others clear the session; the CCU forgets it | one session, a dead one is replaced, every call ends |
| Optimistic values (`model/optimistic.py`, `model/data_point.py`, `model/generic/data_point.py`) | unconfirmed value, pending sends, timer | send, confirm, roll back | callbacks, collectors | timer against confirmation | the shown value converges |
| Persistent stores (`store/storage.py`, `store/persistent/`) | content, hash of what was saved, file | load, save | disk, device coordinator | content changes while it is written; crash between two steps | what counts as saved is in the file |
| Device coordinator (`central/coordinators/device.py`) | registry, semaphore | add, delete, update, refresh, create at startup | callbacks, caches, files | deletions and additions overlap at every await; fetches fail half-way | registry, caches and files agree |
| Week profiles (`model/week_profile.py`, `model/schedule_models.py`) | the schedule as it is shown | set, copy, read, reload after CONFIG_PENDING | `put_paramset`, `get_paramset`, events | two forms of one schedule; writes, reports and reads in flight together | what is shown is what is played, and can be written back |

The parts of no interest to a model checker (thin delegation, mappings, metrics, text) are
listed in `PROJECT.json` with the reason.

## 2. Plan

| Step | Module | Status |
|---|---|---|
| 1 | `CircuitBreaker`, `BreakerContract` (abstract), `RpcProxy`: is a request sent? | modelled, proved |
| 2 | `CommandThrottle`, `QueueContract` (abstract) | modelled, proved |
| 3 | `RequestCoalescer` | modelled, proved |
| 4 | `ConnectionRecovery` with central state machine, evaluation and scheduler | modelled, proved |
| 5 | `ClientLifecycle` with the central's handler of client events, `ClientContract` (abstract) | modelled, proved |
| 6 | `CommandRetry`, `OptimisticValue`, and `SendPath`, which composes them with the in-flight store | modelled, proved |
| 7 | `JsonSession`: login, renewal and clearing under the lock | modelled, proved |
| 8 | `PersistentCache` and `DeviceStore`: devices, caches and files under crashes | modelled, proved |
| 9 | `ClimateSchedule` (the conversions) and `WeekProfile` (calls, reports, reads) | modelled |
| 10 | `PingPong`: tokens, expiry, size limit, mismatch events | planned |
| 11 | `EventBus`: subscriptions that change during a delivery | planned |

Composition: `RpcProxy` extends `CircuitBreaker` and shows that each of its breakers
implements `BreakerContract`. `CommandThrottle` implements
`QueueContract`. `ClientContract` is the interface between two modules: `ClientLifecycle`
implements it, and `ConnectionRecovery` is shown to ask no more of the client of each
interface; it sees a breaker only through its trip event. `SendPath` extends
`CommandRetry` and `OptimisticValue` and sees the throttle only as an await that ends with a
grant or a purge. `DeviceStore` extends `PersistentCache`, `WeekProfile` extends `ClimateSchedule`.

Theorems: every safety invariant, action property and refinement of the runs is proved
except those listed at the end of section 5, with the reason.

## 3. The modules and the code

An action is what one task does between two awaits, with every call it makes on the way.
Metrics, logging, incident records and events nobody in the model listens to are left out.
`MC*` modules only name model values. Definitions commented *Mutant* are plausible bugs of
the definition that follows them; no specification uses them. `PROJECT.json` says which
property each must break, and gives the source lines of every definition.

### CircuitBreaker, BreakerContract, RpcProxy

`CircuitBreaker` has the breaker's methods as operators on a record. The failure counter
saturates at its threshold and the time of the last failure is its age up to the cooldown;
no branch of the code can tell the difference. Reading `is_available` changes the breaker
(`Probed`), as in the code.

`RpcProxy` is `_async_request` of the two proxies of one interface (`proxy`, `proxy_read`).
Each has a breaker (`cb`), both share one `issue` entry. Before the await: `Reject` (breaker
open), `Refuse` (breaker passes, entry blocks, and the exception counts as a failure),
`Send`, and `SendBypass` for ping, init and the other methods that ask neither. After it:
`Answered`, `ConnectionError` (with the error codes that add the entry, and without),
`Fault`, `ProtocolError`, `Cancel`. `ResetBreakers` is what a reconnect and a firmware
update call. `backend` says what the CCU does to a request that ends now; it is external.

### CommandThrottle

`acquire` of HIGH and LOW commands (`Acquire`, `AcquireStopped`), of CRITICAL ones with
their purge (`Critical`), a caller that gives up (`Abandon`), the worker (`WorkerStarts`,
`WorkerWakes`, `WorkerGrants`, which run on to the next await), `stop()` and the clock. The
heap is the set `queue` ordered by `Before`. The time since the last grant and the age of
burst entries count ticks up to their limits. `gap` and `inverted` are history. The lock is
never held across an await, so it needs no variable. An interval of 0 is not modelled:
`acquire` then returns at once.

`QueueContract` is what the callers rely on: commands arrive, leave or are served, without
heap, worker or events. The mapping `Queue` goes by what became of the calls, not by the heap: a
command waits while its caller does, wherever the worker has it; `rank` and `number` are
priority and time stamp, `quiet` is `gap`.

### RequestCoalescer

Each member of `Call` is one `execute()`: `Lead` or `Follow`, then `Finish`, `FinishBroken`
(the future was cancelled, or the entry is gone: `InvalidStateError`, `KeyError`), `Resume`,
`CancelLeader`, `CancelFollower`; `Clear` is `clear()`. A call's future has the call's name.

### ConnectionRecovery

Tasks are one `_start_recovery` (kind `one`) or one `_recover_all_interfaces` (`all`); each
takes every interface it recovers through `scheduled`, `wait` (for the semaphore), `check`,
`reconnect`, `sleep`, `connect`, `load` to `ok`, `fail` or `retry`. Handlers:
`OnConnectionLost`, `OnTripped`, `OnStartFailed`, `OnClientStateEvent`; then `Heartbeat`,
`CheckConnection` (the scheduler), `Start`, `Stop`, `Stopped`. Abstractions:

* it starts in INITIALIZING, and `Start` chooses among the outcomes of `start_clients`;
* the probing stages (cooldown, TCP, RPC, warm-up, stability) are one step that succeeds
  exactly if `ccuUp`; the CCU may change between any two steps;
* the recursive retry is the same task; creating a client is atomic; one pass of
  `_check_connection` is atomic;
* publishing and handling a heartbeat are one step, and so are the success events with the
  reset that follows them. When the attempts are used up, the code sets the failed flag, awaits
  the delivery of an event and then starts the heartbeat loop (`connection_recovery.py:552`, `:559`);
  `HandleMaxRetries` does both at once, so `HeartbeatWhileFailed` may be false in the code for
  as long as that event is delivered;
* any number of undelivered client state events is one flag `evaluate`, because the handler
  reads the present states;
* `Settled` says that the 15 s, 30 s and 60 s timers outlast the delivery of an event. An
  event that finds no free `Task` is beyond the bound and does not block the timers;
* a JSON-RPC breaker reports its URL as id, so `JsonUrl` is a target without a client.

`overlapped` is history: a recovery has begun while another one was under way.
`ClientContract` is a client as a recovery sees it: created, then one task at a time
takes it through RECONNECTING and CONNECTING to CONNECTED or FAILED, the check disconnects
it only when it is CONNECTED, and a stopped one does nothing more. `UsesClients` says that
this is all the tasks, the check and `stop()` together do with it.

### ClientLifecycle

One `InterfaceClient` on its state machine, with the tasks that reconnect it, the
scheduler's check and `stop_clients()`. The proxy has one worker thread, so `rpc` is a queue:
a request takes effect (`CcuServes`), then ends answered or with the answer lost; any queued
request may fail at once (the breaker refuses it). `TransitionTo` takes a path of states,
since several transitions may happen without an await; the first invalid one raises and ends
the actor (`raised`). Abstractions:

* `modified_at` is two bits: set at all (`fresh`), and later than the init in flight began
  (`newer`). A ping that succeeds stamps the time its check *began*, so against an init
  that began with a stamped time both outcomes are allowed;
* an init the CCU processes after the client gave up on it is not modelled;
* the devices are one flag `forced`; events are delivered in order, `MaxEvents` bounds them;
* for a client without callbacks the request ends with `add_new_devices` done: the code awaits
  that after the answer and before CONNECTED (`client/interface_client.py:731`);
* whether the backend registers callbacks is chosen in `Init`; the backoff counter,
  `is_callback_alive` and the callback warning are left out;
* new reconnects may start while stopping (more than the code does);
  `backend.stop()` waits for the tasks of the looper.

`ImplementsClient` maps this to `ClientContract`: the phase is the state until `stop()`
begins, and inside is whoever is in `reconnect()` or the first connection.

### CommandRetry, OptimisticValue, SendPath

`CommandRetry` is the loop of `execute_with_retry` with the registry that lets a newer
command for a `DataPointKey` supersede an older one. Its operators are the steps of one
command between awaits: `Execute`, `WaitToRetry`, `DelayOver`, `RecoveryCompleted`,
`RecoveryWaitOver`, `NextAttempt`, the ways to leave (`Return`, `RaiseFinal`,
`RaiseExhausted`, `RaiseSuperseded`, `RaiseNoConnection`, `Abandon`) and `CancelRetries`. A
wait that is over resumes its task only later; the states in between (`elapsed`,
`recovered`, `expired`) are where a supersession can still arrive.

`OptimisticValue` has the methods of `OptimisticValueTracker` as operators on a record.

`SendPath` is a service call from `send_value` or a `CallParameterCollector` through
`set_value` or `put_paramset` to the backend and back through `event`: `Send`, `Granted` and
`Purged` (the throttle), `Sent`, `Failed` (an error of the library, which `@inspector`
swallows), `Broken` (any other error), `Superseded`, `Cancelled`, `Transient`, `Retry`,
`WaitOver`, `Recovered`, `Stop`; `CcuApplies` and `DeviceChanges` are the CCU, `Event` and
`TimerFires` the way back. Abstractions:

* a command is used once; its batch is a sequence of paramsets with one value for all;
* the data points have been read once, and belong to one channel group, so that a CRITICAL
  command cancels the retries of all and purges those that are queued. What is queued is the
  throttle's: the command in the worker's hand, one granted and not yet resumed and another
  CRITICAL one survive (`client/command_throttle.py:310`), and `Enter` lets any be spared;
* the CCU carries out a call at any time before its caller learns the outcome, and the
  event is lost or queued; events of one data point stay in order;
* delays are steps that may happen at any time: whether the 30 s rollback timer or the
  40 s delay of a retry comes first is left open. `wait_for_callback` is off, the default.

### JsonSession

A caller is a task in `_post` or the logout of `CentralUnit.stop`. `Call` is the fast path or
the queue of `_session_lock`; under the lock `AlreadyRefreshed`, `StartLogin` or
`StartRenew`; `BackoffOver` ends the sleep after a refused login; then one action per way the
request can end (`LoginGranted`, `LoginRefused`, `LoginFailed`, `Renewed`, `RenewRefused`,
`RenewDenied`, `RenewFailed`, `LoggedOut`, `Posted`, `Rejected`, `Broken`) and `Cancelled`.
`Ready` includes the first post's question for the supported methods, which goes through the
lock again. `ForceLogin` is `clear_json_rpc_session`. `CcuOpens`, `CcuAnswers` and
`CcuForgets` are the CCU. The age of the session is kept modulo a day, since the code reads
`timedelta.seconds`.

### PersistentCache, DeviceStore

`PersistentCache` is `BasePersistentCache` over `Storage`: `SaveStart` queues for the lock of
the store, `WriteFile` is the thread that replaces the file, `SaveDone` takes the hash,
`SaveFails` does not; `LoadAll` and `LoadFails` are the start. `save()` copies the content one
level deep only, so what is added in place during a write may get into the file; `snap` is
the list a save keeps when the registry replaces its own. Contents are sets, and a hash is
the set it was taken of.

`DeviceStore` is the device coordinator of one interface. A task is one run of a method:
`Announce` (newDevices), `Retract` (deleteDevices), `Update` (updateDevice, replaceDevice and
readdedDevice), `Refresh`, and `Start` with the creation from the caches. The pipeline of an
addition is `Acquire` or `AcquireToRepair`, `FetchEnds` per description, the saves,
`CheckForNew`, `Create`, `Finish`; a removal is `OnDeviceRemoved`, `Unregister` and saves.
`Crash` loses the memory and keeps the files. Abstractions:

* an address either has all its paramset descriptions or is looked up again;
* a batch enters all the descriptions it keeps when it begins, before its first fetch; the code
  enters each just before the fetch of its own paramsets, in the order of the list
  (`central/coordinators/device.py:1061`);
* a file is replaced in one step (the code writes a temporary file and renames it);
* a call of newDevices carries any descriptions of any devices; the descriptions of a batch
  are fetched device first, channels in any order;
* `use_caches` is on and new devices are not delayed.

### ClimateSchedule, WeekProfile

`ClimateSchedule` has the two forms of one weekday as data. `PlayedAt` (what the device does
with its slots) and `ShownAt` (what base temperature and periods mean) are the reference;
`ToSlots` and `ToSimple` are the conversions, with the filter of what stands behind the first
24:00, the normalisation, the choice of the base temperature and the merging of neighbours.
The loops of the code are written as what they compute: `Ends` is where the loop over the
sorted periods ends a slot, `Runs` are the slots its counterpart merges.

`WeekProfile` is one thermostat. `Set` is `set_weekday`, `set_profile` and `set_schedule`,
which convert, validate and send, and leave the cache alone; `CopyProfile` reads first when
nothing is cached; `Edit` is another program, or `copy_schedule_to` from another thermostat.
`Stored`, `NotStored`, `Transferred` and `Serve` are the CCU; `Reported` is the event of
CONFIG_PENDING, which begins `Device.on_config_changed` (`changes` counts those that are still
with the channels). `ConfigChanged` is its read of the schedule; `ConfigFails` its end without
one, when the link peers of a channel are asked for and there is no connection or the breaker
is open (`missed` remembers it until the next read is served). `Loaded` and `NotLoaded` are the
two ends of `reload_and_cache_schedule`; a read that fails ends a copy or not, according to the
error.
Abstractions:

* times are ticks, each with one `hh:mm` and one number of minutes; periods are a set,
  because both validations sort them and two with one start overlap;
* the throttle keeps the order of writes (`ThrottleFifo`), and the proxy for reads has
  one worker (`DEFAULT_MAX_READ_WORKERS`), so reads are served and stored in order;
* the CCU reports CONFIG_PENDING once per transfer and no report is lost; BidCos devices,
  for which the code itself calls the flag unreliable, need `reload_device_config`;
* one call writes the same weekday everywhere it writes.

## 4. Runs

| Run | Instance | Checks | States |
|---|---|---|---|
| `rpc_proxy` | 2 proxies, 2 requests, thresholds 2, cooldown 2 | `BreakerShape`, `ImplementsContract`, `IssueGuardsInterface` | 328,770 |
| `rpc_proxy_recovers` | 2 proxies, 1 request, fairness | `Recovers` | 5,514 |
| `throttle` | 3 commands, 2 addresses, interval 2, burst above 1 in 1 tick, fairness | `NoLostWakeup`, `WaitersHeld`, `AtMostOneInversion`, `ImplementsQueue`, `Served` | 497,625 |
| `coalescer` | 3 calls, 2 keys, fairness | `NoLeakedEntry`, `SingleExecution`, `SharedOutcome`, `EveryCallEnds` | 7,087 |
| `recovery` | 1 interface and the JSON-RPC id, trips of both, 2 tasks, 2 attempts, symmetry | `ActiveIsRecovering`, `HeartbeatWhileFailed`, `NeverAbandoned`, `ShutdownStartsNothing`, `UsesClients` | 2,110,684 |
| `recovery_fair` | 1 interface, 1 task, fairness | `ClientsReconnect`, `RecoveriesEnd` | 6,502 |
| `client` | 2 tasks, check and stop, 4 events, threshold 1, symmetry | `NoInvalidTransition`, `DevicesFollowClient`, `ConnectedIsTolerant`, `StoppingNeverRegisters`, `ImplementsClient` | 105,841 |
| `send_path` | 2 commands, 2 data points, 2 values, 2 attempts, 1 change at the device | `RegisteredOrCancelled`, `EchoKeepsFallback`, `NeverStuck`, `NoAttemptOnceSuperseded`, `LoneRollbackRestoresReported` | 1,335,741 |
| `json_session` | 2 callers, 2 logins, age 1, day of 3 ticks, fairness | `OneSession`, `CallEnds`, `DeadSessionReplaced` | 84,011 |
| `device_store` | 1 device with 1 channel, 2 tasks, 3 calls, 1 crash, 2 faults, symmetry | `SavedWhenIdle`, `RegistryDescribed`, `NeverStuck`, `CreatesOnlySettled` | 1,392,172 |
| `schedule` | 2 profiles with 1 weekday, day of 4 hours, 3 slots, 2 temperatures, 2 writes, 2 reads, 1 failure of a call, symmetry | `AskedIsPlayed`, `ShownIsPlayed`, `ShownIsWritable` | 756,002 |

Why the bounds are enough. *rpc_proxy*: two requests overlap on one proxy and on both, a
counter of 2 has a value between reset and threshold, and a late answer meets all three
states. *throttle*: with three commands one is in hand, one queued and one arrives, and both
priorities and the downgrade by a burst occur. *coalescer*: a leader, a follower and a third
call that meets the entry, a stale entry or none. *recovery*: two tasks are the overlap of a
heartbeat with a recovery, and two attempts separate "retry" from "last one". *client*: two
reconnecting tasks, the check and stop interleave at every await; four events hold two
double transitions. *send_path*: the two commands meet on `level`, in one paramset with
another data point, in one of two paramsets, directly or with a purge; two attempts give one
retry; the change at the device is an event nobody sent for. *json_session*: one caller holds
the lock while another queues, clears or posts; two sessions are an old and a new one; a day
of three ticks wraps around. *device_store*: two tasks overlap at every await, three calls
are an addition with a deletion or update and one more, one crash falls between any two
steps, and two faults hit a fetch and a write. *schedule*: the days an earlier session left
have a period at the beginning of a day of four hours, behind a gap or at its end, or two that
touch; the calls ask for a day with a
gap before and behind its period, for one that uses every slot and for one that needs a
fourth; other programs leave remains behind 24:00 and a slot without length; two writes fall
into one transfer or two, and a reload overlaps another.

`CHECK_DEADLOCK FALSE` is said where the system may stop: commands and calls are used once,
and a stopped central or client does nothing more.

Fairness. The event loop runs every ready task and fires every timer: `WF` on the steps of
tasks. The executor returns every request since the transports have timeouts, the scheduler
repeats its ping, and callers are cancelled at shutdown only: strong fairness on `Respond`
per request, on pings and on sends, which cancellations and changes of the breaker disable
in between. `JsonSession` has `WF` on the steps of each caller and on the clock:
`ClientTimeout` ends every request. In `SendPath` and `DeviceStore` that nothing hangs is
the invariant `NeverStuck`: a command or a task that has begun has a step of its own left,
and no step leads back. A semaphore wakes its waiters in order: `SF` on `Acquire`. Nothing is assumed of
the CCU, of the breakers' trips or of `stop()`; where a property needs the CCU up for good
it says so.

Limits. `ClientsReconnect` is checked with one recovery at a time on one interface; with more,
the divergences below delay or prevent the reconnection. `NeverAbandoned` says that a recovery
or event is on its way or that a heartbeat is alive and finds an interface to recover. It leaves
out three cases, each of which can leave a paused central with nobody to lead it on (see
below): two recoveries have overlapped; the id of the JSON-RPC client is active; or the recovery
of a heartbeat has connected every client and failed to load the data (`ConnectedUnloaded`).
`ShownIsPlayed` leaves out a change that `ConfigFails` ended, until the next read.
`SingleExecution`, `SharedOutcome` and `EveryCallEnds` hold until a call is cancelled or
`clear()` is called. `WaitersHeld` and `Served` end at `stop()`. `StoppingNeverRegisters` starts
at STOPPING. `LoneRollbackRestoresReported` is about one send since the data point last showed
what was reported; `EchoKeepsFallback` leaves out two commands with the same value.
`DeadSessionReplaced` takes calls that find the session old again and again. `SavedWhenIdle`
leaves out a content that changed while it was being saved, and one whose save failed or was
left out. `AskedIsPlayed` ends with the last slot: see below.

The `TypeOK` of each module says what its variables hold; what the proofs need of it is part
of their inductive invariants, the rest was checked with the runs' instances.

### Where the code and its documents disagree

This run states what a document and comments say, and TLC finds the behaviour that
contradicts it; `PROJECT.json` quotes the lines.

| Run | Statement | What happens |
|---|---|---|
| `send_error` | `ErrorRollsBack` | `set_value` swallows the errors of the library before the code that rolls back; the optimistic value stays until its timer fires |

Others met on the way, which no run is kept for:

* the call that finds the cooldown over is refused by the issue entry its own breaker set,
  and reopens the circuit instead of testing it (`client/rpc_proxy.py:441`);
* several requests pass a HALF_OPEN breaker, not one (`client/circuit_breaker.py:177`);
  `reset()` leaves the issue entry, so requests stay refused until a ping (`:224`);
* `stop()` of the throttle releases neither the command in the worker's hand nor its caller
  (`client/command_throttle.py:275`);
* a cancelled leader leaves its followers waiting for ever (`client/request_coalescer.py:202`);
* a cancelled follower cancels the shared future, and the leader that succeeded raises
  `InvalidStateError` (`client/request_coalescer.py:190`);
* in `central/coordinators/connection_recovery.py`: after a failed heartbeat recovery
  `can_retry` holds again, so that when it connected the clients and only failed to load the
  data the next heartbeats find nothing to do (`:600`) and the central stays RECOVERING, its
  scheduler paused, although the clients are connected; a heartbeat recovery enters RUNNING
  without looking at other clients (`:889`), leaves the interface one attempt (`:888`) and may
  overlap a running recovery (`:725`); `create_task` returns `None`, so every exhausted
  interface starts one more heartbeat loop (`:1155`); an interface that recovers clears the
  failed flag another one set, which leaves FAILED without a heartbeat (`:1298`); a second
  heartbeat recovery, scheduled before the first one succeeds and cleared that flag, and run
  when the CCU has gone again, takes the central to RECOVERING and leaves it there with nothing
  to follow; the URL of the JSON-RPC client stays among the active recoveries (`:1198`); a
  client just created is INITIALIZED and never counts as available, so its stage fails
  (`:1007`);
* RUNNING with every client disconnected stays RUNNING, because RUNNING to FAILED is no
  valid transition (`central/central_unit.py:861`);
* a reconnect that wakes between the de-initialization of its client and its `stop()`
  registers the client again (`central/coordinators/client.py:296`), and a deinit skipped
  after one failed ping leaves the registration on the CCU;
* `stop()` of a client that is RECONNECTING or FAILED raises and ends the shutdown of the
  central (`client/interface_client.py:1293`);
* a ping that succeeds during a failed init counts as the sign of life of that init
  (`client/interface_client.py:757`);
* the retry of a command waits up to 40 s for the duty cycle and 120 s for a recovery
  (`const.py:166`, `:175`), the rollback timer fires after 30 s (`const.py:136`):
  `docs/user/features/optimistic_updates.md` describes the rollback as the end of the retries;
* after several sends a rollback restores the value from before the first, although one of
  them may have been confirmed (`model/data_point.py:1192`, `:1203` says "Restores previous confirmed
  value"), and a single send after that captures and restores the same old value; a direct send back to the
  confirmed value is skipped; the in-flight marker is compared by value, and a paramset is
  registered for retries under its first parameter only; a command with retry off supersedes
  nothing;
* in `client/json_rpc.py`: the age of a session ignores days (`:511`); a renewal that returns
  after the session was cleared brings the old id back (`:2214`); the fallback login of a
  renewal does not set the time of the refresh; a login that raises is not counted by the
  rate limit; an authentication failure of an ordinary method leaves the session;
  `is_service_available` logs in and never out;
* the hash of a saved content is taken after the write (`store/persistent/base.py:216`), so
  what was added during it counts as saved;
* in `central/coordinators/device.py`: `delete_devices` looks in the registry only, so the
  deletion of a device that is still being added is ignored; an error in the repair of
  paramset descriptions leaves the ones fetched before it unsaved (`:986`); the missing descriptions are
  found by device addresses, so channels always count as missing; the list of a refresh is
  fetched before the semaphore; a device added again between the removal event and the end
  of the removal is described and never created; an update removes the descriptions of the
  device and its channels and asks for the device's alone, so that the object comes back
  without channels, although the docstring of `update_device` says it "fetches fresh data from
  the backend, and recreates the Device object" (`:648`, `:842`);
* `init_link_peer` catches `ClientException` only (`model/device.py:1374`): with no connection or
  an open breaker its error ends `Device.on_config_changed` before line 789, so that the schedule
  is not read and what is shown stays old until the next change or reload;
* in `model/week_profile.py`: periods and gaps that take exactly 13 slots and stop before
  24:00 leave the rest of the day in no slot, although `base_temperature` is the "default
  temperature when no period is active" (`:1463`, `model/schedule_models.py:1166`); one slot
  without length makes the whole schedule unreadable, with an error that `reload` does not
  catch (`:1161`); the introduction says that `set_schedule` "updates cache and publishes
  change events", which it leaves to CONFIG_PENDING (`:1216`).

## 5. Proofs

TLAPS checks the eight proof modules completely (SMT, Zenon, LS4), for every value of the
constants that satisfies the ASSUMEs of the modules: thresholds, intervals, limits and bounds
are naturals (positive where zero means that the feature is off), the markers for "none" are no
members, a session expires within a day, a batch has parameters, and a central has an interface,
without which `validate_config_and_get_system_information` refuses it
(`central/central_unit.py:770`). Every proof has the same shape: an inductive invariant, one
lemma per action (or per operator that several actions share) saying that it is kept, and the
property from the invariant. All the invariants were checked by TLC before they were proved.

* `RpcProxyProofs`. `BreakerShapeHolds`: `TypeOK` and `BreakerShape` for any number of
  proxies and requests. The invariant is inductive with the type: each method of the breaker
  maps good records to good records (one lemma per method), each action applies one method to
  one breaker. `BreakerRefinement`: every step of the system is, for every proxy, a step of
  `BreakerContract` or leaves its variables alone; the invariant is needed because a breaker
  without a failure time, or one that counts successes while open, would not map.
  `IssueGuards`: a failure opens a breaker or leaves a closed one closed, so only the answer of
  a request removes the entry, and the only requests that start beside it are the bypassing.
* `CommandThrottleProofs`. The inductive `IInv` adds to `WaitersHeld`, `NoLostWakeup`
  and `AtMostOneInversion` that the worker holds a command while it sleeps and that this
  command is not queued, that a call not yet made has left no trace, that queued commands have
  different time stamps, none in the future, that the command in hand came before the queued
  ones of its priority, that a command overtaken once is not behind a lower priority again,
  and that `gap` is at least `since`. `ThrottleSafety`, `ThrottleWakesUp` and
  `ThrottleInvertsOnce` are its parts. `ThrottleImplementsQueue` is the refinement of
  `QueueContract`: a purge, an abandoned call and a rejected one are `Leave`, a queued one is
  `Enters`, and the worker's grant is `Served` only if the command's caller is still there.
  That it then passes nobody who was passed before is the one place where the invariant on the
  command in hand is needed (`OnlyHandOvertakes`). `ThrottleSpacing` and `ThrottleFifo` state
  the two promises a caller notices in the throttle's own variables; the runs check them as
  parts of the contract.
* `RequestCoalescerProofs`. The inductive invariant ties each entry to a call that executes
  with that key, until `clear()` each run to the entry of its key and, until a disturbance,
  the state of a future to where its creator is and the end of a follower to the end of its
  leader. `CoalescerLeaksNothing`, `CoalescerSafety` and `CoalescerShares` are its parts.
* `ConnectionRecoveryProofs`, for any interfaces and any number of overlapping tasks. `IInv`
  adds to `ActiveIsRecovering`, `HeartbeatWhileFailed` and `ReconnectExclusive` that nothing is
  under way before `start()` is over, that a task of kind `one` recovers one interface and only
  interfaces reach a reconnect, that an interface that is reported lost or recovered singly has
  a client, and that a client stays RECONNECTING while a `reconnect()` sleeps: that is why a
  second task is turned away by the state machine. `ActiveRecovering`, `HeartbeatAlive` and
  `ReconnectsExclude` are its parts, `StopIsFinal` an action property.
  `NobodyAbandoned` needs a second invariant, `FInv`, of what leads on as long as no two
  recoveries overlapped: there is at most one task, and while it runs its interfaces are active
  and the central is RECOVERING; a central that is RECOVERING has a running task or the failed
  flag, and one that is FAILED, or DEGRADED without a connected client, has the flag, a task
  or an event that starts one. That the heartbeat has work is a third, `WInv`: what is being
  recovered has a record, a client is RECONNECTING only while somebody is inside, and a FAILED
  central, or a DEGRADED one with no client connected, has a recorded interface that is exhausted
  or not available, or something under way. When a heartbeat's recovery leaves RECOVERING for
  DEGRADED, the member that is not connected cannot be RECONNECTING, since the one task that is
  alive has just ended. `RecoveryUsesClients` is proved for each interface: only
  `Reconnect`, `Reinit`, the end of `init_proxy`, `Start`, the check and the end of `stop()`
  touch its client or the set of tasks inside (`PlainSides` says that no other step does),
  and each is an action of the contract because of `ReconnectExclusive` and of
  `BeforeAndAfter` (no client before `start()`, no task after `stop()`).
* `ClientLifecycleProofs`. `LInv` says that at most one task is inside `init_proxy` and the
  client is then CONNECTING, whoever stops it; that until `stop()` at most one task is inside
  `reconnect()`; that every request on its way to the CCU belongs to a task that awaits it; and
  that the undelivered events end in the present state and the devices follow the delivered
  ones. `TransitionsValid`, `DevicesFollow` and `ConnectedTolerant` are consequences,
  `StoppingRegistersNothing` holds because a task that could still register would keep the
  client CONNECTING. `LifecycleImplementsClient` is the refinement of `ClientContract`; with
  `RecoveryUsesClients` it says that the recovery module's atomic client is a sound stand-in
  for the one with proxy, requests, lost answers and events.
* `SendPathProofs`. `RetryInv` (a waiting command has an attempt left; every entry of the
  registry is a command in the loop) gives `RetriesRegistered` and `AttemptsNotSuperseded`;
  `BatchInv` and `EchoInv` (what is still to be sent, and who staged which value last) give
  `EchoKept`; `OptimisticInv` relates the tracker of a data point to the number of sends since
  it last showed what was reported and gives `LoneRollback`.
* `JsonSessionProofs`. `OneSession` is not inductive: a login may be granted while the old id
  is still there, and a renewal brings an id back. `IInv` says that only the holder of the lock
  refreshes, that during a login the client has no session the CCU knows, that a renewal is of
  the only session there is, and that every session of the CCU is given up but the client's own
  and that of a login granted and not heard of yet.
* `DeviceStoreProofs`, for any devices, channels and tasks. `DInv` has four parts. *Tasks*: who
  fetches, loads or finishes holds the semaphore, and a removal knows addresses of its own
  device only. *Files*: unless the content changed during a save, what is written is what the
  registry holds, and the hash is the file's. *Coverage*: every change that is not in the hash
  has a task that will save that store, by its plan or by where it is in its method, or is
  marked as lost. *Registry*: objects have addresses of their device, and are described or
  about to be removed. `ChangesSaved` follows from files and coverage when all are idle,
  `RegisteredDescribed` is the last part, `CreationSettled` follows because creating and
  fetching both need the semaphore. `SetContent` and the saves are each treated once
  (`ContentKeeps`, `BeginSaveKeeps`, `WriteKeeps`, `EndSaveKeeps`), whoever calls them.

Only model-checked:

* liveness (`Recovers`, `Served`, `EveryCallEnds`, `ClientsReconnect`, `RecoveriesEnd`,
  `CallEnds`, `DeadSessionReplaced`) and `NeverStuck` of `SendPath` and `DeviceStore`, which is
  about `ENABLED`: both outside the prover's reach;
* `AskedIsPlayed`, `ShownIsPlayed` and `ShownIsWritable` of `WeekProfile`: what the conversions
  compute is a statement by induction over the slots of a day, which the prover cannot do.

## 6. Not modelled

* The ping/pong tracker and the event bus are planned (section 2).
* Of the modelled components: `delay_new_device_creation` with `add_new_devices_manually`,
  the paramset consistency check, `keep_session=False`, `is_service_available`,
  `wait_for_callback`, the delayed save of the incident store, the session recorder,
  and the schedules of switches, lights and covers.
* The command tracker, the value caches, metrics, health scores, translations, configuration
  and the mapping of parameters to entities carry no control of their own.
* The RPC server and the backends are I/O and delegation. The CCU, the executor, the disk and
  the event loop appear as what the code relies on.
