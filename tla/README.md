# A TLA+ model of the FSU gateway

The FSU is an industrial gateway written in Go. It polls field devices over
serial lines and TCP through WASM driver plugins, keeps the latest values in an
in-memory SQLite database, archives them on disk, checks thresholds, and sends
data and alarms to cloud platforms over MQTT. Commands travel the other way.
Almost every part is a goroutine with a stop channel, a ticker and a mutex of
its own, started and stopped from HTTP handlers; this is what the modules here
are about.

Paths below are relative to `src/internal/`.

## 1. Inventory

| Part | State | Operations | Hard behaviour |
|---|---|---|---|
| Collector scheduler (`collector/collector.go`) | task map, heap of next runs, slot counter, stop and wake channels | Start, Stop, SyncDeviceStatus, dispatch, finish, SetMaxConcurrentCollects | restarts overlapping a Stop, wake-ups against timers, edits against running collections |
| One collection (`collector/modbus_collect.go`, `error_tracking.go`) | last stored time, failure statistics | collectOnce, markTaskCollected, markTaskFailed | history throttling across failures |
| Command poll (`collector/command_poll.go`) | none of its own | pull, execute, report | a command lost between pull and report |
| Alarm state (`collector/alarm_state.go`) | last emission per device and threshold | shouldEmitAlarm, prune, clear | repeat intervals against expiry |
| Threshold cache (`collector/threshold_cache.go`, `threshold_check.go`) | cached rules, refresh goroutine | Refresh, get, Invalidate | a database read installed after the invalidation that should have hidden it |
| System statistics (`collector/system_stats.go`) | last result, loop | Start, Stop, collect | a restart while the old loop measures; unsigned counters |
| Driver executor (`driver/executor*.go`, `manager_resolve.go`) | resource mutexes, connections, paths, executing flags | execute, open, dial, CloseResource, SetResourcePath | mutex objects replaced while held, lazy dialling under a lock |
| Plugin manager (`driver/manager.go`, `hostfuncs_*.go`) | loaded plugins and the resource each is bound to | Load, Unload, Reload, call | a plugin rebound between check and call |
| Northbound adapters (`northbound/adapters/`) | data and alarm queues, connection, loop goroutine | Send, flush, reconnect, Start, Stop, Close | retries against new messages, reconnect signals, the flush at a stop |
| Adapter commands (`*_downlink.go`, `pandax_rpc.go`) | command queue, request states | enqueue, PullCommands, ReportCommandResult | the queue at its limit, results of forgotten requests |
| Northbound manager (`northbound/manager.go`, `app/routes_api_deps.go`) | adapters, enabled flags | Register, Unregister, SetEnabled, SendData, rebuild | a send to an adapter that is being replaced |
| Collect write queue (`database/collect_write_queue.go`) | bounded queue, writer goroutine | Start, Stop, Enqueue, writeBatch | the direct write at a full queue |
| Data sync and retention (`database/data_sync.go`, `retention_job.go`) | global ticker and stop channel, pending counter | Start, Stop, Trigger, syncDataToDisk | package variables re-read while Stop clears them |
| History and latest values (`database/data_points*.go`, `data_cache.go`) | `data_points` in memory and on disk, `data_cache` | insert, query, merge, delete | rows that move between the two reads of a query |
| Schema (`database/db.go`, `migration.go`, `*_store.go`, `app/database_bootstrap.go`) | param.db | open, create, rebuild, backfill | dying between two statements of an upgrade |
| Product keys (`collector/modbus_collect.go`, `northbound/adapters/pandax_sync.go`) | key per driver, per task and per row | fix, write, back-fill | two writers of one row from old copies |
| Circuit breaker (`circuit/circuit.go`) | state, request window | Execute, Reset | half-open concurrency |
| Application (`app/`) | start and shutdown order | bootstrap, registerShutdown | what is still running when the next part is stopped |
| Drivers, resources, runtime settings (`service/driver_service.go`, `resource_service.go`, `gateway_runtime_*.go`, `httpapi/*_write.go`) | files, rows, plugins, caches | create, update, delete, upload, reload, apply | several steps without a lock, one failing |
| Other services and HTTP (`service/`, `httpapi/`) | none | handlers | one store call each |
| Platform (`platform/`, `pwdutil/`) | session secret, configuration, log files | auth, config, logger, graceful | file rotation, tokens |
| User interface (`ui/`) | browser | pages | out of scope |

How the parts interact: HTTP handlers edit rows and call the collector, the
executor and the northbound manager directly; the collector's loop starts a
goroutine per collection, which calls the executor, then enqueues the reading
for storage and hands it to the manager, which calls `Send` of every adapter;
each adapter's own goroutine publishes. Nothing is passed by message between
processes except over MQTT; everything else is a mutex, a channel or a
package-level variable.

What makes each part correct:

* scheduler: an enabled device is collected again and again, never by two
  goroutines from one task, never beyond the concurrency limit; a removed one
  stops; `Stop` returns and leaves nothing running;
* executor: one transfer at a time over a resource, one call at a time in a
  plugin, a plugin works on the resource of the device it was called for, and
  every way out gives the mutex and the executing flag back;
* adapters: what is accepted is published in order, still queued, or dropped by
  a rule one can name; `Stop` returns; after a reconnect delivery goes on;
* storage: no reading is lost between the queue and the tables, no row between
  memory and disk, and a shutdown leaves everything on disk;
* rules and alarms: a rule that was edited is applied as edited, at the latest
  after the next refresh; an alarm is not repeated before its interval is over;
  a rule is compared with a value of the reading at hand;
* commands: run in their order, each once, and answered truthfully;
* northbound, drivers, resources, settings: what runs is what the database says,
  through failing steps, rollbacks and overlapping requests;
* history: a query misses no row while rows move from memory to disk under it;
* breaker: it opens and closes exactly when it promises;
* start: whatever release wrote the database and wherever a start died, the next
  one comes up with the current schema and loses nothing;
* platform: log lines are kept in order, a refused configuration leaves no trace,
  the statistics have one loop and a percentage is one.

## 2. Modules and plan

| Module | Part | Checked by |
|---|---|---|
| `Collector`, `CollectorProofs` | the scheduler | `MCCollector` |
| `DriverExecutor`, `DriverExecutorProofs` | executor and plugin manager | `MCDriverExecutor` |
| `Adapter`, `AdapterProofs` | queues, loop and lifecycle of the adapters | `MCAdapter` |
| `Storage`, `StorageProofs`, `History` | the way of readings to disk; reading them again | `MCStorage` |
| `ThresholdCache`, `AlarmState`, `AlarmProofs` | rules; repetition of alarms | `MCAlarms` |
| `Commands`, `Breaker`, `BreakerPromise`, `CommandsProofs` | downlink commands; circuit breaker | `MCCommands` |
| `Drivers`, `Startup`, `ProductKeys`, `AdminProofs` | driver administration; schema upgrade; product keys | `MCAdmin` |
| `Northbound`, `Resources`, `RuntimeConfig`, `ConfigProofs` | configuration, stored and running | `MCConfig` |
| `ConfigLoad`, proved about in `AdminProofs` | configuration at the start | `MCConfig` |
| `CollectBatch`, `FieldLookup`, proved about in `AlarmProofs` | one reading: its rows, its fields | `MCConfig` |
| `SystemStats`, `LogRotation`, proved about in `CommandsProofs` | the platform's own | `MCConfig` |

Where an MC module extends several components that share no state, each of its
behaviours is one of one part (`part`), and the others stay as they began: the
run asks the same questions as one run for each.

Left of the plan, in this order:

1. a composition of one collection with the rule cache, the adapters' queues and
   the write queue;
2. an abstract specification of `Storage` (a set of rows that only grows, and
   shrinks by age and limit), and rows that reach the disk under fairness.

## 3. The modules and the code

**`Collector`** (`collector/collector.go`). The variables are the fields of
`Collector` under `c.mu`, plus the place of every goroutine: the execute loop and
the sync goroutine of each `Start`, one `worker` per collection, and the callers
of `Start` and `Stop`. Each action is one critical section or one channel
operation. Three choices keep it finite and true: time is relative (`heap[t]` is
`nextRun` minus now); a task object is a pair of device and slot, its address,
so that a stale pointer to a replaced task is told from the current one; and
each `Start` makes a new generation of `stopChan` and `wakeChan`, which
goroutines of the earlier one still hold. `SyncList` reads the device table
before `SyncDeviceStatus` locks, so a stale list can be applied late. A
collection is a duration. HTTP requests may call `Start` while a `Stop` still
waits, and the other way round: `overlap` says of the last `Start` whether it
found something of an earlier one at work, or was itself overtaken by a `Stop`.

**`DriverExecutor`** (`driver/executor*.go`, `manager*.go`, `hostfuncs_*.go`). A
mutex is an object: `resourceMux` maps a resource to one, and the code may
create a second while the first is held. An execution goes through start, path,
lock, port, plugin check, plugin call, transfers and the deferred unlocks. A
plugin call is any number of transfers, each of which looks its connection up
anew. The operator's actions (`CloseResource`, `SetResourcePath`, `UnloadDriver`,
`LoadDriver`) run at any time, `MaxAdmin` of them; an execution that finds its
driver bound to another resource loads it again (`Load`). `unlocked` has the
executions whose mutex `CloseResource` forgot while they had it, `swapped` those
whose plugin was unloaded, by an operator or by another execution, after they had
checked it.

**`Adapter`** (`northbound/adapters/`). One module for the five adapters, which
share code or copies of it; `setting.family` selects what differs (signal or ticker,
who reconnects, what a stop drains, where a failed batch goes). Messages are numbers
in the order they were accepted, so order, loss and repetition are statements about
numbers; `arrived` has those the broker was given, `late` and `dup` say whether one
came after a newer one of its device or a second time. The MQTT client is external
and does what a client may do. Publishing and the check of `enabled` before it are
one step.

**`Storage`** (`database/collect_write_queue.go`, `data_sync.go`,
`retention_job.go`, the inserts of `data_points_query.go`, the order of
`app/bootstrap.go`). Readings carry a number and whether they go to history; a
row of `data_points` is its key (source and second), with the AUTOINCREMENT id
it was last written under, because the sync copies and deletes by id. SQLite
statements are atomic; the memory database has one connection. Each insert, its
note, the size limit's delete, the trigger, each statement of a sync, each
statement of the retention job and each step of the shutdown is an action.
`history`, `stored` and `failed` record what was written, for the properties.
The pair of global ticker and stop channel of each loop is one flag; a nil
ticker at the loop's select is a panic, after which nothing happens.

**`History`** (`database/data_points_query.go`, `data_points_batch.go`,
`data_points.go`, `data_cache.go`). Rows have a field, a second and a value. A
query takes its rows from memory in one step and from disk in another; inserts,
the two halves of a sync and the two halves of a deletion happen between. The
merge of the two sorted lists is the code's loop, round by round, as a function of the
number of rounds, and the database's ordering puts a row where as many rows are newer as
come before it. `must` remembers which rows the answer owes. The set of fields is
finite, as every table is.

**`CollectBatch`** (`InsertCollectDataWithOptions`) follows one reading through
its batches: the map of fields in any order, the points that override them, and
one failing statement, with or without a transaction. **`FieldLookup`**
(`threshold_check.go`) is the lookup a rule's value comes from: four maps built
when they are first needed, two of them from a pool.

**`ThresholdCache`** (`collector/threshold_cache.go`,
`service/threshold_config_service.go`). Refreshes, checks that miss and edits,
each split where it lets go of the lock or reads the database; `raced` marks a
device whose entry was filled over an edit. **`AlarmState`**
(`collector/alarm_state.go`). Times are ages that saturate; the repeat interval's
two atomics are loaded, stored and reset one after the other. A check takes its
time when it begins, so `emitted` has both the time since the last alarm as the
check sees it (`gap`) and as the clock has it (`age`).

**`Commands`** (`ithings_downlink.go`, `sagoo_downlink.go`, `pandax_rpc.go`,
`northbound/manager.go`, `collector/command_poll.go`). A message is a request of
one or two commands; the handler queues them and then registers the request, and
the poll worker may overtake it. The answer to iThings carries a code and a text, and
the code of a request is that of the last result (`Applied`), because every result
has one. `origin`, `executed`, `ran`, `failedRun`, `reported` and `reply` record what
happened.

**`Northbound`** (`northbound_config_service.go`,
`northbound_runtime_service.go`, `routes_api_deps.go`, `manager.go`). A request is
the list of steps it still has to do, one per call of the manager, statement or
`Initialize`; a failing step replaces the rest by the rollback. `excused` is the
set of names for which the code gives no guarantee any more (a failed rollback, a
name two rows share, overlapping requests), until a request for it succeeds. Two
requests overlap when they are for one row or when one names, now or at its end,
a name of the other. A request to synchronise the statuses that finds an adapter of
the name leaves it alone (`LeavesAlone`), and excuses nothing.

**`Drivers`** (`service/driver_service.go`, `driver/manager*.go`). Files, rows,
plugins and one device's binding; every request is a list of steps, and the device's
collection loads and rebinds on its own. `onBus` has the plugins that are bound to
the device's resource: a start and an operator's load bind the one `config_schema`
names, if any, and the next collection then reads row and file again and loads the
plugin once more (`Ready`, `EnsureLoaded`). A file being written is torn.
**`Resources`** (`httpapi/resource_write.go`, `resource_service.go`, the executor's
caches). One network resource between its row, the cached path and the connection.
**`RuntimeConfig`** (`gateway_runtime_apply.go`, `gateway_runtime_change.go`). Two
requests over the one unprotected record, the reset channel of one place, the
ticker's worker, and an adapter (mqtt, xunji, pandax), which any request about its
northbound configuration makes anew with the built-in reconnect interval
(`RebuildAdapter`; `anew` says it was given no other since). A request that has
looked the old one up gives its interval to that (`replaced`). **`ProductKeys`**
(`modbus_collect.go`, `collector.go`, `pandax_sync.go`). A reading works on the
device object it began with, step by step; the sync and PandaX work from lists they
read earlier.

**`Startup`** (`database_bootstrap.go`, `db.go`, `migration.go`). Every statement
of a start over a file of any earlier release (`origin`), in transactions where
the code has them; the process may die before each. `committed` is what a new
process finds.

**`Breaker`** (`circuit/circuit.go`). Every method, with the lock released while
the function runs. `sinceFailed`, `sinceSucceeded` and `resets` record what
happened, for **`BreakerPromise`**: the breaker as its caller sees it, which
closes only after enough successes or by a reset, and knows nothing of cleanup.

**`LogRotation`** (`platform/logger/rotating_writer.go`): buffer, files and
renames, with failing flushes, renames and openings and a process that ends.
**`SystemStats`** (`collector/system_stats.go`): the loop over stops and starts,
and the CPU usage over unsigned counters of `Word` values. **`ConfigLoad`**
(`platform/config/config.go`): the parser a line at a time, and what file and
environment make of a setting; a line is its indentation, key and value.


## 4. Runs

Several properties are conjunctions of named parts, listed in parentheses; the
module comments say each part. Where a module's type invariant is not proved it
is one of the parts.

| Run | Shows | Bounds |
|---|---|---|
| `collector_schedule` | `SlotsRespected` (`ActiveMatches`: the slot counter is never above the collections in flight, and below them only after a `Start` that found some at work; `BoundedDispatch`; `QuietWhenStopped`: a `Stop` that returned has left none, unless a `Start` was under way); `NoLostWakeup`: no loop sleeps past due work; `HeapHoldsCurrentOnly`, `CollectedOnce`, `NoTaskLost`: every current task is in the heap or with exactly one goroutine, and no stale one is | 2 devices, 2 intervals, 2 goroutines, limit 1 or 2, 2 starts, 1 edit; beside an edit a limit of 2; where calls of `Start` and `Stop` overlap 1 device, no edit, a limit of 2 and no further listing (`FewAtOnce`) |
| `collector_live` | `StopTerminates`, `EnabledCollected`, `DisabledReleased` | 2 devices sharing one slot, 2 starts one after the other (`SerialLifecycle`), 1 edit |
| `executor_bus` | `ExecutionReturns` | 2 goroutines, 3 devices, 2 serial resources, 2 drivers, no edits |
| `executor_admin` | `ExecutionsTidy` (`OneReadPerDevice`, `LocksGivenBack`), `BusSerialised` (`ResourceExclusive`, `PluginExclusive`, `OwnResource`) | 2 goroutines, 2 devices on a serial resource and 1 on a network one, one driver for all three, 2 operator actions, 5 mutexes, so that none is missing |
| `executor_dial` (violation) | `LazyConnects`: the first transfer over a network resource blocks on its own caller's mutex | as `executor_bus`, one network resource |
| `adapter_safety` | `QueuesSound` (`InOrder`, `NothingForgotten`, and `NoDuplicate` for mqtt and xunji when nothing times out), `DrainedAtStop` (ithings, sagoo, pandax, nothing failing) | 3 messages of each kind from 2 devices, queues of 2, 6 settings |
| `adapter_live` | `LoopStops` (`OneLoop`, `StopReturns`), `Delivered` | pandax, 1 message of each kind, 2 starts |
| `storage_safety` | `NothingLost` (`NoReadingLost`, `HistoryKept`), `ShutdownPersists`; `AnswersSound` (`AnswerComplete`, `AnswerOrdered`, `LatestIsNewest`) | 2 sources, 2 readings, queue of 1, batch of 2, one row allowed, a tick or a failing statement; for queries 2 fields, 3 writes, 2 seconds, a cache of one entry |
| `alarms` | `RulesSound` (`StaleOnlyByRace`), `RulesConverge`; `AlarmsSound` (`AlarmsSpaced`), `IntervalAdopted` | 2 devices, one rule, 2 edits or an edit and a failing read; 2 overlapping checks, intervals 1 and 3, states kept 2 or 3, a change of the interval or a failing read |
| `commands` | `AnswersTrue` (`AnswersWhole`), `CommandsInOrder`, `CommandsServed`; `KeepsPromise`: the breaker implements `BreakerPromise` | one adapter of each platform, requests of 1 or 2 commands, queues and pulls of 2, one adapter removed; 2 callers, thresholds 2, 4 results, 4 ticks, 1 reset |
| `config` | `AdaptersFollow` (`RuntimeFollowsDB`, `NoConnectionForgotten`), `ConnectionFollowsRow`, `SettingsFollow`, `BatchesSound` (`ReadingWritten`, `FailedWriteHarmless`), `LookupSound` (`AnswerFromReading`, `CacheTransparent`), `FileSound` (`FlatAsNested`, `FileAllOrNothing`), `StatsSound` (`OneStatsLoop`, `CpuUsageSound`), `LogSound` (`LogFilesOrdered`, `LogFileBounded`, `DropsOnlyOldest`) | per part: 2 configurations, 2 names, and 2 requests with two faults (a connect, a statement) or a restart (with two rows, one fault), or 3 over one row without; 3 resource edits, the third without a fault; 2 settings requests and an adapter made anew once; batches of 2 out of at most 3 points; files of 4 lines; a word of 32; lookups in 2 readings, the second of at most 2 points and fields; 5 log lines in files of 4 bytes |
| `admin` | `PluginsSound` (`NoPluginWithoutRow`), `DeviceServedInTheEnd`; `UpgradeSound` (`SchemaCurrent`, `AddressKept`, `RowsKept`, `LaterStartsHarmless`), `StartupComesUp`; `KeysSound` (`KeysFromOwnDriver`), `KeysConvergeInTheEnd` | 2 names and files, 2 uploads, 2 requests that are alike, the driver at the start of the device's type, its plugin bound to the device's resource or not; every origin of the database, 2 crashes in 4 starts; 2 devices and drivers, one reading beside the loop's, one edit, upload, PandaX synchronisation or fault beside them, where an edit enables or disables a device or changes the rest of it |

Why the bounds are enough for what they are for: the hazards are races of two
parties (two goroutines, an edit and a collection, a sync and an insert) around a
limit, so two of each and limits of one or two let every pair meet at the limit.
Three messages in queues of two overflow and still leave an order to break; a shared
and a separate resource tell one's own mutex from another's; two starts leave
goroutines and channels of an earlier generation around, and one device with two
goroutines is enough for a second `Start` to meet the first one's collection. Two
operator actions can take the mutex and the plugin away from one execution, or the
mutex from both. A queue of one makes both ways of `EnqueueCollectDataWrite` happen
with two readings; `Retain = 0` lets a row expire after one tick. Two crashes in
four starts let a start die in what the one before has left half done, and still
leave one that must come up. Three points in batches of two give an exact batch, a
short last one and a skipped point at the border. Six lines of two sizes fill three
files and rotate the oldest away. `MaxStarts`, `MaxEdits`, `MaxAdmin`, `MaxMsg`,
`MaxFaults` and their like bound what the environment does, never what the code does
with it; `MaxResults`, `MaxTime` and `MaxResets` bound the breaker's history
variables. Symmetry is used for goroutines, devices, mutexes, sources and requests, in runs
of safety properties only.

Deadlock is checked for the scheduler and `executor_bus`. It is not for
`executor_admin` and `executor_dial`, where the self-deadlock of `executor_dial`
is reachable, nor where the system ends or its environment has nothing left to
do: `Close` of an adapter, the shutdown, the requests of an operator.

## 5. Fairness

* Weak fairness for every step a runnable goroutine can take, and for time:
  the steps of a check, a refresh and an edit (`ThresholdCache`, `AlarmState`),
  of the poll and the handlers (`Commands`), of a device's collection and of
  requests under way (`Drivers`), of the PandaX synchronisation (`ProductKeys`).
* Strong fairness for one case of a `select` (stop, timer, signal): Go chooses
  among ready cases at random, so a case ready again and again is taken.
* Strong fairness for acquiring a `sync.Mutex`, which hands over to a waiter
  that starves.
* Strong fairness for a listing of devices that succeeds (`SyncList`), for a
  connect and a publish that succeed (`ReconnectOk`, `ConnectInPublish`,
  `PublishOk`), for a plugin that returns (`PluginReturn`) and for the next reading
  of a device (`ProductKeys`): the database, the broker and the plugin may fail or
  dawdle often, not for ever. (A plugin call has a timeout, `callTimeout`; a call
  it ends is a call that fails.)
* A process that has ended is started again (`Startup`). This is of the operator,
  not of the code: `StartupComesUp` is about a gateway that is wanted up. Crashes
  are bounded.
* `Delivered` says this of an adapter that stays enabled while its broker loses
  the connection finitely often. Nothing else is assumed of operators.

## 6. Proofs

The theorems hold for every value of the constants, under the assumptions their
modules declare (bounds are natural numbers, limits are positive, markers differ
from what they mark) and what is said here beside a theorem. Each rests on an
inductive invariant, with a lemma for each action or group of actions that share
a frame.

**`CollectorProofs`.** For any devices, slots, configurations, goroutines and
limits, whether or not a `Start` overlaps a `Stop` that still waits:

* `TypeCorrect` – `Spec => []TypeOK`;
* `HeapSound`, `SingleCollector`, `NothingLost` – the invariants
  `HeapHoldsCurrentOnly`, `CollectedOnce` and `NoTaskLost`.

None of the three is inductive alone. That a finished collection may requeue its
task without doubling it needs that no other goroutine holds it and that it is
not in the heap; that the loop's pop is matched by a dispatch needs to know what
the loop holds between the two; that an added task takes a fresh address needs
that nothing refers to it. `SchedInv` is the conjunction of `TypeInv` (types, and
every current task has a known configuration), `Unlaunched` (goroutines of a
`Start` that has not happened are not there) and `Placement` (the three
invariants, and a loop in dispatch holds a task).

With finitely many goroutines, and again whether or not calls overlap:

* `SlotsCounted` – `SlotsRespected`. `SlotInv` adds `Slots` (the counter is at most
  the number of tasks in flight, and that number unless a `Start` found some at work;
  a cardinality that goes up and down by one with each dispatch and release) and
  `Quiet` (goroutines are alive only while the collector runs or its `Stop` waits, as
  long as calls did not overlap);
* `WakeUpsKept` – `NoLostWakeup`, which is inductive with `SlotInv`: what gives a loop
  something to do makes it look again in the same step, or sends the wake-up. An
  undercounted slot makes the loop look once too often, never too seldom, and a loop
  that sleeps because all slots are taken has a collection in flight to wake it,
  because the counter is never above their number.

**`DriverExecutorProofs`.** For any goroutines, devices, resources, drivers and
mutexes:

* `Tidy` – `ExecutionsTidy`, whatever operators do. `TidyInv` adds what a goroutine
  holds at each of its places (`Placed`), and that it owns the mutexes it has
  locked (`Locked`): `GetTCPConn` frees the one it locked, never its caller's;
* `BusKept` – `BusSerialised`, whatever operators do and whichever drivers devices
  share. `BusInv` says of each execution that was not `unlocked` that its mutex is the
  one `resourceMux` has for its resource (`LockOwn`), so that two of them over one
  resource hold one mutex; and of each that was not `swapped` that from the check to
  the end of its call the plugin is there and bound to its resource (`PluginOwn`).
  That `CloseResource`, an unload or a rebind marks every execution it reaches is what
  makes the two inductive; an execution that starts afterwards is not marked.

**`AdapterProofs`.** For every family of adapters, any capacities, messages, devices
and starts:

* `QueuesKept` – `QueuesSound`: order, completeness and no repetition. The proof
  first treats one kind of messages as values: what waits, the batch at hand and how
  far it is published, what has arrived, what is lost (`Fine`, `Whole`, `Once`), with a
  lemma for each thing that can happen to them (a message is accepted, the oldest
  dropped, a batch taken, published, put back, given up). `Inv` says this of both
  kinds, and which of them the loop is flushing. Order needs `Settled`: what waits is
  newer than all that arrived, or has arrived itself (an acknowledgement was lost), or
  a newer message of its device waits beside it, in whose one message of the latest
  values it is carried;
* `LoopIsOne` – `OneLoop`, the safety half of `LoopStops`: a `Stop` disables the adapter
  before it closes the channel, and only a disabled adapter is drained;
* `AlarmsDrained` – `DrainedAtStop`. A failed flush would end the drain, so `DrainInv`
  says that none fails: without faults a publish is refused only when there is no client,
  and there is none only after a Close, with no loop, no flush and no Start to come.

**`StorageProofs`.** For any finite set of sources and any sizes of queue, batches and
tables:

* `TypeSafe` – `TypeOK`;
* `NothingIsLost` – `NothingLost`. Between its copy and its delete a sync is about to
  delete rows by id; `CopyOK` says that all of them that are history are on disk
  already, because a row inserted meanwhile has a larger id;
* `ShutdownSaves` – `ShutdownPersists`. `SaveInv` follows the order of the shutdown: with
  the sources idle and the writer gone nothing comes in any more, so the last sync's
  greatest id covers every row that is left.

For any finite set of fields, any limits, bounds and number of queries:

* `QueriesAnswered` – `AnswersSound` of `History`. `MergeAnswers` says what a merge of two
  descending lists gives: descending, a row twice only in the second where memory ends,
  and each row of either list is in it unless it is full of rows that are not older
  (`Answers`); of the loop this is proved for the round that is the least not to keep
  `Merged`. In the invariant, `DiskOlder` is the reason why
  reading memory before the disk is enough: what is on disk is not newer than what is in
  memory, unless it is a row that is still in memory or is about to be deleted, and what
  came to memory after a sync had copied its rows is not older than any row on disk.
  `AtDisk` then says that between the two reads every row the answer owes was taken from
  memory or is on disk, whatever the sync does, and `LatestSound` the same of the latest
  values.

**`AlarmProofs`.** For any devices, rules, checks and requests:

* `RulesKept` – `RulesSound`. `StaleOnlyByRace` is inductive once it is known that an edit
  keeps what it has to drop in `drop` from the step that writes its row, both devices
  included, and has nothing there before (`EditsOK`);
* `AlarmsNotRepeated` – `AlarmsSound`, with repeat intervals that have an upper bound
  (`IntervalsBounded`: they are an `int` of seconds). The state the code keeps is the
  last alarm's time unless it was pruned, and it is pruned only when older than the
  shortest life a state may have (`StateIsAlarm`); the ages saturate above any of them.

For readings of any finite sets of fields, batches of any size and names of any case:

* `ReadingsWritten` – `BatchesSound`. `BatchInv` says that a table, with the rows that
  wait in the batch, has what was appended so far and nothing else (`SoFar`): the fields
  that no point overrides, and of each name the last point, because of the rows of one
  key the last one counts (`LastOf`). It also counts the rows of the history
  (`CountedRows`);
* `LookupsSound` – `LookupSound`. `LookupInv` says that the two maps by lower-case name
  are not built or are made of the reading at hand (`MapsBuilt`), that a number
  remembered under a name is one the reading has for it, and a name remembered as
  invalid stands for none (`Remembered`).

**`ConfigProofs`.** For any requests at once, paths and values:

* `ConnectionKept` – `ConnectionFollowsRow`. The two halves are invariants apart: the
  connection leads where the cached path does (`Leads`), and the cached path where the
  row or the device says (`Cached`);
* `AdaptersFollowInvariant` – `AdaptersFollow`. `NbInv` says of every request, by what it
  still has to do and whether it is being undone, what it has made of the rows and of the
  adapters of its names so far (`Stage`), provided that it is `clean`: no other shares
  its row or one of its names (`Separate`). Of the names of no request it says that they
  are as the rows want them or excused (`Outside`), and of the row of a request that its
  name is one of some request or excused (`Covered`). A step of one request then leaves
  alone what is said of the others. `NoConnectionForgotten` is counted by name. An
  earlier form of `RuntimeFollowsDB`, in which requests overlapped by their names only,
  could not be closed like this, and was false with a third request, which the run's
  bound of two had kept from happening;
* `SettingsKept` – `SettingsFollow`. `Progress` says for a request that runs alone what it
  has handed over at each of its places, the value on its way to the ticker's worker
  included; `Follows` says that all parts run with the record as long as every request
  is still in its assignments and has changed nothing. An adapter made anew in between
  runs with the built-in interval, and a request that still has the old one at hand does
  not change that.

**`AdminProofs`.** For the file of any release and any number of crashes; for any
drivers, files and requests; and for any devices, keys and collections at once:

* `UpgradeKept` – `UpgradeSound`. `BootInv` says what a start has made of the schema when
  it has come to each of its places (`Reached`), in which column an old address lies
  until it is copied and after (`AddressSafe`), that rows are in the database at hand and
  in the one a crash falls back to (`RowsThere` of both), and that after one complete
  start nothing is left that a later one would rebuild (`UpToDate`). A crash is a return
  to `committed`, which differs from `db` only inside a transaction;
* `PluginsFollowRows` – `PluginsSound`. A request is what it still has to do, so the
  invariant is about lists: a deletion of a row is followed at once by the dropping of
  its plugin (`DropsNext`), and whoever is to touch a plugin, write a row or read a file
  knows which (`HasId`, `HasName`, `HasFile`) or is to find it out before. Each kind of
  request begins with such a list (`ListSane`), and a step leaves its tail one
  (`NextSane`);
* `KeysKept` – `KeysSound`. `Owners` says which collection is a task's own: one at most,
  and one as long as the task is busy, whatever the synchronisation does to the task
  meanwhile; and while the device object is still the task's, both agree on the driver.
  `KeysOwn` says that until a key is written for a device of another driver (`crossed`)
  every key anywhere, in a row, a file, a task, a list somebody works through or a
  collection, is one of the driver beside it; the fixed keys alone are not inductive;
* `FileAsMeant` – `FileSound`, for a file of any length. `ParseInv` says that the stack
  holds, for each level, the path of the last section line of that level that the next
  line may be in (`StackOf`), that `flat` has each path with the value of the last line
  given for it (`FlatOf`), and that a file is refused when a line of it is not nested.
  `PathTo` is recursive: what it says of a line follows from the least line for which
  it would not hold.

**`CommandsProofs`.** For any adapters, requests, fields and sizes of queues and batch:

* `AnswersKept` – `AnswersTrue`: an answer is given from a request's state only when
  all its commands have been run, and has the outcome of the newest. `StatesSane`
  relates the number of results a request's state still waits for to the numbers of its
  commands, to the last one reported and to those that were run (`Counts`): results are
  missing for good when they were reported before the handler kept the state, or when
  their commands gave way in a full queue, so that such a state waits for ever and never
  answers for commands nobody ran;
* `OrderKept` – `CommandsInOrder`. What is pulled and what waits is in the order of the
  numbers, behind what was run (`QueuesSane`, `BatchSane`, `LineSane`).

For counters of any width, lines of any length, and any starts and stops:

* `StatsAreSound` – `StatsSound`. `LoopInv` adds to `OneStatsLoop` types, and that
  `Stop` waits for the loop with `running` cleared; `UsageInv` says that the two
  lines of a measurement are of one length and its usage is the formula's. That the
  formula gives the share is arithmetic of any width: the sum `FoldSeq` makes is `Total`,
  from which any index may be taken first, a sum that wrapped is its `Modulo`, and the
  difference of two wrapped sums is that of the numbers if this is less than `Word`.

For log lines of any size, any limit and any number of backups:

* `LogKept` – `LogSound`. `LogInv` is about `Files`, the files with the buffer at the end
  of the current one, because a flush then changes nothing, a call of `Write` appends a
  line, a rotation shifts (`Shifted`), and a failed flush and the end of the process cut
  the current file (`Prefix`). It says that they are in order and below the next number
  (`InOrder`), that each is within the limit or one line (`AllSmall`), and that the size
  counted in memory is at least that of the file and the buffer.

For any callers, thresholds, window and timeout of the circuit breaker:

* `BreakerTypes` and `BreakerRecordsComplete` – the types, and that of the results
  since the present state was entered none is missing from the breaker's records
  that is still in the window;
* `BreakerKeepsPromise` – the breaker implements `BreakerPromise`.

The second is what makes the refinement go through: the breaker decides on the
records its cleanups have left, the promise on everything since the last change of
state, and only an invariant relating the two lets a step of the first be one of the
second. It holds because cleanup only drops what is out of the window and the clock
only goes forward. It is inductive together with the types and with `Fresh`: the
number of a result to come has not been used (`BreakerInvariant`). The refinement
then goes action by action (`PromiseStep`).

Induction over data, which the library states with an operator parameter that none of
the provers can instantiate, is done here through least counterexamples: a set of numbers
that is not empty has a least element (`LeastIs`, from `WFMin`).

Every safety property of a passing run, invariant or action property, is stated by one
of these theorems. Only model-checked is what needs fairness, which this prover does not
treat: `ExecutionReturns`, `StopTerminates`, `EnabledCollected`, `DisabledReleased`,
`StopReturns` (the other half of `LoopStops`), `Delivered`, `RulesConverge`,
`IntervalAdopted`, `CommandsServed`, `StartupComesUp`, `DeviceServedInTheEnd` and
`KeysConvergeInTheEnd`.

## 7. Known limits of the code that the models show

`executor_dial` is a run of its own: `GetTCPConn` locks the mutex its own
execution holds. The rest is stated here, with the way each is kept out of the
properties above, or the definition that states what fails.

Scheduler and executor:

* A `Start` called while a `Stop` waits for its goroutines sets `activeCollects` to 0
  under collections in flight (`collector.go:177`): more than the limit may then run at
  once, and the loop of the earlier `Start` may go on beside the new one for a round.
  A `Stop` called while a `Start` is under way finds nothing to wait for and returns
  before the loop is there, which then ends on its own. `overlap` excuses just these;
  that the counter is never too high, no task lost and no wake-up missed holds all the
  same. `collector_live` has one call at a time.
* `CloseResource` deletes the mutex of a resource (`executor.go:343`) also while
  it is held, so that the next execution uses the port beside the one that has it
  (`unlocked`; without this excuse `ResourceExclusive` fails in `executor_admin`).
* With one driver shared by two resources, `ensureDriverLoaded` of one execution
  rebinds the plugin between another's check and its call
  (`manager_resolve.go:351`), as does an operator's reload: the call then finds no
  plugin, or works on a resource whose mutex its caller does not hold (`swapped`;
  without this excuse `OwnResource` fails in `executor_admin`).

Adapters and commands:

* A batch put back in front of a full queue pushes the newest message out, where
  the documentation says the oldest (`Adapter!DropsOldest`).
* `stop` clears `enabled` before the loop's last flush (`adapter_lifecycle.go:66`),
  and `publish` of mqtt and xunji refuses while disabled: what is queued at a stop
  stays queued. `DrainedAtStop` is therefore about the other three, and does not guard
  against this.
* iThings answers a request of several commands with the code of the last result
  (`ithings_downlink.go:144`): 200 when an earlier command failed and the last did not,
  beside the text of the failure. The state's `Success` is read only for a code of 0,
  which no result has (`command_poll.go:70`), and `../docs/ithings.md:111` and `:139` show
  `"code": 0` where the code sends 200 or 500.
* iThings keeps a request's state after its commands are queued, so that the poll
  may report them before; after `Close` that write meets a nil map
  (`ithings_downlink.go:44`). A command that gave way in a full queue leaves its
  request without an answer (`Commands!ActionReplied`). Results are reported to
  every enabled adapter, and Sagoo answers before the command runs.

Storage and history:

* A full queue lets a newer reading overtake an older one, which then overwrites
  it in the cache (`Storage!CacheNewest`).
* Stopping the data sync under a loop at work ends the process in a panic
  (`Storage!CleanShutdown`, `data_sync.go:39`).
* The size limit counts and deletes in two statements (`data_points_query.go:113`):
  after a sync in between it may delete unsynced rows of a table that is no longer
  too long. `HistoryKept` excuses the rows the size limit deletes.
* Where the newest second on disk is the oldest in memory a row may appear twice,
  or a query by device miss the disk's rows of that second; of two readings of one
  second the disk keeps the first and the cache the last; an entry evicted from the
  cache hides the field's history in memory. `History` states its properties around
  these.
* `persistCollectData` marks a reading's history stored before the write has
  succeeded (`modbus_collect.go:44`); a reading in several statements without
  history is not in a transaction, so that a failure leaves its first part.

Rules and alarms:

* Rules read before an edit may be cached after it, until the next refresh (`raced`
  in `RulesSound`, which is about all other ways to keep an old rule;
  `RulesConverge` says that this one ends). An error of the load in
  `threshold_config_service.go:40` is ignored, and the device a rule has left keeps
  its entry.
* An alarm state's life is capped below a long repeat interval, which the comment at
  `alarm_state.go:191` does not expect; `AlarmsSpaced` has the cap.
* Of two field names that differ only in case, the order of a map decides.

Northbound, resources, drivers and settings:

* A failed rebuild leaves a name without adapter until a request for it succeeds or
  the next boot; creating a configuration under an existing name removes that one's
  adapter (`excused` in `RuntimeFollowsDB`).
* A disabled resource is reopened by the next collection. A connection dialled over
  an edit stays until an edit that changes the path. Toggles read and then write.
* A plugin that a start or a reload has bound to another resource, or to none, is
  loaded again by the next collection. If two rows share a file, one is reloaded and
  the other deleted, the file is gone, and the device fails for ever though its plugin
  is there; `Servable` in `DeviceServedInTheEnd` leaves such a device out, and
  `late` in `PluginsSound` a plugin loaded from a row read before its deletion.
* `ensureDriverLoaded` ignores `enabled`; deleting a driver ignores the statement's
  error and removes a file that other rows may share; an upload truncates the file
  in place; of two reloads the older content may stay; with foreign keys on, a delete
  clears `devices.driver_id` for good.
* A refused runtime request leaves its earlier settings in the record, where the
  next accepted one applies them unaudited; overlapping ones may leave the ticker
  with the older interval. `UpdateGatewayConfig` blanks the two keys.
* Every create, update, toggle or reload of a northbound configuration makes a new
  adapter with `defaultReconnectInterval` (`mqtt.go:87`, `routes_api_deps.go:83`), and
  nothing gives it the record's value until the next runtime request is accepted
  (`anew` in `SettingsFollow`). At the start only adapters of type mqtt are given it
  (`northbound_runtime.go:27`); pandax caps what it is given.
* Product keys: devices sharing a driver that reports none get the first one's; a
  reading under way over a change of driver may fix a foreign key (`crossed`); after
  an upload the collector and PandaX may write different keys in turn.

Start and platform:

* `PRAGMA foreign_keys = ON` reaches one connection of the pool. Over an old
  database with foreign keys on, `DROP TABLE resources` clears `devices.resource_id`
  and `DROP TABLE devices` takes thresholds and alarm logs with it. A database of the
  first migration with a resource of type `network` never comes up, and a crash
  between adding `path` and filling it loses the addresses; `AddressKept` and
  `StartupComesUp` except that schema (`unfilled`). `RowsKept` is about resources and
  devices, not about what refers to them.
* The log writer refuses lines after a failed flush until a rotation, is never
  closed at exit, and a failed rename or opening costs a backup.
* `usage < 0` in `system_stats.go` never holds; a counter that wraps can give 100.
* One line with odd indentation refuses the whole configuration file silently; a
  zero in the file beside an unusable variable brings the default back.

## 8. Not modelled

Left out for good: the user interface, the formatting and parsing of payloads,
topics and log lines, what a WASM plugin computes, SQL beyond the statements named
above, the MQTT library, password hashing and authentication, the services and
handlers that make one store call, and reading the host's files for statistics.
Within the modelled parts: that the statements of one reading may have different
seconds (`CURRENT_TIMESTAMP` is each statement's own), so that a name repeated over a
second's border leaves two rows of history where `CollectBatch` has one; that of a
name given twice `FieldLookup` finds the first point and `CollectBatch` stores the
last, each in its own module; that `data_cache.go:184` throttles the trimming that
`History` does at every write; a device whose resource changes (`Drivers` has one);
the command-poll ticker of the scheduler (the same
loop, without shared state), an executor device without a resource, the same
request id on two platforms, and stores no caller outside the tests uses. The
components list in `PROJECT.json` says this part by part.
