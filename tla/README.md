# System-Monitor-Go in TLA+

System-Monitor-Go is a host agent: it samples CPU, memory, disk, network,
process, container, service and system data, puts one snapshot per interval into
a bounded queue, and sends the queue's content over a WebSocket to a server.
This directory holds TLA+ models of the parts with concurrency, failure or
persistence, TLC configurations that check them on small instances, and TLAPS
proofs of the results that matter most. `PROJECT.json` lists runs, mutants,
source lines, findings, hazards and theorems in machine-readable form. Paths
below are relative to the repository.

    tlc -config SystemClient.cfg SystemClient     # a run
    tlapm SystemClientProofs.tla                  # a proof

## The system

| Component | Source | State | Operations | Concurrency and failure |
|---|---|---|---|---|
| metrics queue | `internal/common/queue.go` | slice, mutex, condition variable, capacity | `Push` (evicts the oldest), `Pop` (blocks), `TryPop`, `Size` | any goroutine; one `Signal` per `Push` |
| master collector | `internal/collectors/collector.go` | map of collectors, queue | `AddCollector`, `CollectAll`, `Start`, `Stop` | one goroutine per collector and round, WaitGroup, partial failure |
| eight collectors | `internal/collectors/*.go` | cache with time stamp, previous counters, flags | background loop, `Collect` | background loop against `Collect` on one cache |
| data sender | `internal/network/client/data_sender.go` | `conn`, `isConnected`, `running`, mutex, two done channels | `Connect`, `Disconnect`, `StartSending`, `StopSending`, `sendLoop`, `sendMetrics`, `receiveMessages` | two goroutines and the owner; flag and `conn` read without the mutex |
| system client, main | `internal/network/client/system_client.go`, `cmd/system-monitor/main.go` | the parts above, the signal channel | `Connect`, `Disconnect`, start-up, shutdown | signals at any time, lost and stalled connections |
| configuration | `internal/config/config.go`, `cmd/system-monitor/main.go` | `config.json`, keys, intervals | `LoadConfigFromPath`, `generateSystemKey`, `saveConfigToPath` | crash inside `os.WriteFile`, failed saves |
| external IP lookup | `internal/utils/network.go` | none | `GetExternalIP`, `isValidIP` | services that fail |
| logger, models, installer | `internal/logger`, `internal/models`, `install.sh` | log file; none; the installed files | | the installer cleans up on failure |

`main` loads the configuration, creates the collectors and their background
loops, and hands a `MasterCollector` and a `DataSender` around one shared queue
to a `SystemClient`. `SystemClient.Connect` starts collection *before* it dials;
from then on the collection loop pushes and `sendLoop` pops. `receiveMessages`
is the only one to notice a lost connection. There is no reconnection.

What correctness means, part by part:

* **queue**: exactly the newest items, in order; no blocked `Pop` left next to an item;
* **master collector**: a pushed snapshot is complete, belongs to its round, and is
  no longer written to; a failing collector does not stop the round;
* **collectors**: an answer is a real sample, static data is not lost, rates are
  true differences, a newer result is not replaced by an older one;
* **sender and client**: snapshots reach the server at most once and in order;
  no nil connection is used; loss is noticed; a stop signal ends the process;
* **configuration**: a host keeps its key across crashes and restarts.

## Modules

Where a goroutine can lose the processor between two accesses to shared state,
the model has two actions; code that holds one lock throughout is one action.
Data is abstracted to what the properties distinguish: a snapshot is its
number, a static part is present or absent, a generated key is a number, a
container's metric is the container.
Definitions introduced by the comment "Mutation" are no part of the models:
each is a wrong version of the definition after it, and the property named with
it in `PROJECT.json` fails when it is put in place.

| Module | Models | State and actions |
|---|---|---|
| `BoundedLog` | abstract specification | a log of which at most `Capacity` entries are readable; append, take the oldest |
| `QueueOps` | slice arithmetic of `Push` | operator `Pushed`, shared by the two modules that have a queue |
| `MetricsQueue` | `queue.go` | `Pop` is split at `cond.Wait`: `PopAtOnce`, `PopWait`, `PopResume`, `PopWaitAgain`; a signalled caller is in `woken` until it has the mutex again |
| `DataSender` | `data_sender.go` | program counters of `sendLoop` and `receiveMessages`, both channels, the mutex, and the state of the link; `Disconnect` is five steps between its lock and unlock |
| `SystemClient` | `main.go`, `system_client.go`, loop of `collector.go`, with `DataSender` | composes main, the collection loop, sender, receiver and network |
| `MasterCollector` | `CollectAll`, loop of `Start` | per collector a goroutine, the WaitGroup, the snapshot's fields (each dated by its round), the errors; when and how a `Collect` returns is left open |
| `CPUCollector` | `cpu.go` | the background sample, `Collect` with its two sampling goroutines, the indexing of `cores` by the sensors' core numbers (`CoresOf`) |
| `NetworkCollector` | `network.go` | the synchronous first collection, the loop and the two kinds of panic it meets, counters that restart, rates modulo `NetWidth` |
| `Collection`, `MCCollection` | `collector.go` with the two above | composes the master collector with a collector whose `Collect` takes several steps and can end the process, and one that always answers |
| `Goroutines` | | the two goroutines of a collector, background loop and `Collect`, and where each is (`pc`) |
| `StaticInfo` | what `system.go` and `memory.go` share | the cache, the flag `staticInfoLoaded`, the local copy of a collection (`info`), the answer, the mishaps that cost the static part |
| `SystemCollector` | `system.go` | background loop and `Collect` through `collectSystemInfo`: read flag and cache, static part, flag, dynamic part, store |
| `MemoryCollector` | `memory.go` | the same with a `sync.Once`; `info` stands for its `metrics` |
| `DiskCollector` | `disk.go` | sample the counters, swap them under the lock, find the partition under its own or its disk's name (`blockDeviceCache`), subtract modulo `Width`, store, answer; a disk whose counters start again |
| `ProcessCollector` | `process.go` | clock, unlocked reads of `prevTime` and `prevCPUTimes`, the two writes of the critical section one at a time, the cache |
| `ContainerCollector` | `container.go` | list, one goroutine per container, the WaitGroup, the channel with its buffer, the goroutine that closes it, the gathering loop, the cache |
| `ServiceCollector` | `service.go` | `getDbusConnection` as check, second read, dial, assignment; the calls on the connection one by one, each answered, refused by systemd or failed; a bus that goes away |
| `ConfigStore`, `MCConfigStore` | `config.go`, `main.go`, `utils/network.go` | the file (absent, torn, good), the process's configuration, start, crash, each save as truncate then write, the IP services in turn, the panic of a ticker |
| `StaticInfoProofs` | | theorems about `MemoryCollector` and `SystemCollector` |
| `SampleProofs` | | theorems about `DiskCollector` and `ProcessCollector` |
| the other `*Proofs` | | theorems about the module they extend |

`SystemClient` takes `CollectAll` as one step per round; `MasterCollector` shows
that a round is what that step says (one complete snapshot, nobody left over),
and `Collection` checks the same with two real collectors in place. `MetricsQueue` shows that the operations `SystemClient` uses on the queue
are atomic and what they promise. Some modelling decisions deserve a word:

* `receiveMessages` reads `ds.conn` twice without synchronisation
  (`data_sender.go:211`, `:217`). That is a data race, so after the nil check the
  model lets the second read see either the old or the new value. In the same way
  the unlocked reads of `process.go:99-157` see the writes of the critical section
  one at a time and in either order.
* A stalled link is a peer that has stopped reading while the socket buffers are
  full. `WriteMessage` has no deadline and blocks; `WriteControl` in `Disconnect`
  has one and does not.
* The D-Bus library shares its newest connection between callers and dials again
  once that one is closed; Docker answers, fails or stays silent. Both are
  external and modelled from their use.
* The busy process of `ProcessCollector` uses exactly one core, so that its CPU time
  is its age and a report of more than one core is an error of the agent.
* History variables only record, no guard reads them: `mishaps` (`StaticInfo`),
  `lastKey`, `tornNow`, `tornSince`, `given`, `panicked` (`ConfigStore`), `prevEra`,
  `era`, `crossed`, `overtaken`, `lapped`, `late`, `answerAt` (`DiskCollector`),
  `overlap` (`ProcessCollector`), `good` (`ContainerCollector`), `refused`, `dropped`
  (`ServiceCollector`), `netReset` (`NetworkCollector`), `netPushed` (`Collection`)
  and `delivered` (`DataSender`).
* `Pop` has no caller in the program today, the sender uses `TryPop`; the queue is
  modelled as the component it is, with both.
* `Crash` in `ConfigStore` is the end of the process, not of the machine: a write that
  has returned stays.

## Runs

Passing:

| Run | States | Properties |
|---|---|---|
| `metrics_queue` | 1,716 | `TypeOK`, `NewestInOrder`, `NoLostWakeup`, `BlockedPopsServed`, `ImplementsBoundedLog` |
| `system_client` | 22,863 | `PanicOnlyInShutdown`, `DeliveredOnceInOrder`, `ShutdownCompletes`, `LossNoticed`, `NoSnapshotStuck` |
| `collection` | 359,848 | `SnapshotComplete`, `RegularHostSurvives`, `WrapNeedsReset`, `RoundsEnd` |
| `system_collector` | 2,037 | `AnswerSampled`, `MissingStaticNeedsMishap`, `StaticLossIsPermanent` |
| `memory_collector` | 595 | `StaticKept`, `AnswerSampled`, `MissingStaticNeedsMishap`, `CollectAnswers` |
| `disk_collector` | 4,304,426 | `WrapNeedsOverlapOrRestart`, `StatsMissingNeedsBadName`, `OlderAnswerNeedsLap` |
| `process_collector` | 3,851,038 | `ProcTypeOK`, `StoredPairConsistent`, `InflationNeedsOverlap` |
| `container_collector` | 445,423 | `NoChannelPanic`, `GatheredExactly`, `CacheNeverOlder`, `EndsUnlessDockerSilent` |
| `service_collector` | 11,385 | `DialsBounded`, `EmptyNeedsRefusalOrDrop`, `EndsUnlessBusSilent` |
| `config_store` | 24,123 | `KeyOnDisk`, `KeylessNeedsTorn`, `PanicNeedsGivenIntervals`, `IdentityStable` |

Where a source comment or log line says something the code does not keep, a run
states it and TLC shows the behaviour that breaks it:

| Run | Claim | What happens |
|---|---|---|
| `clean_shutdown` | `CleanShutdown`: the client "was shut down normally" (`system_client.go:133`) | `sendMetrics` passes the check of `isConnected`, `Disconnect` takes the mutex and sets `conn` to nil, `sendMetrics` gets the mutex and dereferences it: the process panics |
| `system_static` | `StaticLoadedMeansCached`: the flag says the static part "is already loaded" (`system.go:23`) | the flag is set, then `collectDynamicInfo` fails (or the other goroutine copies the empty cache and stores last): host name, OS and kernel stay empty until a restart |

Many of the passing properties delimit a weakness of the code from the other
side: the anomaly exists, and the property says what it takes, so that it cannot
come about in any other way.

* A write blocked on a stalled peer holds the mutex that `Disconnect` needs, so a stop
  signal does not end the process; `ShutdownCompletes` exempts exactly that link.
* A failed load spends the memory collector's Once, and every later answer lacks the
  static part; `MissingStaticNeedsMishap` says that this is the only way to such an
  answer. For the system collector it names the two ways: a sampling that fails before
  the static part is cached, and a collection that looks at the cache between the flag
  and the store. There a lost static part never comes back (`StaticLossIsPermanent`).
* A crash between truncation and write leaves a file that does not parse; the next
  start with `-k` runs under an empty local key. `KeylessNeedsTorn` says that only a
  process that itself found such a file runs without a key (the start after it repairs
  the file), and `IdentityStable` that the key changes between two starts that reach the
  client only if a start after the first of them found one. A file without intervals panics a
  ticker (`PanicNeedsGivenIntervals`: never one the agent wrote itself).
* A disk rate near 2^64 needs the other goroutine's swap between sample and lock, or
  counters that started again between two samples (`WrapNeedsOverlapOrRestart`); an answer older than an earlier one needs a store by a
  goroutine that the other had lapped (`OlderAnswerNeedsLap`), while
  `test/integration/main_test.go:73` speaks of the latest result; missing I/O
  statistics need a failed look into `/sys/block`, which is never repeated
  (`StatsMissingNeedsBadName`).
* A network rate near 2^64 needs a reset of the interface's counter (`WrapNeedsReset`).
  A panic whose value is no error ends the network loop, and its cache stays for ever;
  rounds end all the same (`RoundsEnd`).
* A process is reported with too much CPU only when the two goroutines overlap
  (`InflationNeedsOverlap`). `ProcTypeOK` contains that no duration used as a
  divisor is zero or negative.
* `cores[coreID*2]` is out of range, and the process ends, on hosts whose core numbers
  have gaps; on hosts with one thread per core or two, numbered without gaps, never
  (`RegularHostSurvives`).
* After the bus closes the kept D-Bus connection no collection of services succeeds
  any more (theorem `LossIsPermanentHolds`), since nobody asks the library to dial again
  (`DialsBounded`). Errors of the calls for each unit are ignored;
  `EmptyNeedsRefusalOrDrop` says that empty fields come from a refusal by systemd or from
  a bus that went away during this very collection, and from nothing else.

Three smaller divergences have no run of their own. After a failed load the static
part is not in the cache although `memory.go:160` says so, as told above.
`MasterCollector.Stop`, said to stop collection (`collector.go:142`), only logs, so
`StopCollecting` changes nothing but the place of main. The sample configuration's
`"localKey": "will be auto generationed"` (`README.md:9`) is not empty, so `LoadGood`
keeps it as the host's key; `config_store` includes this file among the first ones.

### Bounds

* `metrics_queue`: 4 callers and capacity 3, so that several callers can be
  parked, woken and robbed by `TryPop` at once; 8 pushes fill the queue more than twice.
* `system_client`: capacity 2 and 4 rounds, so that eviction happens twice while
  the sender holds a popped snapshot. The violation run needs 2 rounds.
* `collection`: the two collectors whose `Collect` is modelled inside, and 2 rounds, so
  that a straggler could reach into the next one; three hosts (one thread per core,
  two, and two with a gap in the core numbers); counters modulo 4 and 1 byte
  (`NetWidth > 2 * MaxBytes` separates true from wrapped differences).
* `disk_collector`: counters modulo 8 and 1 operation of the disk, enough for a
  sample before it and one after it to be exchanged, and for a counter of 1 to start
  again at 0; one partition and its disk stand
  for all.
* `process_collector`: a clock of 3 ticks, so that two collections differ in their
  time, their readings and their stores; the replacement duration is 2 ticks, neither
  the smallest nor the largest difference.
* `container_collector`: 2 containers, so that one can fail while the other sends
  or has been gathered; a clock of 1 tick tells an older collection from a newer one.
* `service_collector`: the library may dial 3 times, one more than `DialsBounded`
  allows; 4 calls are two services.
* `config_store`: 4 starts and 4 keys: a crash, a torn read, a repair and one more;
  5 services as in the code, 7 first files.
* `system_collector`, `memory_collector`: no bound; the two goroutines are all
  there are, since `CollectAll` waits for its `Collect`.

`CHECK_DEADLOCK FALSE` stands where the program really stops: the process ends
(`system_client`, `config_store`, `collection`, `container_collector`) or
nobody has to call the queue (`metrics_queue`).

A type invariant is in every module; runs list one only where it says more than
the shape of the state.

### Fairness

Go runs every runnable goroutine, so each goroutine's steps are weakly fair. A
waiter for a Go mutex that starves is handed the mutex (starvation mode), hence
strong fairness of `LockSender` and `SendLock`; the same is assumed of a write
whenever the peer goes on reading. A ticker goes on ticking. In `Collection` the
local system calls of `Collect` are taken to return, with a result or an error
(`wg.Wait` has no timeout: if a call does not return, nothing ends the round); nothing is
assumed of the background loops. In `ContainerCollector` nothing is assumed of
Docker, and in `ServiceCollector` nothing of an open D-Bus connection, since
neither request carries a deadline; `EndsUnlessDockerSilent` and
`EndsUnlessBusSilent` say that an answer owed for ever is the only thing that keeps
a collection, and with it the round, from ending. Nothing is assumed of the
dial, of signals, of the network, or that a message ever arrives; an error on a
closed or reset connection does end `ReadMessage`. `ShutdownCompletes` and
`NoSnapshotStuck` exempt a link that stays stalled for ever.

## Proofs

All theorems are of the form `Spec => ...` for every value of the constants.
Assumptions, all evaluated by TLC in the runs: `Capacity` is a positive natural;
`Callers`, `Collectors` and `Containers` are finite sets; a counter's width is more
than twice its bound (`Width`, `NetWidth`); in `Collection` the collectors are the two
modelled there (used by the theorems about the composition only, not by
`SnapshotCompleteHolds` and `NoStragglerHolds`, which hold of every finite set); the
hosts, keys and files of `CPUCollector` and
`ConfigStore` are of the kind the code tells apart; the bounds are naturals (that of
`ProcessCollector`'s clock positive, since the time since the zero `time.Time` is).

Two modules hold the proofs of two collectors each. In `StaticInfoProofs`, `Spec` is
that of `MemoryCollector` and `Sys!Spec` that of `SystemCollector`; in `SampleProofs`,
`Spec` is that of `DiskCollector` and `ProcSpec` that of `ProcessCollector`.

* `MetricsQueueProofs`: lemmas on what `Pushed` and `Tail` do to length and elements;
  `TypeCorrect`; `NewestInOrderHolds` (inductive with the
  types); `NoLostWakeupHolds`, by the cardinality of `woken`: a push adds an item
  and moves a caller from `waiting` to `woken`, a theft only shortens the queue, and
  a caller returns to `waiting` only when the queue is empty;
  `QueueImplementsBoundedLog`, with `gone` mapped to `pushed - Len(items)`, which
  rests on `NewestInOrder`.
* `SystemClientProofs`: `TypeCorrect`; `ControlHolds`, the inductive invariant that
  ties the mutex to the program counters and says up to where `conn` is set; it is
  needed because `FlagGuardsConn` and `PanicOnlyInShutdown` say nothing about who
  holds the mutex. They follow. `SnapshotOrderHolds` is inductive with the types;
  `DeliveredOnceInOrderHolds` is an action property drawn from it.
* `CollectionProofs`: of the abstract round, `WaitGroupExact` (the counter equals the
  number of goroutines still at work; fields and errors are untouched until theirs
  ends) makes `SnapshotComplete` inductive; `NoStraggler` follows, and the lemma
  `ActiveCount` holds the cardinality argument. The composed agent takes
  `MasterCollector`'s own steps (lemma `CollectionSteps`, which says little in itself), so
  `SnapshotComplete` carries over (`CollectionSnapshotComplete`). For
  `RegularHostSurvives` the work is arithmetic: on a regular host every index is
  below the number of values (`RegularInRange`). For `WrapNeedsReset` the invariant
  remembers, of the sample that was kept and of the one that was pushed, whether the
  counter has gone down in between; `TrueDifference` says that otherwise the
  subtraction modulo `NetWidth` is the true one.
* `StaticInfoProofs`: for the memory collector `OnceProtocol` with the types,
  `AnswerSampled` and `MissingStaticNeedsMishap` is inductive; `StaticKept` follows. For
  the system collector `AnswerSampled` needs that a valid cache, and whatever is about
  to be stored, has been sampled; `MissingStaticNeedsMishap` needs `Unharmed`, which
  follows the static part from its collection through the flag to the cache as long as
  there was no mishap; `StaticLossIsPermanent` needs the types only.
* `SampleProofs`: a disk rate is bounded if the sample it is compared with is no
  newer and of the same counters; that is so from `disk.IOCounters` on (`Ordered`) until
  the other goroutine swaps, and a sample taken since the last restart never exceeds the
  kernel's counters (`CountsBounded`). `Dated` orders
  the dates of samples, cache and answers: only a goroutine that was lapped holds a
  sample older than the cache or the newest answer, which yields `OlderAnswerNeedsLap`.
  For the process collector, `Pair` and `HalfWritten` follow the two fields through the
  critical section, and `Undisturbed` says what a goroutine whose reads met none knows:
  its duration is the time since the stored time, and the CPU time since then is no
  more than that and its own lag.
* `ContainerCollectorProofs`: `FanIn` relates the WaitGroup to the goroutines, the
  closing of the channel to the WaitGroup, and every built metric to its place
  (goroutine, channel, result); `NoChannelPanic` and `GatheredExactly` say
  nothing of the counter and follow from it only. `SendNeverBlocks`, stated there,
  says that the buffer always has room for a goroutine that sends. `CacheNeverOlder` needs
  `CacheOrder`: the background loop never works on a list older than the cache.
* `ServiceCollectorProofs`: `DialsBounded` says nothing about who may still dial, so
  it is strengthened to `DialsCounted`: while `c.conn` is nil every connection dialled
  is about to be assigned, afterwards only goroutines already past the check can
  add one. `OpenUnlessDropped` does the same for `EmptyNeedsRefusalOrDrop`. `LossIsPermanent` is an
  action property that needs the types only.
* `ConfigStoreProofs`: `KeyKept` says that from the return of `LoadConfigFromPath` on
  the file holds the local key of the process or does not parse. It has to look
  further back, to the save of a generated key, which is never the empty one: without
  that a first start could end in an agent without a key and without a torn file.
  `IdentityKept` and `IntervalsKept` do the same for the last key reported and the
  intervals.

Only model-checked: the liveness properties (`BlockedPopsServed`, `ShutdownCompletes`,
`LossNoticed`, `NoSnapshotStuck`, `RoundsEnd`, `CollectAnswers`,
`EndsUnlessDockerSilent`, `EndsUnlessBusSilent`), since fairness is outside the
prover's reach. Every other property of a passing run is a theorem.

## Not modelled

* Text and unit conversion without shared state: parsing of `/proc`, `lscpu` and
  `dmidecode` output, the choice of the package temperature, partition filtering and
  `getDiskInfo`, the `calculate*` and `convert*` functions that turn one Docker answer
  into one metric, the names of units, JSON encoding.
* The reads `info[0]` and `percent[0]` of `cpu.go`: whether gopsutil can answer with an
  empty slice and no error is not in the repository.
* The range of the numbers in an address: `isValidIP` asks for four parts of one to
  three digits, so that 999.999.999.999 passes, is stored, and is never asked for again.
  `ServiceAnswers` tells apart only whether a text passes.
* Loss of power: `os.WriteFile` (`main.go:104`) does not sync, so that the file could be
  empty or old after one; the model ends processes, not machines.
* `LoadConfig` and `SaveConfig` (`config.go:164-245`): no caller in the program.
* The logger writes lines nobody reads back; `internal/models` has no behaviour.
* `install.sh`: a shell script around systemctl, the package manager and wget, whose
  behaviour is not in the repository. It meets the agent in `config.json` only.
* Real time: a cache is fresh or not, a tick can come at any moment; where the order
  of moments matters (process, container) there is a clock.

## Plan

1. *(done)* Queue, sender, client, master collector; their proofs.
2. *(done)* Collectors, each against its own background loop; CPU and network
   composed with the collection loop; configuration store and IP lookup.
3. *(done)* Proofs of every invariant and action property of the passing runs.
4. Proofs of what the liveness properties rest on: in every state a caller, a
   collection or a round that waits has somebody who will move, as `NoLostWakeup` and
   `SendNeverBlocks` say for the queue and the fan-in.
