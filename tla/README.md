# Deployment rollout monitor: TLA+ models

This directory holds a TLA+ description of the monitor in `src/`: a Go program
that watches the Deployments of many clusters, detects rollouts by the hash of
the pod template, coalesces them, and notifies, records or investigates them.
The modules are translated from the Go code; documents and comments are only
quoted where the code is compared with them. `PROJECT.json` lists the runs, the
source lines of every definition, the hazards and the theorems.

## 1. The system

Two binaries. `cmd/monitor` holds everything in one process (combined mode), or
only writes `RolloutRecord` objects (split mode), which replicas of
`cmd/dispatcher` then claim and dispatch.

```
 kubeconfig dir --> Manager --starts/stops--> ClusterWatcher (one per cluster)
 watchlist API --^                                | onUpdate: new hash?
                                                  v
                            Debouncer: newest event per deployment, after 30 s
                                                  | non-blocking send
                                                  v
                                       event channel (QUEUE_MAX_SIZE)
                           combined |                       | split
                                    v                       v
                    Dispatcher workers -> targets     recorder goroutine
                    (log, Slack, audit,               -> RolloutRecord objects
                     investigation, diagnostic)       -> RecordWatcher replicas
                                                      -> targets; TTLCleaner
```

| component | state | operations | what makes it correct |
|---|---|---|---|
| **Debouncer** (`watcher/debouncer.go`) | `pending`, `timers`, the timers of the runtime, emit goroutines | `Submit`, timer expiry, `emit`, `Stop` | the newest event of a burst always gets out, once; while it waits, everything taken before is older; nothing disappears but by Stop or a full channel |
| **Event pipeline** (`cmd/monitor/main.go`, `dispatch/dispatcher.go`) | stage of `main`, channel open/closed, running informers, events in workers' hands | informer handlers, starts and stops of informers, worker loop, shutdown sequence | shutdown ends; it drains the channel and the workers; after `Manager.Stop` no handler of a watcher it holds runs; nobody sends on the closed channel |
| **Manager** (`watcher/manager.go`, `config/kubeconfig.go`) | `watchers`, `fileHashes`, `pendingRetry` | `Start`, reconcile (ensure watchlist, rescan, health, retry), `Stop` | the watchers become those of the directory; no cluster drops out of all three maps; no informer outside them |
| **RecordWatcher**, **TTLCleaner** (`dispatch/record_watcher.go`, `ttl_cleaner.go`) | phase and resourceVersion of records, stale caches | claim by compare-and-swap, dispatch, outcome, recovery scan, expiry | one dispatch per claim, one claim per reset; a terminal phase is true and stays; a record that can be claimed is settled |
| **AuditRecorder** (`persistence/audit_recorder.go`) | none | create record, set its status | a recorded rollout can be claimed |
| **ClusterWatcher** (`watcher/informer.go`) | `templateCache`, error counters, informer | `Seed`, `onAdd`, `onUpdate`, `onDelete`, `Start`, `Stop`, `HealthStatus` | each informer reports every change of a template once, and no other update |
| **HashStore** (`persistence/hash_store.go`) | buffer, persisted hashes | `Update`, `Delete`, flush every 5 s, final flush | what is persisted catches up with the cache, whatever flush fails |
| **Orchestrator** (`investigation/orchestrator.go`) | `active` map, semaphore, status cache | `Investigate`, clean-up, `Stop` | at most N goroutines, no slot leaks; the newest is never cancelled for an older one; Stop leaves nothing behind |
| **Async diagnostic target** (`diagnostic/target.go`) | semaphore, goroutines | `Dispatch`, `Stop` | the same, without the map |
| **Watchlist store and API** (`watchlist/store.go`, `handler.go`) | apps and index in memory, `AppWatchConfig` objects, trigger channel | `PUT`, `DELETE`, `LoadAll`, `DesiredClusters` | a place has one owner; memory and objects agree; the manager learns of every change |
| **RolloutAnalyzer** (`diagnostic/analyzer.go`) | `progressState`, timer of waiting containers, restart snapshot | poll, soak, diagnostics, `Stop` | the verdict follows from what was observed |
| **ConfigWatcher, NamespaceFilter** (`watcher/config_watcher.go`, `namespace_filter.go`) | allow and deny sets | `Update`, `Allowed` | no rollout is missed but by the filter |
| **Configuration, notification targets, Slack reporter, CRD types** | - | parsing, HTTP, formatting | sequential; see section 7 |

How they meet: informer handlers call `Debouncer.Submit`; timers call `emit`,
which sends to the channel `main` created; the dispatcher's workers read it;
`main` stops all of them in one fixed order. The manager starts and stops
watchers under its mutex, and is woken by the watchlist API. The watchers'
handlers write to the hash store's buffer, which one goroutine flushes. The
workers hand an event to the orchestrator or to the diagnostic target, whichever
is configured, and go on; the goroutine started there runs the investigation or
the analyzer. In split mode the replicas share nothing but the API
server, and what they know of it may be old.

What is hard: emit goroutines of one key that overlap because `Reset` re-arms a
timer that has fired; the gap between `emit`'s unlock and its send; closing a
channel while goroutines are still on their way to it; informers that a failed
start leaves behind, and a reconcile loop that outlives `Manager.Stop`; a
reconcile loop whose four phases read and change three maps that must stay
consistent through failed starts, unreadable directories and edits between two
phases; replicas that act on stale notifications, die between claim and outcome
or lose a reply, while a recovery scan takes their work away; flushes that fail
or lose their reply while newer hashes come in; a map entry deleted by a
goroutine it no longer belongs to; a check under one lock and the update under
another; verdicts that depend on what earlier polls left in five variables.
`PROJECT.json` has the list, at its lines.

## 2. Modules

| module | models | role |
|---|---|---|
| `Coalescer` | what `debouncer.go` promises, without timers or goroutines | abstract specification |
| `Debouncer` | `Submit`, Go timers, `emit` in two steps, `Stop`, a consumer | detailed; refines `Coalescer` |
| `DebouncerProofs` | - | theorems about `Debouncer` |
| `Notifier` | what the process promises from a rollout to its notification, without timers, goroutines or an order of shutdown | abstract specification |
| `EventPipeline` | handlers, channel, workers or recorder, `main`'s shutdown | extends `Debouncer`: all its variables are state here too; refines `Notifier` |
| `EventPipelineProofs` | - | theorems about `EventPipeline` |
| `WatcherManager` | `Manager.Start`, `reconcile`, `Stop` and their environment | detailed |
| `WatcherManagerProofs` | - | theorems about `WatcherManager` |
| `RecordLifecycle` | the phases of a record as any client sees them | abstract specification |
| `RecordDispatch` | recorder, replicas, recovery, cleaner, API server | detailed; refines `RecordLifecycle` |
| `RecordDispatchProofs` | - | theorems about `RecordDispatch` |
| `WriteBehind` | what `hash_store.go` promises: one bit per deployment and the last hash | abstract specification |
| `HashStore` | buffer, flush, API server and crash of `hash_store.go` | a part of `ClusterWatcher`; refines `WriteBehind` |
| `ClusterWatcher` | handlers, cache, seeding, filter, life of a watcher | extends `HashStore`: the handlers fill its buffer |
| `ClusterWatcherProofs` | - | theorems about both |
| `JobPool` | what a target that works in the background promises its callers | abstract specification |
| `AsyncTargets` | workers' calls, goroutines, `Stop` of orchestrator and diagnostic target | detailed; refines `JobPool` |
| `AsyncTargetsProofs` | - | theorems about `AsyncTargets` |
| `Ownership` | what the watchlist promises the owners of places | abstract specification |
| `Watchlist` | requests, objects, memory, trigger, restart | detailed; refines `Ownership` |
| `WatchlistProofs` | - | theorems about `Watchlist` |
| `RolloutAnalyzer` | the runbook of one rollout | the loop beside a definition of the verdict over its history |
| `RolloutAnalyzerProofs` | - | theorems about `RolloutAnalyzer` |
| `MC...` | - | constants and symmetry for TLC |

Definitions whose comment begins "Mutant of" are deliberately wrong versions of
the definition that follows them. No specification uses them; put in its place,
each makes a property of the runs fail, which shows that the property can see
that class of mistake.

### 2.1 Debouncer

One action per critical section of `d.mu`. `Submit` replaces the pending event
and either resets the timer in `d.timers` (`ResetTimer`, also when it has
fired) or creates one (`StartTimer`). A timer counts down with `Tick`; once at
zero it may `Fire` at any later time, which only *spawns* a goroutine: the
runtime neither runs it at once nor in the order of the expiries. `EmitTake` is
what `emit` does under the lock, `EmitSend` the non-blocking send after it. An
event is its key and its number in the order of submission, so that "newest"
and "once" can be said. `Receive` is the consumer of the channel. A timer
object is an element of `Timers`; one that is neither armed nor referred to can
be handed out again, as after a garbage collection. `Timers` is a bound on the
timers alive at once: with none free, `StartTimer` waits.

### 2.2 EventPipeline

An informer is one attempt to start a `ClusterWatcher`. `LoopStart` launches it,
at any time until the context is cancelled, by whoever holds `Manager.mu` (`lock`):
`Manager.Start` or the reconcile loop (`LoopLock` ... `LoopUnlock`), also after
`Manager.Stop` has returned. `LoopStarted` is the end of the start: `m.watchers`
holds it, in the place of one of the same cluster, or the start failed; what
nobody holds, either way, is an `orphan` and runs on. `StopsWatcher` is the cancel
of one informer and `WatcherDown` its `factory.Shutdown` returning, which waits
for the handler in flight; the loop (`LoopStop`) and `main` (`StopWatcher`) do
both under the mutex. Which clusters the loop starts and stops, and why, is
`WatcherManager`'s matter: here it may start and stop any.

`HandlerStart`/`HandlerSubmit` are the goroutine of an informer before and at its
call of `Submit`; one informer's notifications come one at a time, those of two
informers of one cluster side by side. `SendOpen` is `emit`'s send; `SendClosed` is
the same send on a closed channel, which panics in Go even in a `select` with a
default. `Signal`, `StopDebouncer`, `LockManager`, `StopWatcher`, `UnlockManager`,
`CloseChannel`, `WaitWorkers`, `CancelContext` and `Exit` are the statements of
`main` from `<-sigCh` on, in their order. In split mode there is no wait, and
`WorkerFinish` may find that the record could not be written: the error is logged
and the event is gone (`lost`). In combined mode targets may fail, which does not
change the flow. `late` is a history of the informers started after `Manager.Stop`.

`Notifier` is the same seen by whoever waits for notifications: a deployment has
one event that waits, which is replaced by a newer one; it is released once, then
accepted or dropped, then notified. The service is serving, stopping (what waits
is forgotten), closing (nothing is accepted) and over (nothing accepted is left);
submissions may come in all of these phases, and what they release after the close
goes nowhere. An event is dropped only with `Capacity` events ahead of it; in split
mode (`Recording`) an accepted event may also fail to be recorded, at any time.
`ServicePhase` derives the phase from `main`'s progress, the channel and the
workers; what is accepted is the channel and what is in hand (`InHand`).

### 2.3 WatcherManager

The reconcile goroutine is a program counter (`pc`) over the phases and a set
`todo` of the clusters a phase has still to look at; Go iterates over its maps
in any order, so any element of `todo` may be next. A kubeconfig file is a
version number, which stands for its content, its hash and the config made from
it. A file that does not parse is one the snapshot does not have, so for the
model it is absent. Failing starts come in the two ways the code has: before the
informer was started, and after (the cache does not sync in time), where the
informer is left running. `orphans` counts informers `m.watchers` does not hold;
they are the model's own variable, the code cannot see them. The environment
edits files, makes the directory unreadable, makes informers sick and ends
backoffs; between phases the mutex is free and `Stop` may come in. Phase 3 reads
the clock once, so no backoff ends while it runs. `DesiredClusters` of the
watchlist is a constant.

Five history variables say where the code is allowed less than its documents
promise (section 5), so that the properties can speak of everything else:
`removed` (clusters whose file was removed), `rolledBack` (whose file was removed or
got an older content), `raced` (whose file changed while
`Start` ran), `failed` (of which a start failed), `blind` (`Start` could not read
the directory for its snapshot). No action reads them.

### 2.4 RecordDispatch

A record is the sequence of phases it went through: its length is the
resourceVersion, and `UpdateStatus` is accepted only with the current one. A
replica's informer delivers versions in order but as late as it likes, may skip
some and repeats the last one (resync): `Notify` may deliver any version not
older than the last. `handleRecord` is the stages claim, dispatch, get, put of
one handler goroutine per replica. `ClaimAccepted` covers both a reply that
arrives and one that is lost. `RecoverList`/`RecoverReset` and
`CleanList`/`CleanDelete` are separate steps, so everything may happen between
a list and the writes based on it. `Crash` may happen anywhere. Time is two
saturating counters per record: `age`, since creation, which the code uses, and
`held`, since the last claim, which only the property about stuck records uses.
`CreateKeepsStatus` says whether the API server keeps `.status` of a create
request; with the status subresource of `deploy/crds.yaml` it does not.

### 2.5 HashStore and ClusterWatcher

`Buffer` is `BufferHash` and `RemoveHash`. A flush is `Drain` under the mutex,
then per cluster `UpsertApplies` (the write takes effect) and `UpsertReturns`, or
`UpsertFails`: before the write or after it, when the reply is lost; `Requeue`
puts the batch back where the buffer has nothing newer. `FinalFlush` is the flush
after `ctx.Done`. `ClusterWatcher` has one action per handler (`OnAdd`,
`OnUpdate` up to its `Submit`, `Submit`, `OnDelete`, `Filtered`), each for one
watcher with an informer, a cache and a handler of its own. An informer delivers
the states of a deployment as late as it likes and may skip some, as a relist
does: a sequence of any hashes is what an informer sees of some history, so
`Deliver` takes any hash, and two informers of one cluster may see different
sequences of one history. `Create` makes a watcher and seeds its cache, or fails
to; `StartWatcher` puts it into `m.watchers`, where it may displace another of its
cluster (`Displaced`), which then runs on as an `orphan`; `StartFails` leaves an
orphan at once. A watcher started after `Manager.Stop` is `late`. `Recycle`,
`StopWatcher`, `Signal`, `ManagerStopped`, `Cancel` and `Crash` are the ends of a
watcher's life: `Manager.Stop` ends those in `m.watchers`, the cancelled context
all others, at some later time. `ApplyConfig` is the config watcher replacing the
filter. Hashes are model values: what matters is whether two are equal. `told` is
what a receiver of one informer's events believes a deployment runs. `stray` is a
history of the deployments whose hash a late watcher or an orphan buffered after
the cancel. The store's objects are per cluster ID; that two IDs may have the same
sanitized name is left out (section 7).

`WriteBehind` has no buffer of values: a deployment is dirty or not, a flush looks
up the last hash when it begins, and only what is stored is dropped. That the
buffer of the code, into which failed writes return, amounts to this is the
refinement. `Dirty` are the deployments with something in the buffer.

### 2.6 AsyncTargets

A call goes through `Supersede` (first critical section of `Investigate`),
`Check`, `Acquire` or `Drop` (the semaphore), and `Start` (second critical
section), in any interleaving with the calls of the other workers. A goroutine
is `Reports` or `InvestigateFails`, `PostReport`, `UpdateStatus`, `CleanUp` and
`Release`, the deferred functions in the order Go runs them. `reporter` says how
reports are posted: by HTTP, whose client refuses a cancelled context
(`webhook`), or without anybody asking the context (`direct`:
`SLACK_WEBHOOK_URL=TEST`, or no reporter at all), and then a report that comes
after the cancellation is shown. The diagnostic target is the same semaphore
without the map; `mode` says which of the two is configured, as the
configuration admits only one of them. `Check`'s other branch (shutting down) is
never taken, because `main` calls `Stop` with all workers gone.

`JobPool` is what a caller sees: an event asks, is admitted or, if `Slots` jobs
hold the pool, refused; a later call of the deployment may revoke a job that
holds the pool; in a guarded pool (`guarded`, with a webhook) a job reports only
while it is not revoked and the pool is open; the pool is closed when no job
holds it. It has no semaphore and no map: `Job` derives how far an event is from
the caller's step and the goroutine's stage. It does not say that one deployment
has one job, or that a revoked job is replaced: the code does not promise it (21
and 22 of section 5).

### 2.7 Watchlist

A request is a record with its stage. `CheckConflicts` is under the read lock,
`GetCrd` and `UpsertCrd` are the calls to the API server, `Store` and `Remove`
are under the write lock, `Trigger` is the non-blocking send to the manager.
Writes may lose their reply; the handler then answers 500 and leaves the memory
alone. An update carries the version it read and is refused when that is old.
`Restart` is `LoadAll`: apps come back under the names of their objects, which
`sanitizeName` has shortened, so two apps may share one. `Wake` and `Ensure` are
the manager's side. A spec is the set of places, cluster and namespace, it
lists. `contested` and `unsure` are histories that say where requests
overlapped; the properties speak about the rest.

`Ownership` forgets objects, index updates and the manager: a request claims places
that are free or its own, and settles or withdraws its claim, each in one step.
What it settles is owned; nobody loses a place but to an app that claimed it side by
side (`contested`), or by a restart. `ClaimOf` says that a claim is held from the
check under the read lock to the update under the write lock.

### 2.8 RolloutAnalyzer

`Poll` is one turn of `monitorRollout`, at any interval from the last one; it
sees an error, a deleted, lagging or paused deployment, or a status with
replica counts and the signals of `checkFailureConditions`. The variables are
those of `progressState` and the loop. `SoakEnds`, `Cancel` and
`GatherDiagnostics` are the rest of `Analyze`. Beside this, `Justified` says what
a poll justifies in terms of the history of polls alone (`MoveTimes`,
`WaitsSince`, `HasStalled`); that the two agree is the property.

## 3. Runs

Twelve, one question each. The properties are stated in words above each
definition in the modules.

| run | cfg | question and result |
|---|---|---|
| `debouncer` | `MCDebouncer` | 75 000 states. No lost wakeup, no stale or double emission, nothing vanishes, every burst is emitted, refines `Coalescer`: holds. |
| `pipeline` | `MCEventPipeline` | 111 000 states. Combined mode, with starts of watchers that fail or come after `Manager.Stop`: shutdown ends, drains the channel and the workers, after `Manager.Stop` only handlers of informers out of its reach run, refines `Notifier`: holds. |
| `pipeline_panic` | `MCEventPipelinePanic` | Does anything send on the closed channel? **Yes.** |
| `records_safety` | `MCRecordDispatch` | 338 000 states. Two replicas, crashes, lost replies, recovery, cleaner: claims and dispatches bounded by resets, outcomes true and final, only terminal records deleted, refines `RecordLifecycle`: holds. |
| `records_undispatched` | `MCRecordDispatchSubresource` | With the status subresource the repository's CRDs declare: does every record reach a dispatcher? **No.** |
| `manager_faults` | `MCWatcherManager` | 599 000 states. Failing starts, unreadable directory, sick informers, a watchlist cluster, one edit at any moment: nothing forgotten, no orphan but by a failed start of the cluster itself, a skipped file is watched as it is, watchers converge to the directory: holds. |
| `manager_edits` | `MCWatcherManagerEdits` | 175 000 states. Four edits of any kind at any moment, removals and roll-backs, no failures: the watchers converge: holds. |
| `cluster_hashes` | `MCClusterWatcher` | 345 000 states. A deployment changes, the filter changes, writes fail or lose replies, a second informer of the cluster runs beside the first, a watcher is recycled or the process dies: no informer misses a rollout or tells one twice, the newest hash survives and is persisted in the end, a clean stop persists all but what watchers out of its reach report, refines `WriteBehind`: holds. |
| `gap_detection` | `MCClusterWatcherGap` | Is a rollout that happened while nobody watched reported, as the documentation says? **No.** |
| `async_targets` | `MCAsyncTargets` | 183 000 states. Three workers and one deployment, two slots, each target and kind of reporter: slots balance, the newest survives, Stop leaves nothing, everything ends, refines `JobPool`: holds. |
| `watchlist` | `MCWatchlist` | 1 268 000 states. Overlapping requests, shared object names, a lost reply, a restart: the index is right, objects agree with memory, no trigger is lost, refines `Ownership`: holds. |
| `analyzer` | `MCRolloutAnalyzer` | 483 000 states. Is the verdict the first that the polls justify? Holds. |

Six more configurations reproduce disagreements of section 5; TLC finds a
counterexample in each: `MCEventPipelineHandlers` and `MCEventPipelineSplitLoss`
(with `MCEventPipeline`), `MCRecordDispatchStuck` (with `MCRecordDispatch`),
`MCWatcherManagerForgotten` and `MCWatcherManagerOrphan` (with `MCWatcherManager`)
and `MCAsyncTargetsSuperseded` (with `MCAsyncTargets`), for instance
`tlc -config MCWatcherManagerOrphan.cfg MCWatcherManager`. Three more pass:

- `MCEventPipelineSplit`: split mode, for `NotifierSpec` and `StopHushes`
  (118 000 states).
- `MCRecordDispatchLive`: an API server that keeps the status of a create, for
  `DetectedIsSettled`: a record that shows `Detected` reaches a terminal phase, or
  recovery used up its bound (2 900 states). Whether a record ever shows it is
  the question of `records_undispatched`.
- `MCWatcherManagerRemovals`: removals, roll-backs, failures and a sick informer
  together, which neither run of the manager has, for `TypeOK`, `NotForgotten`,
  `NoOrphans` and `SkipsAreRight` (1 381 000 states).

### Bounds and why they are enough

- `debouncer`: two keys show that keys do not disturb each other through shared
  timers; three timers are one more than two submissions per key can have
  alive at once, so that `StartTimer` never waits for a free one; two submissions
  give "newest" a meaning and leave an armed timer without an entry, but do not
  reach one beside a key's own (the proof of `WakeupNeverLost`, which has no
  bound, covers it); a channel of
  one is full as often as possible. A window of one tick makes "armed, not yet
  due" a state of its own.
- `pipeline`: one cluster with two attempts to start a watcher, so that one can
  fail or be displaced and run beside the other, and one can come before and one
  after `Manager.Stop`; two workers, so that one can be idle and exit while the
  other works; two submissions, so that one event can be in hand or in the
  channel while the other is in the debouncer or with a handler. One key with two
  timers suffices, since keys do not interact beyond what `debouncer` covers.
- `records_safety`: one record (records do not interact: every write and every
  guard names one record) and two replicas, the least that race. One reset
  gives two claims, and the abandoned claimant can write after the new one.
  `StuckTimeout` 1 and `TTL` 2 distinguish young, stuck and expired.
- `records_undispatched`: the counterexample needs one record. In
  `MCRecordDispatchLive` one replica is the hard case, as a second one only adds
  chances; two resets let a crash after a reset be recovered again.
- `manager_faults`: two clusters, one on the watchlist and one not; two faults
  let a start fail twice, or a start and a read. `manager_edits`: four edits
  remove, restore and change a file. `MayRemove` and `MayRevert` are named
  restrictions of the environment that only `Converges` needs, together with
  failures: a passing run with one of them FALSE claims nothing about what it
  excludes; section 5 says what happens there.
- `cluster_hashes`: one deployment, since the handlers, the cache and the flush
  treat each by itself and the flush of one cluster waits for no other; two
  hashes and three changes go away, come back, delete and re-create, all seen by
  one informer or shared between two. Two watchers of one cluster let one be left
  behind by a failed or a second start while the other runs, is stopped or starts
  after `Manager.Stop`. Two edits of
  the filter and one restart, which is a recycled watcher, a failed or displacing
  start or a crash, at any moment.
- `async_targets`: three calls of one deployment at once is the least in which
  one is cancelled, one overwritten and one registered; two slots are full while
  the third asks. Deployments share only the semaphore, which one key fills as
  well.
- `watchlist`: two requests overlap, three in all let a third repair or worsen
  what two did; of three apps two share an object name; two places on two
  clusters let an app give up one and keep the other. The requests are
  symmetric, and so are the places, each with its cluster.
- `analyzer`: four intervals until the absolute timeout, windows of two, polls
  one or two intervals apart: each timeout can be met, missed by one, and met
  together with another. One replica gives all comparisons of counts: forward,
  backward, equal, converged. The signals come alone and in the combinations
  where their order matters (`MCSignalSets`).

`CHECK_DEADLOCK FALSE` stands where the program ends or the bounds let nothing
happen any more: after `main` returned (pipeline, watcher), after the context was
cancelled (manager), after `Stop` (async targets), after the report (analyzer),
with all requests used up (watchlist).

### Fairness

- Debouncer and pipeline: weak fairness of time, timers, emit goroutines,
  handlers, workers and `main`: the Go scheduler runs every runnable goroutine,
  and targets return because their HTTP clients have timeouts. Whoever holds
  `Manager.mu` gives it back (weak fairness: a start has a timeout), and `main`
  gets it although the reconcile loop takes it again and again (strong fairness:
  Go's mutex hands over to a waiter that has waited for 1 ms). Starts of watchers,
  submissions, `Stop` and the signal are never forced.
- Records (`MCRecordDispatchLive`, `records_undispatched`): the informer
  delivers the newest version again and again (30 s resync), the scan runs every
  minute, so strong fairness of a fresh notification, an accepted claim and an
  accepted outcome: they cannot fail for ever. Crashes are not fair, but they
  are not bounded either; strong fairness is what says that they do not always
  come first.
- Manager: weak fairness of the loop (a ticker wakes it) and of the end of an
  unreadable period, strong fairness of the end of a backoff (it is a moment in
  time, and does not fall into phase 3 for ever) and of a rescan
  (`rescanInterval > 0` and the directory readable again and again).
  `MaxFaults` says that a start that is retried for ever succeeds in the end.
- Hash store: weak fairness of the flush goroutine (a ticker), strong fairness of
  a write taking effect: the API server may fail any number of writes, not all
  of them.
- Async targets: weak fairness of calls, goroutines and the return of `Stop`:
  investigators return because their HTTP clients have timeouts, the analyzer
  because of its deadline. New events and `Stop` are never forced.
- Watchlist and analyzer: safety only. No request has to end in success, and the
  analyzer's end is its deadline, a guard of `Poll`.

## 4. Proofs

TLAPS checks these for every value of the constants that the named assumptions
admit.

`DebouncerProofs`, from `DebouncerAssumption` (`NoTimer` is no timer, positive
window and capacity):

- `TypeCorrect`: the type invariant.
- `WakeupNeverLost`: `PendingWillBeEmitted`. The invariant is not inductive
  alone: the proof needs that two keys never share a timer object and that
  every armed timer's closure names the key it was started for, even after
  that key's entry was deleted and re-created (`Wakeup`).
- `NewestOnly`, `NoDuplicates`, `NothingLost`: `NewestWaits`, `EmittedOnce`,
  `NewestNeverLost`. They rest on one invariant, `Order`: every event beyond
  the pending map has a number of at most `submitted`, less than it when an
  event waits, and the places an event can be in are disjoint.
- `ImplementsCoalescer`: initial states map to initial states, each action maps
  to a Coalescer step or a stutter; `EmitTake` is the release, `EmitSend` and
  the timers are stutters.

`EventPipelineProofs`, from `PipelineAssumption` (workers are finitely many and
at least one, every deployment and informer has a cluster; the markers `NoKey`,
`Idle`, `Exited` are no keys or events):

- `RunsADebouncer`: a step of the pipeline is a step of `Debouncer` or leaves
  its variables alone, so all the theorems above hold in the pipeline, through
  the whole shutdown.
- `PipelineTypeCorrect`: the type invariant.
- `ImplementsNotifier`: `NotifierSpec`, in both modes. It rests on the
  debouncer's `Wakeup` and `Order` and on the invariants `Hushed`, `Delivery` and
  `Emptied`: an event a worker takes is in no other hand and was neither notified
  nor lost, and when the last worker is gone the channel is empty. The send on the
  closed channel is a stutter: that event is released and never accepted.
- `StopIsQuiet`: `StopHushes`, in both modes. Needs `Hushed`: an informer that is
  down has no handler, and once `Manager.Stop` has returned every informer is not
  started, an orphan, down, or of those started afterwards.
- `ShutdownDrains`: `Drained`, assuming `~Split`; `MCEventPipelineSplitLoss` shows
  that it fails otherwise. Needs `Delivery` (what was received is what was
  dispatched, lost, or is in one hand; that a worker receives nothing it or
  another has had is `EmittedOnce` of the debouncer) and `Emptied` (a worker that
  returned has seen the channel closed and empty, and it stays empty, since a
  send on it panics).

`RecordDispatchProofs`, from `RecordAssumption` (finitely many replicas,
`TTL >= StuckTimeout > 0`):

- `TypeCorrect`: the type invariant.
- `TerminalIsFinal`, `DeletedOnlyTerminal`: `TerminalStays`,
  `DeletedWasTerminal`. They need `Stale`: the version a handler or a scan holds
  is a version the record had, in the phase it was seen in. As a history only
  grows, an accepted write must then have met the newest version, which is why
  staleness does no harm. `Swept` says the same of the cleaner's list.
- `ClaimsAreExclusive`: `ClaimsBounded`. Needs `Accounts`: while a record can be
  claimed, all claims so far were taken back by resets.
- `DispatchesArePaid`: `DispatchesBounded`. Needs `Paid`, which counts the
  replicas that have claimed and not dispatched yet (`Cardinality`, hence
  finitely many replicas).
- `OutcomesAreEarned`: `OutcomeIsEarned`. Needs that a handler on its way to the
  write carries a result its own dispatch returned.
- `ImplementsLifecycle`: an accepted create, claim, outcome, reset or delete is
  a step of `RecordLifecycle`; everything else is a stutter.

`WatcherManagerProofs`, from `ManagerAssumption` (finitely many clusters), with any
failures and edits (the theorems do not assume `~MayRemove` or a quiet boot):

- `TypeCorrect`: the type invariant.
- `KnownIsWatched`: `NotForgotten`. Needs, of each cluster outside `removed` and
  `raced`, `Kept` (`fileHashes` knows only files that exist, also in a rescan's
  snapshot) and `Covered` (whoever is known, or due in the phase that runs, is
  watched or queued).
- `SkipsArePermitted`: `SkipsAreRight`, the safety that `Converges` rests on. Needs
  `Versioned`: of a cluster whose file only got newer contents, what is known,
  watched or queued is no newer than the file, and what is watched, or would be by a
  retry without the directory, is no older than what is known; with equality at
  both ends the watcher has the file's content. TLC refutes it as soon as `raced`,
  `rolledBack` or the clusters with a retry entry are not left out.
- `NothingOrphaned`: `NoOrphans`. Needs `Owned`, of each cluster that is neither on
  the watchlist nor in `raced` or `failed`: a watched cluster is known, so that no
  rescan takes its file for a new one, and a queued one is known and not watched; a
  start that met a watcher would orphan it. `BootSees` adds that `blind` is decided
  only at the end of `Start`.

`ClusterWatcherProofs`, from `HashStoreAssumption` and `WatcherAssumption` (each
deployment has a cluster and a namespace; the markers are no hashes or events):

- `TypeCorrect`: the type invariant.
- `LatestSurvives`: `LatestIsKept`. Needs `Batched`: what a flush holds belongs to a
  write that has not returned, and once that write took effect it is what the
  object holds.
- `CleanStops`: `CleanStopPersists`. Needs `Stopped`: once the context is cancelled,
  every watcher that still runs is late or an orphan, so that nothing but their
  reports (`stray`) and failed writes enters the buffer after the final flush has
  drained it.
- `ImplementsWriteBehind`: `WriteBehindSpec`. `LatestIsKept` makes `Drain` offer
  the last hash and `Requeue` mark exactly what was offered; `Batched` makes
  `UpsertReturns` drop only what is stored.
- `NothingIsMissed`: `NothingMissed`. Needs `Followed`, which adds that the
  cache of a watcher holds what its informer delivered last.

`AsyncTargetsProofs`, from `AsyncAssumption` (finitely many workers and
deployments):

- `TypeCorrect`, `SlotsAreBalanced`: `TypeOK` and `SlotsBalance`, together: that
  the count of free slots stays a number is the balance. Needs `Placed`: an
  event is in the hands of one worker, or in a goroutine, never both.
- `NewestIsKept`: `NewestSurvives`. Needs `Entries`: what `active` holds is a
  running investigation of that deployment, only started ones are cancelled, and
  no turn is beyond the count, so that the call at the lock gets the highest
  one.
- `StopIsClean`: `StopDrains`. Needs the same, and that no call starts after Stop.
- `ImplementsPool`: `PoolSpec`, with either kind of reporter. With
  `SlotsBalance`, the semaphore's count is the number of jobs that hold the
  pool; `Entries` makes whatever `Supersede` cancels a job of the same
  deployment that holds it.

`WatchlistProofs`, from `WatchlistAssumption` (an object's name is its own
sanitized name):

- `TypeCorrect`: in particular the trigger channel never holds two.
- `OneOwner`: `IndexIsRight`. Needs `Windows`: of two requests between check and
  update that claim one place for different apps, the place is contested; a
  place an unfinished request claims is free or its own.
- `CrdsAreDurable`: `CrdsAgree`. Needs `Durable`: between write and update of the
  memory, a request that is alone on its object has its own value there.
- `NoTriggerIsLost`: `TriggersReach`.
- `ImplementsOwnership`: `OwnershipSpec`. `Windows` is what makes a settled
  claim take no uncontested place; `KnownPuts` says that a request in its window
  has a spec of known places.

`RolloutAnalyzerProofs`, from `AnalyzerAssumption` (windows and counts are natural
numbers, the window of waiting containers not zero):

- `TypeCorrect`: the type invariant.
- `VerdictIsTheFirstEarned`: `VerdictIsEarned`. The invariant `Inv` says what each
  variable remembers of the history: `last` is the last status (`LastIsRight`),
  `progress` the greatest of `MoveTimes` (`ProgressIsRight`), `waitingSince` the
  begin of the present wait (`TimerIsRight`), `lastSeenPaused` is `EndsPaused`.
  Two lemmas carry the step: a later poll does not change what an earlier one
  justifies, and what the next poll justifies is what the variables say.

Out of the prover's reach and only model-checked: all liveness (`BurstIsEmitted`,
`ShutdownEnds`, `DetectedIsSettled`, `Converges`, `PersistedCatchesUp`,
`EverythingEnds`), since it needs fairness and `ENABLED`. Every safety property and
every refinement of a passing run is proved. The type invariants of `EventPipeline`,
`WatcherManager`, `ClusterWatcher`, `AsyncTargets` and `Watchlist` are proved and no
longer part of a run.

## 5. Known disagreements

Found while translating. 1, 2 and 4 have a run, the other ones up to 9 a
configuration that shows them.

1. *Send on a closed channel* (`pipeline_panic`). `debouncer.Stop` stops the
   timers, but a goroutine of a timer that had fired may be past the lock, and
   `main` does not wait for it (`main.go:341`). A handler that runs after
   `debouncer.Stop` and before its watcher is down also starts a new timer.
2. *No gap detection* (`gap_detection`). `onAdd` overwrites the seeded hash
   without comparing it (`informer.go:189`), so a rollout during downtime is not
   reported, against `docs/architecture.md:46`.
3. *Split mode loses events*. At shutdown nobody waits for the recorder, whose
   context is cancelled (`main.go:173`, `MCEventPipelineSplitLoss`). At any other
   time an event whose record cannot be written is logged and gone
   (`main.go:175-177`, `audit_recorder.go:60-66`); the hash is known by then, so
   nobody reports the rollout again.
4. *Status subresource* (`records_undispatched`): the phase in the create request
   is dropped (`audit_recorder.go:60`, `deploy/crds.yaml:134-135`), and
   `handleRecord` ignores a record without a phase, against
   `docs/architecture.md:116`. `records_safety` and `MCRecordDispatchLive` assume
   an API server that keeps it.
5. *Stuck since when* (`MCRecordDispatchStuck`): the scan compares the age of the
   record, not the time since the claim, so that a late claim is taken away at
   once and dispatched twice.
6. *Forgotten file* (`MCWatcherManagerForgotten`): `rescanDirectory` cancels the
   retry entry of a removed file and leaves its hash (`manager.go:483`).
7. *Orphaned informer* (`MCWatcherManagerOrphan`): a failed `ClusterWatcher.Start`
   leaves the informer running (`informer.go:136`), and nobody holds it until the
   root context is cancelled. Beside the next watcher of its cluster, with a cache
   of its own, it reports every rollout a second time; after `Manager.Stop` it
   still submits events and buffers hashes.
8. *Handlers after the close* (`MCEventPipelineHandlers`): `docs/architecture.md:71`
   says that all watchers are stopped and the event channel is drained then.
   Informers of failed starts, and those the reconcile loop starts after
   `Manager.Stop`, run on until `cancel()` (`main.go:351`), after the close
   (`main.go:341`). What they submit is emitted into the closed channel: the first
   disagreement by another way. `StopHushes` says that there are no others.
9. *Superseded, but reported* (`MCAsyncTargetsSuperseded`):
   `docs/deployment-rollout-monitoring-runbook.md:79` says that no status is
   emitted for an abandoned rollout. The runbook investigator returns a report
   and no error when it is cancelled (`analyzer.go:126-128`), and only the HTTP
   client of the reporter asks the context (`orchestrator.go:139-146`): with
   `SLACK_WEBHOOK_URL=TEST` (`slack_reporter.go:62-71`) or without a reporter the
   report is printed and shown by the status API.

Seen, without a configuration of their own. Pipeline and manager:

10. The comment at `debouncer.go:23-24` says an event is delayed by the window.
    When `Reset` meets a timer that has fired, the goroutine of the first expiry
    emits the new event at once, and the re-armed timer later finds nothing.
11. `emit` sends after it has unlocked (`debouncer.go:58-70`): of two goroutines of
    one key past the unlock, the one with the newer event may send first.
12. A retry that uses a newer file than its entry leaves the old hash in
    `fileHashes` (`manager.go:387`). If the file returns to that old content
    before the next rescan, the watcher keeps the newer one. `MayRevert` with
    `MaxFaults > 0` shows it; `manager_faults` therefore excludes roll-backs, and
    `SkipsAreRight` leaves `rolledBack` out. If it does not return, the next rescan
    recycles the watcher once more for the content it already has.
13. `Manager.Start` takes the directory snapshot after it started the clusters
    `main` loaded (`manager.go:186-191`): a file changed in between counts as
    known. `raced` keeps such clusters apart.
14. `Manager.Stop` (`manager.go:546-555`) does not end the reconcile loop, which
    lives until the root context is cancelled and may start watchers again in
    between. The models have those steps: `NoOrphans` holds of them too,
    `StopHushes` and `CleanStopPersists` name them as exceptions.
15. A cluster started because of the watchlist has no hash in `fileHashes`
    (`manager.go:400-435`), so the next rescan takes its file for a new one and
    starts a second informer beside the first (`493-515`). `NoOrphans` leaves
    watchlist clusters out for this reason; `EventPipeline` and `ClusterWatcher`
    have the two informers. A cluster that is no longer desired is never stopped.

Watcher and hash store:

16. The first update after a namespace becomes allowed only seeds the cache, so
    the rollout it brings is not reported; the same holds for a deployment that
    changed while its namespace was filtered out. `muted` marks these in
    `NothingMissed`.
17. The new hash is buffered, and may be persisted, before the event has left the
    debouncer. A crash in between loses the rollout for good, even if gap
    detection worked.
18. A deployment deleted while the monitor is down keeps its persisted hash.
19. Nothing waits for the final flush (`main.go` returns after `cancel`):
    `CleanStopPersists` speaks of a flush goroutine that came to its end. What an
    orphan or a late watcher buffers after the cancel may stay unwritten even
    then (`stray`). (`.planning/codebase/CONCERNS.md:112-114` fears for the
    deletions when a failed flush puts its batch back, and wants them to take
    priority. The code lets the newest value win, deletion or not, and that is
    what is right: `LatestIsKept`.)
20. A deletion of the MonitorConfig changes nothing (`config_watcher.go` has no
    handler for it), and the status the config watcher writes back triggers a
    notification of its own.

Background targets:

21. The clean-up of a superseded investigation deletes the entry of its successor
    (`orchestrator.go:110`), which then cannot be superseded: two investigations
    of one deployment live at once. Two workers with one deployment reach the
    same by overwriting an entry.
22. With a full semaphore, the running investigation is cancelled and the new one
    dropped: the deployment has none (`orchestrator.go:67`, `80`).
23. The status cache takes the results in the order they come, so an older one
    can replace a newer one.
24. The shutdown branch of `Investigate` is never taken, and the dispatcher binary
    of split mode has neither of these targets.

Watchlist:

25. Two overlapping requests may both own a place in memory; the later update
    wins the index, and when that app is deleted the place has no owner in the
    index although the first app still lists it.
26. After a restart an app is known by its object's name. A `PUT` under its
    original name, when `sanitizeName` changed it, conflicts with itself (409).
27. A `PUT` that lost its reply leaves an object that `DELETE` does not find
    (404).
28. When the kubeconfig directory cannot be read, a `PUT` leaves out every
    cluster and is answered with 200: the registration is emptied.

Analyzer:

29. A pause longer than the inactivity timeout ends as "stalled" at the first
    poll after it: pauses do not count as progress.
30. The soak looks neither at the generation nor at a pause, and reports success
    when it cannot read the pods; a deletion during the soak is "inconclusive".
31. The verdict is of the deployment as it is polled; it is never compared with
    the template hash of the event.
32. The timer of waiting containers is one for all pods and containers: two
    containers that wait one after the other add up.
33. The restart window is measured from the last progress, not from the first
    restart.

## 6. Plan

Done: the debouncer with its abstract specification and the pipeline around it;
record dispatch and its life cycle; the manager; watcher and hash store; the
background targets; the watchlist; the analyzer; proofs for each of them.

Left, in this order:

1. An abstract specification of the manager (which informers run, seen by a
   client that edits the directory) and the refinement, as far as 6, 7, 12, 13 and
   15 admit one.
2. `Watchlist` composed with `WatcherManager`, whose constant `Watchlist` becomes
   the output of the former.
3. The config watcher's start against the first list of the informers.
4. Combined mode's `AuditTarget` and `UpdateRecordStatus`, with record names that
   may coincide.
5. The rules by which configuration selects and combines the targets.

## 7. Not modelled, and why

- Notification targets, investigator back ends, Slack reporter, status API: HTTP
  and formatting around one call; the models see whether it failed.
- `handleRecord`'s parse of the spec and `DispatchEvent`'s loop over targets: one
  outcome, success or failure of any.
- Two rollouts of one deployment within one second get the same record name
  (`audit_recorder.go:103`); names are values of the model. Combined mode's
  `AuditTarget` and `UpdateRecordStatus`.
- How pods are read: which pod counts as failing, which ReplicaSet is the new
  one, which log lines are kept. The analyzer's model has what these functions
  can answer.
- A write of the watchlist that is under way when the process dies and lands
  after the next process has loaded the objects; the write order of two
  instances of the monitor.
- That `sanitizeName` is idempotent is an assumption (`WatchlistAssumption`); a
  name cut at 63 characters may end in `-`, and sanitizing it again shortens it.
- That the object of a cluster is called by its sanitized name
  (`hash_store.go:43`, `133`): in the models different clusters have different
  objects. Two cluster IDs with one sanitized name would share one.
- `StorageVersion`, labels and the status write-back of `ClusterRolloutState` and
  MonitorConfig: nothing reads them.
- Start-up, HTTP servers and metrics of `main`; configuration parsing, which runs
  once and in sequence; generated code, CRDs and charts.
