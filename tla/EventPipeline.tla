--------------------------- MODULE EventPipeline ---------------------------
(***************************************************************************)
(* The monitor process from the informer handlers to the notification      *)
(* targets, and its shutdown: cmd/monitor/main.go composes the cluster     *)
(* watchers, the debouncer (module Debouncer, all of whose state is state  *)
(* here), the event channel and either the dispatcher's worker pool        *)
(* (combined mode) or one goroutine that records events (split mode).      *)
(*                                                                         *)
(* An informer stands for one attempt to start a ClusterWatcher, in        *)
(* whatever order Manager.Start and the reconcile loop make them; module   *)
(* WatcherManager is about which ones they make.                           *)
(***************************************************************************)
EXTENDS Debouncer

CONSTANTS
  Clusters,   \* the clusters that are watched
  Informers,  \* bound: the attempts to start a watcher
  ClusterOf,  \* the cluster of a deployment, and of an informer
  Workers,    \* dispatcher workers, or the one recorder of split mode
  Split,      \* cfg.DispatcherSplit
  NoKey,      \* an informer handler that runs no onUpdate
  Idle,       \* a worker blocked in its select
  Exited      \* a worker that has returned

ASSUME PipelineAssumption ==
  /\ ClusterOf \in [Keys \cup Informers -> Clusters]
  /\ Split \in BOOLEAN
  /\ IsFiniteSet(Workers) /\ Workers # {}
  /\ Split => Cardinality(Workers) = 1
  /\ NoKey \notin Keys
  /\ Idle # Exited /\ Idle \notin Events /\ Exited \notin Events

VARIABLES
  pc,         \* where main() is
  lock,       \* who holds Manager.mu: "loop", "main" or nobody ("free")
  informer,   \* [Informers -> LifeStages]
  handling,   \* [Informers -> key whose onUpdate runs before its Submit]
  late,       \* history: informers started after Manager.Stop returned
  worker,     \* [Workers -> the event in hand, Idle or Exited]
  dispatched, \* history: events every target was called for (or recorded)
  lost,       \* history: events RecordRollout returned an error for
  closed,     \* close(eventCh) was executed
  panicked    \* the process died of a send on the closed channel

watcherVars == <<lock, informer, handling, late>>
consumers == <<worker, dispatched, lost>>
pipelineVars == <<pc, watcherVars, consumers, closed, panicked>>
allVars == <<debouncerVars, pipelineVars>>

Stages == {"serving", "stopDebouncer", "lockManager", "stopWatchers",
           "closeChannel", "wait", "stopTargets", "cancelled", "exited"}

\* Manager.Stop has returned.
Stopped == pc \in {"closeChannel", "wait", "stopTargets", "cancelled", "exited"}

\* Not started; in ClusterWatcher.Start; held by m.watchers; running but held
\* by nobody; cancelled by ClusterWatcher.Stop; gone.
LifeStages == {"off", "starting", "up", "orphan", "stopping", "down"}

PipelineTypeOK ==
  /\ TypeOK
  /\ pc \in Stages
  /\ lock \in {"free", "loop", "main"}
  /\ informer \in [Informers -> LifeStages]
  /\ handling \in [Informers -> Keys \cup {NoKey}]
  /\ late \subseteq Informers
  /\ worker \in [Workers -> Events \cup {Idle, Exited}]
  /\ dispatched \subseteq Events /\ lost \subseteq Events
  /\ closed \in BOOLEAN /\ panicked \in BOOLEAN

PipelineInit ==
  /\ Init
  /\ pc = "serving"
  /\ lock = "free"
  /\ informer = [i \in Informers |-> "off"]
  /\ handling = [i \in Informers |-> NoKey]
  /\ late = {}
  /\ worker = [w \in Workers |-> Idle]
  /\ dispatched = {} /\ lost = {}
  /\ closed = FALSE /\ panicked = FALSE

----------------------------------------------------------------------------
\* The informer goroutine of a cluster runs onUpdate and has found a new hash:
\* one notification at a time, before its first list is complete, after it was
\* cancelled and when nobody holds its watcher any more.
HandlerStart(i, k) ==
  /\ informer[i] \notin {"off", "down"}
  /\ ClusterOf[i] = ClusterOf[k]
  /\ handling[i] = NoKey
  /\ submitted[k] + Cardinality({j \in Informers : handling[j] = k}) < MaxSubmits
  /\ handling' = [handling EXCEPT ![i] = k]
  /\ UNCHANGED <<debouncerVars, pc, lock, informer, late, consumers, closed,
                 panicked>>

\* ... and hands the event to the debouncer as its last act.
HandlerSubmit(i, k) ==
  /\ handling[i] = k
  /\ Submit(k)
  /\ handling' = [handling EXCEPT ![i] = NoKey]
  /\ UNCHANGED <<pc, lock, informer, late, consumers, closed, panicked>>

----------------------------------------------------------------------------
\* Whoever holds Manager.mu is inside ClusterWatcher.Start or Stop.
Busy == \E i \in Informers : informer[i] \in {"starting", "stopping"}

Held(i) == informer[i] = "up"

\* ClusterWatcher.Stop cancels one informer ...
StopsWatcher(i) ==
  /\ Held(i) /\ ~Busy
  /\ informer' = [informer EXCEPT ![i] = "stopping"]
  /\ UNCHANGED <<debouncerVars, pc, lock, handling, late, consumers, closed,
                 panicked>>

\* ... and its factory.Shutdown returns when the handler in flight has.
WatcherDown(i) ==
  /\ informer[i] = "stopping"
  /\ handling[i] = NoKey
  /\ informer' = [informer EXCEPT ![i] = "down"]
  /\ UNCHANGED <<debouncerVars, pc, lock, handling, late, consumers, closed,
                 panicked>>

\* Manager.Start, or a tick or trigger of the reconcile loop, which ends with
\* the root context and not with Manager.Stop.
LoopLock ==
  /\ lock = "free"
  /\ lock' = "loop"
  /\ UNCHANGED <<debouncerVars, pc, informer, handling, late, consumers, closed,
                 panicked>>

LoopUnlock ==
  /\ lock = "loop" /\ ~Busy
  /\ lock' = "free"
  /\ UNCHANGED <<debouncerVars, pc, informer, handling, late, consumers, closed,
                 panicked>>

\* ClusterWatcher.Start launches an informer ...
LoopStart(i) ==
  /\ lock = "loop" /\ ~Busy
  /\ pc # "cancelled"
  /\ informer[i] = "off"
  /\ informer' = [informer EXCEPT ![i] = "starting"]
  /\ late' = IF Stopped THEN late \cup {i} ELSE late
  /\ UNCHANGED <<debouncerVars, pc, lock, handling, consumers, closed, panicked>>

\* ... and waits for its first list: startWatcherLocked puts it into m.watchers,
\* in the place of one of the same cluster, or forgets it after the timeout.
LoopStarted(i) ==
  /\ informer[i] = "starting"
  /\ \/ informer' = [j \in Informers |->
           IF j = i THEN "up"
           ELSE IF Held(j) /\ ClusterOf[j] = ClusterOf[i] THEN "orphan"
           ELSE informer[j]]
     \/ informer' = [informer EXCEPT ![i] = "orphan"]
  /\ UNCHANGED <<debouncerVars, pc, lock, handling, late, consumers, closed,
                 panicked>>

\* The loop stops a watcher that is unhealthy, or whose file changed or is gone.
LoopStop(i) == lock = "loop" /\ StopsWatcher(i)

Loop ==
  \/ LoopLock \/ LoopUnlock
  \/ \E i \in Informers : LoopStart(i) \/ LoopStarted(i) \/ LoopStop(i)

----------------------------------------------------------------------------
\* What the debouncer does by itself, its channel send excepted.
DebouncerStep ==
  /\ \/ \E t \in Timers : Fire(t)
     \/ \E k \in Keys : EmitTake(k)
     \/ Tick
  /\ UNCHANGED pipelineVars

SendOpen(e) ==
  /\ ~closed
  /\ EmitSend(e)
  /\ UNCHANGED pipelineVars

\* A send case on a closed channel is ready and panics, default or not.
SendClosed(e) ==
  /\ closed
  /\ e \in sending
  /\ panicked' = TRUE
  /\ UNCHANGED <<debouncerVars, pc, watcherVars, consumers, closed>>

----------------------------------------------------------------------------
\* A worker's select, or the recorder's range, takes the oldest event.
WorkerReceive(w) ==
  /\ worker[w] = Idle
  /\ Receive
  /\ worker' = [worker EXCEPT ![w] = Head(queue)]
  /\ UNCHANGED <<pc, watcherVars, dispatched, lost, closed, panicked>>

\* DispatchEvent has called every target (each may have failed) and the
\* onDispatched callback ran; or RecordRollout returned, whose error is logged
\* and the event forgotten.
WorkerFinish(w) ==
  /\ worker[w] \in Events
  /\ worker' = [worker EXCEPT ![w] = Idle]
  /\ \E ok \in (IF Split THEN BOOLEAN ELSE {TRUE}) :
       /\ dispatched' = IF ok THEN dispatched \cup {worker[w]} ELSE dispatched
       /\ lost' = IF ok THEN lost ELSE lost \cup {worker[w]}
  /\ UNCHANGED <<debouncerVars, pc, watcherVars, closed, panicked>>

\* Mutant of WorkerExit: a worker returns as soon as the channel is closed.
WorkerExitUndrained(w) ==
  /\ worker[w] = Idle
  /\ closed
  /\ worker' = [worker EXCEPT ![w] = Exited]
  /\ UNCHANGED <<debouncerVars, pc, watcherVars, dispatched, lost, closed,
                 panicked>>

\* The channel is closed and drained.  The other reason of a worker to return,
\* the context being done, cannot arise: cancel() follows the wait for them.
WorkerExit(w) ==
  /\ worker[w] = Idle
  /\ closed /\ queue = <<>>
  /\ worker' = [worker EXCEPT ![w] = Exited]
  /\ UNCHANGED <<debouncerVars, pc, watcherVars, dispatched, lost, closed,
                 panicked>>

----------------------------------------------------------------------------
\* main() got its signal; the HTTP servers it stops first are not modelled.
Signal ==
  /\ pc = "serving"
  /\ pc' = "stopDebouncer"
  /\ UNCHANGED <<debouncerVars, watcherVars, consumers, closed, panicked>>

\* Manager.Stop, first statement, before the mutex.
StopDebouncer ==
  /\ pc = "stopDebouncer"
  /\ Stop
  /\ pc' = "lockManager"
  /\ UNCHANGED <<watcherVars, consumers, closed, panicked>>

\* Manager.Stop waits for the reconcile loop to release the mutex.
LockManager ==
  /\ pc = "lockManager"
  /\ lock = "free"
  /\ lock' = "main"
  /\ pc' = "stopWatchers"
  /\ UNCHANGED <<debouncerVars, informer, handling, late, consumers, closed,
                 panicked>>

\* Manager.Stop's loop stops what m.watchers holds.
StopWatcher(i) == pc = "stopWatchers" /\ StopsWatcher(i)

\* Mutant of UnlockManager: ClusterWatcher.Stop cancels, but does not wait for
\* the handler in flight.
UnlockAtOnce ==
  /\ pc = "stopWatchers"
  /\ \A i \in Informers : ~Held(i)
  /\ lock' = "free"
  /\ pc' = "closeChannel"
  /\ UNCHANGED <<debouncerVars, informer, handling, late, consumers, closed,
                 panicked>>

\* Manager.Stop returns.
UnlockManager ==
  /\ pc = "stopWatchers"
  /\ \A i \in Informers : ~Held(i)
  /\ ~Busy
  /\ lock' = "free"
  /\ pc' = "closeChannel"
  /\ UNCHANGED <<debouncerVars, informer, handling, late, consumers, closed,
                 panicked>>

\* Mutant of CloseChannel: the channel stays open.
CloseForgotten ==
  /\ pc = "closeChannel"
  /\ pc' = IF Split THEN "stopTargets" ELSE "wait"
  /\ UNCHANGED <<debouncerVars, watcherVars, consumers, closed, panicked>>

\* Whatever orphans and late informers still do.
CloseChannel ==
  /\ pc = "closeChannel"
  /\ closed' = TRUE
  /\ pc' = IF Split THEN "stopTargets" ELSE "wait"
  /\ UNCHANGED <<debouncerVars, watcherVars, consumers, panicked>>

\* Mutant of WaitWorkers: main does not wait for the workers.
NoWait ==
  /\ pc = "wait"
  /\ pc' = "stopTargets"
  /\ UNCHANGED <<debouncerVars, watcherVars, consumers, closed, panicked>>

\* dispatcher.Wait() returns.
WaitWorkers ==
  /\ pc = "wait"
  /\ \A w \in Workers : worker[w] = Exited
  /\ pc' = "stopTargets"
  /\ UNCHANGED <<debouncerVars, watcherVars, consumers, closed, panicked>>

\* The orchestrator or the diagnostic target stops (it may take its time),
\* then cancel().
CancelContext ==
  /\ pc = "stopTargets"
  /\ pc' = "cancelled"
  /\ UNCHANGED <<debouncerVars, watcherVars, consumers, closed, panicked>>

\* main() returns and with it the process, whatever the goroutines do.
Exit ==
  /\ pc = "cancelled"
  /\ pc' = "exited"
  /\ UNCHANGED <<debouncerVars, watcherVars, consumers, closed, panicked>>

Main ==
  \/ StopDebouncer
  \/ LockManager
  \/ \E i \in Informers : StopWatcher(i)
  \/ UnlockManager
  \/ CloseChannel
  \/ WaitWorkers
  \/ CancelContext
  \/ Exit

Running == pc # "exited" /\ ~panicked

PipelineNext ==
  /\ Running
  /\ \/ \E i \in Informers, k \in Keys : HandlerStart(i, k) \/ HandlerSubmit(i, k)
     \/ Loop
     \/ \E i \in Informers : WatcherDown(i)
     \/ DebouncerStep
     \/ \E e \in sending : SendOpen(e) \/ SendClosed(e)
     \/ \E w \in Workers : WorkerReceive(w) \/ WorkerFinish(w) \/ WorkerExit(w)
     \/ Signal
     \/ Main

PipelineSpec == PipelineInit /\ [][PipelineNext]_allVars

(***************************************************************************)
(* Fairness: the scheduler runs main, the handlers and the workers, timers *)
(* expire, and a target call returns (HTTP clients have a timeout).  The   *)
(* reconcile loop gives its mutex back, because a start has a timeout, and *)
(* main gets it although the loop takes it again and again (Go's mutex     *)
(* hands over to a waiter after 1 ms).  The signal, starts of watchers and *)
(* new rollouts are never forced.                                          *)
(***************************************************************************)
PipelineFairness ==
  /\ WF_allVars(Running /\ Main)
  /\ SF_allVars(Running /\ LockManager)
  /\ WF_allVars(Running /\ LoopUnlock)
  /\ WF_allVars(Running /\ DebouncerStep)
  /\ \A i \in Informers :
       /\ WF_allVars(Running /\ LoopStarted(i))
       /\ WF_allVars(Running /\ WatcherDown(i))
       /\ \A k \in Keys : WF_allVars(Running /\ HandlerSubmit(i, k))
  /\ \A e \in Events : WF_allVars(Running /\ SendOpen(e))
  /\ \A w \in Workers :
       /\ WF_allVars(Running /\ WorkerReceive(w))
       /\ WF_allVars(Running /\ WorkerFinish(w))
       /\ WF_allVars(Running /\ WorkerExit(w))

FairPipelineSpec == PipelineSpec /\ PipelineFairness

----------------------------------------------------------------------------
\* Shutdown drains: once main is past its wait for the consumers, no event is
\* left in the channel or in a worker's hands, and every event that was taken
\* from the channel was dispatched ("drains the event channel, waits for
\* dispatcher workers", docs/architecture.md:71; main.go:340-351).
Drained ==
  pc \in {"cancelled", "exited"} =>
    /\ queue = <<>>
    /\ received = dispatched
    /\ \A w \in Workers : worker[w] \notin Events

\* Once Manager.Stop has returned, an informer handler runs only where nobody
\* could wait for it: in an informer that a failed or a second start left behind,
\* or in one that the reconcile loop started afterwards.  Whatever the loop was
\* doing when main came for the mutex is stopped and waited for
\* (manager.go:546-555 beside manager.go:260-275).
StopHushes ==
  Stopped =>
    \A i \in Informers :
      handling[i] # NoKey => informer[i] = "orphan" \/ i \in late

\* "stops the manager (which stops all watchers and the debouncer), drains the
\* event channel" (docs/architecture.md:71): no informer handler runs any more
\* when the channel is closed.
HandlersStopFirst == closed => \A i \in Informers : handling[i] = NoKey

\* A shutdown that began ends: main returns, or the process has died of the
\* panic below (main.go:327-354).
ShutdownEnds == (pc # "serving") ~> (pc = "exited" \/ panicked)

\* The events in the consumers' hands.
InHand == {worker[w] : w \in Workers} \cap Events

\* How far the service is for its clients: until the debouncer is stopped, the
\* channel closed, the last consumer gone.  Submissions may come in all of them.
ServicePhase ==
  IF pc \in {"serving", "stopDebouncer"} THEN "serving"
  ELSE IF ~closed THEN "stopping"
  ELSE IF \E w \in Workers : worker[w] # Exited THEN "closing" ELSE "over"

\* The process implements the notifier: from an informer's onUpdate to the last
\* target call, across every order of starts, handlers, timers, emit goroutines,
\* workers and the steps of shutdown, an event is let out once and notified
\* once.  In combined mode an event that was let out before the close is dropped
\* only behind a full channel; in split mode it may also be lost when its record
\* cannot be written.  None that the channel took is left when the consumers are
\* gone (main.go:327-354, debouncer.go, dispatcher.go:81-108).
Service == INSTANCE Notifier WITH
  phase <- ServicePhase,
  waiting <- pending,
  leaving <- sending,
  accepted <- Queued \cup InHand,
  notified <- dispatched,
  missing <- dropped \cup lost,
  Consumers <- Cardinality(Workers),
  Recording <- Split

NotifierSpec == Service!Spec

\* "The current shutdown order in cmd/monitor/main.go does this correctly"
\* (.planning/codebase/CONCERNS.md:102): no emit goroutine sends on the closed
\* event channel.
NoSendOnClosed == ~panicked
=============================================================================
