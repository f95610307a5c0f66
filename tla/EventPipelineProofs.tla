------------------------ MODULE EventPipelineProofs ------------------------
(***************************************************************************)
(* The safety of the pipeline and of its shutdown, for any clusters, keys, *)
(* workers and capacities.  A step of the pipeline is one of the debouncer *)
(* or leaves it alone, so the debouncer's invariants hold here too.        *)
(***************************************************************************)
EXTENDS EventPipeline, DebouncerProofs, FiniteSetTheorems

\* The steps of main itself; and those that only start, hold, stop or lock
\* watchers.
MainStep ==
  \/ Signal \/ StopDebouncer \/ LockManager \/ UnlockManager \/ CloseChannel
  \/ WaitWorkers \/ CancelContext \/ Exit

WatcherStep ==
  \/ LoopLock \/ LoopUnlock
  \/ \E i \in Informers :
       LoopStart(i) \/ LoopStarted(i) \/ StopsWatcher(i) \/ WatcherDown(i)

\* Every step is a handler's, a watcher's, the debouncer's, a worker's or main's.
LEMMA StepCases ==
  ASSUME [PipelineNext]_allVars
  PROVE  \/ \E i \in Informers, k \in Keys : HandlerStart(i, k) \/ HandlerSubmit(i, k)
         \/ WatcherStep \/ MainStep \/ DebouncerStep
         \/ \E e \in sending : SendOpen(e) \/ SendClosed(e)
         \/ \E w \in Workers :
              WorkerReceive(w) \/ WorkerFinish(w) \/ WorkerExit(w)
         \/ UNCHANGED allVars
  BY DEF PipelineNext, Main, Loop, LoopStop, StopWatcher, WatcherStep, MainStep

\* What a watcher's step leaves alone.
LEMMA WatcherStepFrame ==
  ASSUME WatcherStep
  PROVE  UNCHANGED <<debouncerVars, pc, handling, consumers, closed, panicked>>
  BY DEF WatcherStep, LoopLock, LoopUnlock, LoopStart, LoopStarted,
     StopsWatcher, WatcherDown

----------------------------------------------------------------------------
\* The pipeline's debouncer is a debouncer: handlers, workers and main only
\* call its operations, in whatever order the shutdown brings about.
THEOREM RunsADebouncer == PipelineSpec => Spec
<1>1. PipelineInit => Init
  BY DEF PipelineInit
<1>2. [PipelineNext]_allVars => [Next]_debouncerVars
  <2> SUFFICES ASSUME [PipelineNext]_allVars PROVE [Next]_debouncerVars
    OBVIOUS
  <2>1. ASSUME NEW i \in Informers, NEW k \in Keys,
               HandlerStart(i, k) \/ HandlerSubmit(i, k)
        PROVE  [Next]_debouncerVars
    BY <2>1 DEF HandlerStart, HandlerSubmit, Next
  <2>2. CASE DebouncerStep
    BY <2>2 DEF DebouncerStep, Next
  <2>3. ASSUME NEW e \in sending, SendOpen(e) \/ SendClosed(e)
        PROVE  [Next]_debouncerVars
    BY <2>3 DEF SendOpen, SendClosed, Next
  <2>4. ASSUME NEW w \in Workers,
               WorkerReceive(w) \/ WorkerFinish(w) \/ WorkerExit(w)
        PROVE  [Next]_debouncerVars
    BY <2>4 DEF WorkerReceive, WorkerFinish, WorkerExit, Next
  <2>5. CASE MainStep
    BY <2>5 DEF MainStep, Signal, StopDebouncer, LockManager, UnlockManager,
       CloseChannel, WaitWorkers, CancelContext, Exit, Next
  <2>6. CASE WatcherStep
    BY <2>6, WatcherStepFrame
  <2>7. CASE UNCHANGED allVars
    BY <2>7 DEF allVars
  <2>8. QED
    BY <2>1, <2>2, <2>3, <2>4, <2>5, <2>6, <2>7, StepCases
<1>3. QED
  BY <1>1, <1>2, PTL DEF PipelineSpec, Spec

----------------------------------------------------------------------------
\* The types of what the pipeline adds to the debouncer.
OwnTypes ==
  /\ pc \in Stages
  /\ lock \in {"free", "loop", "main"}
  /\ informer \in [Informers -> LifeStages]
  /\ handling \in [Informers -> Keys \cup {NoKey}]
  /\ late \subseteq Informers
  /\ worker \in [Workers -> Events \cup {Idle, Exited}]
  /\ dispatched \subseteq Events /\ lost \subseteq Events
  /\ closed \in BOOLEAN /\ panicked \in BOOLEAN

\* Type correctness: the pipeline's variables and the debouncer's keep their
\* shape (PipelineTypeOK).
THEOREM PipelineTypeCorrect == PipelineSpec => []PipelineTypeOK
<1>1. PipelineInit => OwnTypes
  BY DEF PipelineInit, OwnTypes, Stages, LifeStages
<1>2. TypeOK /\ OwnTypes /\ [PipelineNext]_allVars => OwnTypes'
  <2> SUFFICES ASSUME TypeOK, OwnTypes, [PipelineNext]_allVars
               PROVE  OwnTypes'
    OBVIOUS
  <2> USE DEF OwnTypes
  <2>1. ASSUME NEW i \in Informers, NEW k \in Keys,
               HandlerStart(i, k) \/ HandlerSubmit(i, k)
        PROVE  OwnTypes'
    BY <2>1 DEF HandlerStart, HandlerSubmit, consumers
  <2>3. ASSUME UNCHANGED pipelineVars PROVE OwnTypes'
    BY <2>3 DEF pipelineVars, watcherVars, consumers
  <2>4. ASSUME NEW e \in sending, SendClosed(e) PROVE OwnTypes'
    BY <2>4 DEF SendClosed, watcherVars, consumers
  <2>5. ASSUME NEW w \in Workers, WorkerReceive(w) PROVE OwnTypes'
    <3>1. queue \in Seq(Events) /\ queue # <<>>
      BY <2>5 DEF WorkerReceive, Receive, TypeOK
    <3>2. Head(queue) \in Events
      BY <3>1, QueuedTail
    <3>3. QED
      BY <2>5, <3>2 DEF WorkerReceive, watcherVars
  <2>6. ASSUME NEW w \in Workers, WorkerFinish(w) PROVE OwnTypes'
    BY <2>6 DEF WorkerFinish, watcherVars
  <2>7. ASSUME NEW w \in Workers, WorkerExit(w) PROVE OwnTypes'
    BY <2>7 DEF WorkerExit, watcherVars
  <2>8. CASE MainStep
    BY <2>8 DEF MainStep, Signal, StopDebouncer, LockManager, UnlockManager,
       CloseChannel, WaitWorkers, CancelContext, Exit, watcherVars, consumers,
       Stages
  <2>9. CASE WatcherStep
    <3>1. CASE LoopLock \/ LoopUnlock
      BY <3>1 DEF LoopLock, LoopUnlock, consumers
    <3>2. ASSUME NEW i \in Informers,
                 \/ LoopStart(i) \/ LoopStarted(i)
                 \/ StopsWatcher(i) \/ WatcherDown(i)
          PROVE  OwnTypes'
      BY <3>2 DEF LoopStart, LoopStarted, StopsWatcher, WatcherDown,
         LifeStages, consumers
    <3>3. QED
      BY <2>9, <3>1, <3>2 DEF WatcherStep
  <2>10. CASE UNCHANGED allVars
    BY <2>3, <2>10 DEF allVars
  <2>11. QED
    BY <2>1, <2>3, <2>4, <2>5, <2>6, <2>7, <2>8, <2>9, <2>10, StepCases
       DEF DebouncerStep, SendOpen
<1>3. TypeOK /\ OwnTypes => PipelineTypeOK
  BY DEF OwnTypes, PipelineTypeOK
<1>4. QED
  BY <1>1, <1>2, <1>3, RunsADebouncer, TypeCorrect, PTL DEF PipelineSpec

----------------------------------------------------------------------------
\* A handler runs only in a running informer; once Manager.Stop has returned,
\* those it could stop are gone; and main goes on exactly when it has closed the
\* channel.
Hushed ==
  /\ \A i \in Informers : informer[i] \in {"off", "down"} => handling[i] = NoKey
  /\ Stopped =>
       \A i \in Informers : i \in late \/ informer[i] \in {"off", "orphan", "down"}
  /\ pc \in {"serving", "stopDebouncer", "lockManager", "stopWatchers",
             "closeChannel"} <=> ~closed

LEMMA HushedInductive == PipelineSpec => []Hushed
<1>1. PipelineInit => Hushed
  BY DEF PipelineInit, Hushed, Stopped
<1>2. PipelineTypeOK /\ Hushed /\ [PipelineNext]_allVars => Hushed'
  <2> SUFFICES ASSUME PipelineTypeOK, Hushed, [PipelineNext]_allVars
               PROVE  Hushed'
    OBVIOUS
  <2> USE DEF Hushed, PipelineTypeOK, Stopped, LifeStages
  <2>1. ASSUME NEW i \in Informers, NEW k \in Keys,
               HandlerStart(i, k) \/ HandlerSubmit(i, k)
        PROVE  Hushed'
    BY <2>1 DEF HandlerStart, HandlerSubmit
  <2>2. ASSUME UNCHANGED <<pc, watcherVars, closed>> PROVE Hushed'
    BY <2>2 DEF watcherVars
  <2>3. ASSUME NEW w \in Workers,
               WorkerReceive(w) \/ WorkerFinish(w) \/ WorkerExit(w)
        PROVE  Hushed'
    BY <2>2, <2>3 DEF WorkerReceive, WorkerFinish, WorkerExit
  <2>4. CASE MainStep
    <3>1. CASE UnlockManager
      BY <3>1 DEF UnlockManager, Held, Busy
    <3>2. CASE Signal \/ StopDebouncer \/ LockManager \/ CloseChannel
               \/ WaitWorkers \/ CancelContext \/ Exit
      BY <3>2 DEF Signal, StopDebouncer, LockManager, CloseChannel,
         WaitWorkers, CancelContext, Exit, watcherVars
    <3>3. QED
      BY <2>4, <3>1, <3>2 DEF MainStep
  <2>5. CASE LoopLock \/ LoopUnlock
    BY <2>5 DEF LoopLock, LoopUnlock
  <2>6. ASSUME NEW i \in Informers, LoopStart(i) PROVE Hushed'
    BY <2>6 DEF LoopStart
  <2>7. ASSUME NEW i \in Informers, LoopStarted(i) PROVE Hushed'
    BY <2>7 DEF LoopStarted, Held
  <2>8. ASSUME NEW i \in Informers, StopsWatcher(i) PROVE Hushed'
    BY <2>8 DEF StopsWatcher, Held
  <2>9. ASSUME NEW i \in Informers, WatcherDown(i) PROVE Hushed'
    BY <2>9 DEF WatcherDown
  <2>10. ASSUME NEW e \in sending, SendOpen(e) \/ SendClosed(e) PROVE Hushed'
    BY <2>2, <2>10 DEF SendOpen, SendClosed, pipelineVars
  <2>11. CASE DebouncerStep \/ UNCHANGED allVars
    BY <2>2, <2>11 DEF DebouncerStep, allVars, pipelineVars
  <2>12. QED
    BY <2>1, <2>3, <2>4, <2>5, <2>6, <2>7, <2>8, <2>9, <2>10, <2>11, StepCases
       DEF WatcherStep
<1>3. QED
  BY <1>1, <1>2, PipelineTypeCorrect, PTL DEF PipelineSpec

\* However the reconcile loop, its starts and stops and main meet at the mutex:
\* once Manager.Stop has returned, handlers run only in informers that nobody
\* held or that were started later (StopHushes).
THEOREM StopIsQuiet == PipelineSpec => []StopHushes
<1>1. PipelineTypeOK /\ Hushed => StopHushes
  BY DEF PipelineTypeOK, Hushed, StopHushes, LifeStages
<1>2. QED
  BY <1>1, HushedInductive, PipelineTypeCorrect, PTL

----------------------------------------------------------------------------
\* What the consumers took is in one hand, or was dispatched, or was lost.
Delivery ==
  /\ received = dispatched \cup lost \cup InHand
  /\ InHand \cap (dispatched \cup lost) = {}
  /\ \A v, w \in Workers :
       v # w /\ worker[v] \in Events => worker[v] # worker[w]
  /\ lost # {} => Split

LEMMA DeliveryInductive == PipelineSpec => []Delivery
<1>1. PipelineInit => Delivery
  BY PipelineAssumption DEF PipelineInit, Init, Delivery, InHand
<1>2. PipelineTypeOK /\ EmittedOnce /\ Delivery /\ [PipelineNext]_allVars
        => Delivery'
  <2> SUFFICES ASSUME PipelineTypeOK, EmittedOnce, Delivery,
                      [PipelineNext]_allVars
               PROVE  Delivery'
    OBVIOUS
  <2> USE PipelineAssumption
  <2>1. ASSUME UNCHANGED <<worker, received, dispatched, lost>>
        PROVE  Delivery'
    BY <2>1 DEF Delivery, InHand
  <2>2. ASSUME NEW w \in Workers, WorkerReceive(w) PROVE Delivery'
    <3> DEFINE e == Head(queue)
    <3>1. queue \in Seq(Events) /\ queue # <<>>
      BY <2>2 DEF WorkerReceive, Receive, PipelineTypeOK, TypeOK
    <3>2. e \in Events /\ e \in Queued
      BY <3>1, QueuedTail DEF Queued
    <3>3. e \notin received
      BY <3>2 DEF EmittedOnce
    <3>4. /\ worker[w] = Idle
          /\ worker' = [worker EXCEPT ![w] = e]
          /\ received' = received \cup {e}
          /\ dispatched' = dispatched /\ lost' = lost
      BY <2>2 DEF WorkerReceive, Receive
    <3>5. \A v \in Workers : worker'[v] = IF v = w THEN e ELSE worker[v]
      BY <3>4 DEF PipelineTypeOK
    <3>6. InHand' = InHand \cup {e}
      BY <3>2, <3>4, <3>5 DEF InHand
    <3>7. \A v \in Workers : worker[v] # e
      BY <3>2, <3>3 DEF Delivery, InHand
    <3> HIDE DEF e
    <3>8. \A v, x \in Workers :
            v # x /\ worker'[v] \in Events => worker'[v] # worker'[x]
      BY <3>5, <3>7 DEF Delivery
    <3>9. QED
      BY <3>3, <3>4, <3>6, <3>8 DEF Delivery
  <2>3. ASSUME NEW w \in Workers, WorkerFinish(w) PROVE Delivery'
    <3> DEFINE e == worker[w]
    <3>1. e \in Events /\ worker' = [worker EXCEPT ![w] = Idle]
      BY <2>3 DEF WorkerFinish
    <3>2. \A v \in Workers : worker'[v] = IF v = w THEN Idle ELSE worker[v]
      BY <3>1 DEF PipelineTypeOK
    <3>3. InHand' = InHand \ {e} /\ e \in InHand
      BY <3>1, <3>2 DEF InHand, Delivery
    <3>4. received' = received
      BY <2>3 DEF WorkerFinish, debouncerVars
    <3>5. \/ dispatched' = dispatched \cup {e} /\ lost' = lost
          \/ dispatched' = dispatched /\ lost' = lost \cup {e} /\ Split
      BY <2>3 DEF WorkerFinish
    <3>6. \A v, x \in Workers :
            v # x /\ worker'[v] \in Events => worker'[v] # worker'[x]
      BY <3>2 DEF Delivery
    <3> HIDE DEF e
    <3>7. QED
      BY <3>3, <3>4, <3>5, <3>6 DEF Delivery
  <2>4. ASSUME NEW w \in Workers, WorkerExit(w) PROVE Delivery'
    <3>1. /\ worker[w] = Idle /\ worker' = [worker EXCEPT ![w] = Exited]
          /\ UNCHANGED <<received, dispatched, lost>>
      BY <2>4 DEF WorkerExit, debouncerVars
    <3>2. \A v \in Workers : worker'[v] = IF v = w THEN Exited ELSE worker[v]
      BY <3>1 DEF PipelineTypeOK
    <3>3. InHand' = InHand
      BY <3>1, <3>2 DEF InHand
    <3>4. \A v, x \in Workers :
            v # x /\ worker'[v] \in Events => worker'[v] # worker'[x]
      BY <3>1, <3>2 DEF Delivery
    <3>5. QED
      BY <3>1, <3>3, <3>4 DEF Delivery
  <2>5. ASSUME NEW i \in Informers, NEW k \in Keys,
               HandlerStart(i, k) \/ HandlerSubmit(i, k)
        PROVE  Delivery'
    BY <2>1, <2>5 DEF HandlerStart, HandlerSubmit, Submit, debouncerVars,
       channelVars, consumers
  <2>6. CASE DebouncerStep
    BY <2>1, <2>6 DEF DebouncerStep, Fire, EmitTake, Tick, channelVars,
       pipelineVars, consumers
  <2>7. ASSUME NEW e \in sending, SendOpen(e) \/ SendClosed(e)
        PROVE  Delivery'
    BY <2>1, <2>7 DEF SendOpen, SendClosed, EmitSend, debouncerVars,
       pipelineVars, consumers
  <2>8. CASE MainStep
    BY <2>1, <2>8 DEF MainStep, Signal, StopDebouncer, Stop, LockManager,
       UnlockManager, CloseChannel, WaitWorkers, CancelContext, Exit,
       debouncerVars, channelVars, consumers
  <2>9. CASE WatcherStep
    BY <2>1, <2>9, WatcherStepFrame DEF debouncerVars, consumers
  <2>10. CASE UNCHANGED allVars
    BY <2>1, <2>10 DEF allVars, debouncerVars, pipelineVars, consumers
  <2>11. QED
    BY <2>2, <2>3, <2>4, <2>5, <2>6, <2>7, <2>8, <2>9, <2>10, StepCases
<1>3. QED
  BY <1>1, <1>2, PipelineTypeCorrect, RunsADebouncer, NoDuplicates, PTL
     DEF PipelineSpec

----------------------------------------------------------------------------
\* The stages of main after its wait for the workers.
AfterWait == {"stopTargets", "cancelled", "exited"}

\* A worker returns only when the channel is closed and empty, which it then
\* remains, and main passes its wait only when all of them have returned.
Emptied ==
  /\ \A w \in Workers : worker[w] = Exited => closed /\ queue = <<>>
  /\ ~Split /\ pc \in AfterWait => \A w \in Workers : worker[w] = Exited

LEMMA EmptiedInductive == PipelineSpec => []Emptied
<1>1. PipelineInit => Emptied
  BY PipelineAssumption DEF PipelineInit, Emptied, AfterWait
<1>2. PipelineTypeOK /\ Emptied /\ [PipelineNext]_allVars => Emptied'
  <2> SUFFICES ASSUME PipelineTypeOK, Emptied, [PipelineNext]_allVars
               PROVE  Emptied'
    OBVIOUS
  <2> USE PipelineAssumption
  <2>1. ASSUME UNCHANGED <<pc, worker, closed, queue>> PROVE Emptied'
    BY <2>1 DEF Emptied
  <2>2. ASSUME NEW w \in Workers, WorkerReceive(w) PROVE Emptied'
    <3>1. queue \in Seq(Events) /\ queue # <<>> /\ worker[w] = Idle
      BY <2>2 DEF WorkerReceive, Receive, PipelineTypeOK, TypeOK
    <3>2. Head(queue) \in Events
      BY <3>1, QueuedTail
    <3>3. \A v \in Workers : worker[v] # Exited
      BY <3>1 DEF Emptied
    <3>4. worker' = [worker EXCEPT ![w] = Head(queue)] /\ pc' = pc
      BY <2>2 DEF WorkerReceive
    <3>5. \A v \in Workers : worker'[v] # Exited
      BY <3>2, <3>3, <3>4 DEF PipelineTypeOK
    <3>6. ~(~Split /\ pc \in AfterWait)
      BY <3>3 DEF Emptied
    <3>7. QED
      BY <3>4, <3>5, <3>6 DEF Emptied
  <2>3. ASSUME NEW w \in Workers, WorkerFinish(w) PROVE Emptied'
    <3>1. /\ worker[w] \in Events /\ worker' = [worker EXCEPT ![w] = Idle]
          /\ UNCHANGED <<pc, closed, queue>>
      BY <2>3 DEF WorkerFinish, debouncerVars
    <3>2. \A v \in Workers : worker'[v] = IF v = w THEN Idle ELSE worker[v]
      BY <3>1 DEF PipelineTypeOK
    <3>3. QED
      BY <3>1, <3>2 DEF Emptied
  <2>4. ASSUME NEW w \in Workers, WorkerExit(w) PROVE Emptied'
    <3>1. /\ closed /\ queue = <<>> /\ worker' = [worker EXCEPT ![w] = Exited]
          /\ UNCHANGED <<pc, closed, queue>>
      BY <2>4 DEF WorkerExit, debouncerVars
    <3>2. \A v \in Workers : worker'[v] = IF v = w THEN Exited ELSE worker[v]
      BY <3>1 DEF PipelineTypeOK
    <3>3. QED
      BY <3>1, <3>2 DEF Emptied
  <2>5. ASSUME NEW i \in Informers, NEW k \in Keys,
               HandlerStart(i, k) \/ HandlerSubmit(i, k)
        PROVE  Emptied'
    BY <2>1, <2>5 DEF HandlerStart, HandlerSubmit, Submit, debouncerVars,
       channelVars, consumers
  <2>6. CASE DebouncerStep
    BY <2>1, <2>6 DEF DebouncerStep, Fire, EmitTake, Tick, channelVars,
       pipelineVars, consumers
  <2>7. ASSUME NEW e \in sending, SendOpen(e) PROVE Emptied'
    BY <2>7 DEF SendOpen, pipelineVars, consumers, Emptied
  <2>8. ASSUME NEW e \in sending, SendClosed(e) PROVE Emptied'
    BY <2>1, <2>8 DEF SendClosed, debouncerVars, consumers
  <2>9. CASE MainStep
    <3>1. CASE Signal \/ StopDebouncer \/ LockManager \/ UnlockManager
      BY <3>1 DEF Signal, StopDebouncer, Stop, LockManager, UnlockManager,
         debouncerVars, channelVars, consumers, Emptied, AfterWait
    <3>2. CASE CloseChannel
      BY <3>2 DEF CloseChannel, debouncerVars, consumers, Emptied, AfterWait
    <3>3. CASE WaitWorkers \/ CancelContext \/ Exit
      BY <3>3 DEF WaitWorkers, CancelContext, Exit, debouncerVars, consumers,
         Emptied, AfterWait
    <3>4. QED
      BY <2>9, <3>1, <3>2, <3>3 DEF MainStep
  <2>10. CASE WatcherStep
    BY <2>1, <2>10, WatcherStepFrame DEF debouncerVars, consumers
  <2>11. CASE UNCHANGED allVars
    BY <2>1, <2>11 DEF allVars, debouncerVars, pipelineVars, consumers
  <2>12. QED
    BY <2>2, <2>3, <2>4, <2>5, <2>6, <2>7, <2>8, <2>9, <2>10, <2>11, StepCases
<1>3. QED
  BY <1>1, <1>2, PipelineTypeCorrect, PTL DEF PipelineSpec

\* In combined mode shutdown drains the channel and the workers (Drained).
THEOREM ShutdownDrains ==
  ASSUME ~Split
  PROVE  PipelineSpec => []Drained
<1>1. Emptied /\ Delivery => Drained
  <2> SUFFICES ASSUME Emptied, Delivery, pc \in {"cancelled", "exited"}
               PROVE  /\ queue = <<>>
                      /\ received = dispatched
                      /\ \A w \in Workers : worker[w] \notin Events
    BY DEF Drained
  <2>1. \A w \in Workers : worker[w] = Exited
    BY DEF Emptied, AfterWait
  <2>2. queue = <<>>
    BY <2>1, PipelineAssumption DEF Emptied
  <2>3. InHand = {}
    BY <2>1, PipelineAssumption DEF InHand
  <2>4. QED
    BY <2>1, <2>2, <2>3, PipelineAssumption DEF Delivery
<1>2. QED
  BY <1>1, EmptiedInductive, DeliveryInductive, PTL

----------------------------------------------------------------------------
\* What the service has accepted: the channel's buffer and the workers' hands.
Accepted == Queued \cup InHand

\* The buffer holds each event once, so it is as long as its set is large; the
\* hands add at most one event per worker.
LEMMA Backlog ==
  ASSUME PipelineTypeOK, EmittedOnce
  PROVE  /\ IsFiniteSet(Accepted)
         /\ Cardinality(Accepted) >= Len(queue)
         /\ Cardinality(Accepted) <= Len(queue) + Cardinality(Workers)
<1> USE PipelineAssumption
<1>1. queue \in [1..Len(queue) -> Events] /\ Len(queue) \in Nat
  BY LenProperties DEF PipelineTypeOK, TypeOK
<1>2. queue \in [1..Len(queue) -> Queued]
  BY <1>1 DEF Queued
<1>3. queue \in Surjection(1..Len(queue), Queued)
  BY <1>2 DEF Surjection, Queued
<1>4. queue \in Injection(1..Len(queue), Queued)
  BY <1>2 DEF Injection, IsInjective, EmittedOnce
<1>5. IsFiniteSet(1..Len(queue)) /\ Cardinality(1..Len(queue)) = Len(queue)
  <2> DEFINE n == Len(queue)
  <2>1. 1 \in Int /\ n \in Int /\ n >= 0
    BY <1>1
  <2> HIDE DEF n
  <2>2. IsFiniteSet(1..n) /\ Cardinality(1..n) = IF 1 > n THEN 0 ELSE n - 1 + 1
    BY <2>1, FS_Interval
  <2>3. QED
    BY <2>1, <2>2 DEF n
<1>6. IsFiniteSet(Queued) /\ Cardinality(Queued) = Len(queue)
  BY <1>3, <1>4, <1>5, FS_Surjection
<1> DEFINE Hands == {worker[w] : w \in Workers}
<1>7. worker \in Surjection(Workers, Hands)
  BY DEF PipelineTypeOK, Surjection
<1>8. IsFiniteSet(Hands) /\ Cardinality(Hands) <= Cardinality(Workers)
  BY <1>7, FS_Surjection
<1>9. InHand \in SUBSET Hands
  BY DEF InHand
<1>10. IsFiniteSet(InHand) /\ Cardinality(InHand) <= Cardinality(Hands)
  BY <1>8, <1>9, FS_Subset
<1>11. /\ IsFiniteSet(Accepted)
       /\ Cardinality(Accepted)
            = Cardinality(Queued) + Cardinality(InHand)
                - Cardinality(Queued \cap InHand)
  BY <1>6, <1>10, FS_Union DEF Accepted
<1>12. /\ IsFiniteSet(Queued \cap InHand)
       /\ Cardinality(Queued \cap InHand) <= Cardinality(InHand)
  BY <1>10, FS_Subset
<1>13. /\ Cardinality(Workers) \in Nat /\ Cardinality(Hands) \in Nat
       /\ Cardinality(InHand) \in Nat
       /\ Cardinality(Queued \cap InHand) \in Nat
  BY <1>8, <1>10, <1>12, FS_CardinalityType
<1>14. QED
  BY <1>1, <1>6, <1>8, <1>10, <1>11, <1>12, <1>13

\* What the steps below rely on: the invariants proved so far.
ServiceInv ==
  /\ PipelineTypeOK /\ Wakeup /\ Order /\ EmittedOnce
  /\ Hushed /\ Delivery /\ Emptied

\* The notifier counts as the pipeline does.
LEMMA SameCount == \A S : Service!Cardinality(S) = Cardinality(S)
BY DEF Service!Cardinality, Cardinality

\* The events of the service's stages, apart from each other.
LEMMA StagesApart ==
  ASSUME ServiceInv
  PROVE  /\ sending \cap Accepted = {}
         /\ Accepted \cap (dispatched \cup dropped \cup lost) = {}
         /\ Out = Service!Released
<1>1. received = dispatched \cup lost \cup InHand
  BY DEF ServiceInv, Delivery
<1>2. QED
  BY <1>1 DEF ServiceInv, Delivery, EmittedOnce, Accepted, Out,
     Service!Released

\* While the channel is open no worker has returned.
LEMMA OpenPhase ==
  ASSUME ServiceInv
  PROVE  /\ ~closed <=> Service!Open
         /\ ~closed => \A w \in Workers : worker[w] # Exited
         /\ closed => ServicePhase =
              IF \E w \in Workers : worker[w] # Exited
                THEN "closing" ELSE "over"
  BY PipelineAssumption
     DEF ServiceInv, Hushed, Emptied, Service!Open, ServicePhase

\* A handler's last act is a submission, before or after the close.
LEMMA SubmitMaps ==
  ASSUME ServiceInv, NEW i \in Informers, NEW k \in Keys, HandlerSubmit(i, k)
  PROVE  Service!Submit(k)
<1>1. /\ Submit(k)
      /\ UNCHANGED <<pc, worker, dispatched, lost, closed, panicked>>
  BY DEF HandlerSubmit, consumers
<1>2. ServicePhase' = ServicePhase /\ InHand' = InHand /\ Queued' = Queued
  BY <1>1 DEF ServicePhase, InHand, Submit, channelVars, Queued
<1>3. QED
  BY <1>1, <1>2 DEF Submit, channelVars, Service!Submit, Service!outside

\* The debouncer's own steps are a release or invisible.
LEMMA DebouncerMaps ==
  ASSUME ServiceInv, DebouncerStep
  PROVE  (\E k \in Keys : Service!Release(k)) \/ UNCHANGED Service!notifierVars
<1>1. UNCHANGED pipelineVars
  BY DEF DebouncerStep
<1>2. ServicePhase' = ServicePhase /\ InHand' = InHand
  BY <1>1 DEF ServicePhase, InHand, pipelineVars, consumers
<1>3. ASSUME NEW k \in Keys, EmitTake(k), pending[k] # 0
      PROVE  Service!Release(k)
  <2>1. <<k, pending[k]>> \notin Out
    BY <1>3, WaitingIsNotOut DEF PendingEvents, ServiceInv, PipelineTypeOK
  <2>2. pending[k] = submitted[k]
    BY <1>3 DEF ServiceInv, Order, NewestWaits
  <2>3. Queued' = Queued
    BY <1>3 DEF EmitTake, Queued
  <2>4. QED
    BY <1>1, <1>2, <1>3, <2>1, <2>2, <2>3, StagesApart
       DEF EmitTake, pipelineVars, consumers, Service!Release, Service!outside
<1>4. ASSUME UNCHANGED <<submitted, pending, channelVars>>
      PROVE  UNCHANGED Service!notifierVars
  BY <1>1, <1>2, <1>4 DEF channelVars, Queued, pipelineVars, consumers,
     Service!notifierVars
<1>5. ASSUME NEW k \in Keys, EmitTake(k), pending[k] = 0
      PROVE  UNCHANGED <<submitted, pending, channelVars>>
  BY <1>5 DEF EmitTake, channelVars, ServiceInv, PipelineTypeOK, TypeOK
<1>6. ASSUME NEW tm \in Timers, Fire(tm)
      PROVE  UNCHANGED <<submitted, pending, channelVars>>
  BY <1>6 DEF Fire, mapVars
<1>7. CASE Tick
  BY <1>4, <1>7 DEF Tick, mapVars
<1>8. QED
  BY <1>3, <1>4, <1>5, <1>6, <1>7 DEF DebouncerStep

\* A send on the open channel is accepted, or dropped when Capacity events are
\* in the channel already.
LEMMA SendMaps ==
  ASSUME ServiceInv, NEW e \in sending, SendOpen(e)
  PROVE  Service!Accept(e) \/ Service!Drop(e)
<1>1. ~closed /\ EmitSend(e) /\ UNCHANGED pipelineVars
  BY DEF SendOpen
<1>2. Service!Open /\ ServicePhase' = ServicePhase /\ InHand' = InHand
  BY <1>1, OpenPhase DEF ServicePhase, InHand, pipelineVars, consumers
<1>3. e \in sending \ Accepted
  BY StagesApart
<1>4. /\ sending' = sending \ {e}
      /\ UNCHANGED <<submitted, pending, dispatched, lost>>
  BY <1>1 DEF EmitSend, mapVars, pipelineVars, consumers
<1>5. /\ Cardinality(Accepted) \in Nat
      /\ Cardinality(Accepted) >= Len(queue)
      /\ Cardinality(Accepted) <= Len(queue) + Cardinality(Workers)
      /\ Cardinality(Workers) \in Nat /\ Len(queue) \in Nat
  BY Backlog, FS_CardinalityType, PipelineAssumption, LenProperties
     DEF ServiceInv, PipelineTypeOK, TypeOK
<1>6. CASE Len(queue) < Capacity /\ queue' = Append(queue, e) /\ dropped' = dropped
  <2>1. Queued' = Queued \cup {e}
    <3>1. queue \in Seq(Events) /\ e \in Events
      BY DEF ServiceInv, PipelineTypeOK, TypeOK
    <3>2. QED
      BY <1>6, <3>1, QueuedAppend DEF Queued
  <2>2. Cardinality(Accepted) < Capacity + Cardinality(Workers)
    BY <1>5, <1>6, DebouncerAssumption
  <2>3. QED
    BY <1>2, <1>3, <1>4, <1>6, <2>1, <2>2, SameCount
       DEF Accepted, Service!Accept, Service!outside
<1>7. CASE Len(queue) >= Capacity /\ dropped' = dropped \cup {e} /\ queue' = queue
  <2>1. Cardinality(Accepted) >= Capacity
    BY <1>5, <1>7, DebouncerAssumption
  <2>2. QED
    BY <1>2, <1>4, <1>7, <2>1, SameCount
       DEF Accepted, Queued, Service!Drop
<1>8. QED
  BY <1>1, <1>6, <1>7 DEF EmitSend

\* Taking an event from the channel is invisible: it stays accepted.
LEMMA ReceiveMaps ==
  ASSUME ServiceInv, NEW w \in Workers, WorkerReceive(w)
  PROVE  UNCHANGED Service!notifierVars
<1> USE PipelineAssumption
<1> DEFINE e == Head(queue)
<1>1. queue \in Seq(Events) /\ queue # <<>> /\ TypeOK
  BY DEF WorkerReceive, Receive, ServiceInv, PipelineTypeOK, TypeOK
<1>2. e \in Events
  BY <1>1, QueuedTail
<1>3. Queued = Queued' \cup {e} /\ sending' = sending /\ dropped' = dropped
  BY <1>1, ReceiveMoves DEF WorkerReceive
<1>4. /\ worker[w] = Idle
      /\ worker' = [worker EXCEPT ![w] = e]
      /\ UNCHANGED <<pc, dispatched, lost, closed, submitted, pending>>
  BY DEF WorkerReceive, Receive, mapVars
<1>5. \A v \in Workers : worker'[v] = IF v = w THEN e ELSE worker[v]
  BY <1>4 DEF ServiceInv, PipelineTypeOK
<1>6. InHand' = InHand \cup {e}
  BY <1>2, <1>4, <1>5 DEF InHand
<1>7. ServicePhase' = ServicePhase
  BY <1>2, <1>4, <1>5 DEF ServicePhase
<1> HIDE DEF e
<1>8. Queued' \cup InHand' = Queued \cup InHand
  BY <1>3, <1>6
<1>9. QED
  BY <1>3, <1>4, <1>7, <1>8 DEF Service!notifierVars

\* A worker's last step with an event notifies it; a recorder's may fail.
LEMMA FinishMaps ==
  ASSUME ServiceInv, NEW w \in Workers, WorkerFinish(w)
  PROVE  \E e \in Accepted : Service!Notify(e) \/ Service!Fail(e)
<1> USE PipelineAssumption
<1> DEFINE e == worker[w]
<1>1. /\ e \in Events /\ worker' = [worker EXCEPT ![w] = Idle]
      /\ UNCHANGED <<debouncerVars, pc, closed>>
  BY DEF WorkerFinish
<1>2. \A v \in Workers : worker'[v] = IF v = w THEN Idle ELSE worker[v]
  BY <1>1 DEF ServiceInv, PipelineTypeOK
<1>3. InHand' = InHand \ {e} /\ e \in InHand
  BY <1>1, <1>2 DEF InHand, Delivery, ServiceInv
<1>4. UNCHANGED <<submitted, pending, sending, Queued, dropped, received>>
  BY <1>1 DEF debouncerVars, Queued
<1>5. ServicePhase' = ServicePhase /\ ServicePhase # "over"
  BY <1>1, <1>2 DEF ServicePhase
<1> HIDE DEF e
<1>6. e \notin Queued /\ e \notin dispatched \cup dropped \cup lost
  BY <1>3, StagesApart DEF Accepted, ServiceInv, EmittedOnce, Delivery
<1>7. (Queued \cup InHand)' = (Queued \cup InHand) \ {e} /\ e \in Accepted
  BY <1>3, <1>4, <1>6 DEF Accepted
<1>8. CASE dispatched' = dispatched \cup {e} /\ lost' = lost
  <2>1. Service!Notify(e)
    BY <1>4, <1>5, <1>6, <1>7, <1>8 DEF Accepted, Service!Notify
  <2>2. QED
    BY <1>7, <2>1
<1>9. CASE Split /\ lost' = lost \cup {e} /\ dispatched' = dispatched
  <2>1. Service!Fail(e)
    BY <1>4, <1>5, <1>6, <1>7, <1>9 DEF Accepted, Service!Fail
  <2>2. QED
    BY <1>7, <2>1
<1>10. \/ dispatched' = dispatched \cup {e} /\ lost' = lost
       \/ Split /\ lost' = lost \cup {e} /\ dispatched' = dispatched
  BY DEF WorkerFinish, e
<1>11. QED
  BY <1>8, <1>9, <1>10

\* The last worker to return ends the service, with nothing accepted left: the
\* channel is empty and every hand is.
LEMMA ExitMaps ==
  ASSUME ServiceInv, NEW w \in Workers, WorkerExit(w)
  PROVE  Service!Finish \/ UNCHANGED Service!notifierVars
<1> USE PipelineAssumption
<1>1. /\ worker[w] = Idle /\ worker' = [worker EXCEPT ![w] = Exited]
      /\ closed /\ queue = <<>>
      /\ UNCHANGED <<debouncerVars, pc, dispatched, lost, closed>>
  BY DEF WorkerExit
<1>2. \A v \in Workers : worker'[v] = IF v = w THEN Exited ELSE worker[v]
  BY <1>1 DEF ServiceInv, PipelineTypeOK
<1>3. InHand' = InHand
  BY <1>1, <1>2 DEF InHand
<1>4. UNCHANGED <<submitted, pending, sending, Queued, dropped>>
  BY <1>1 DEF debouncerVars, Queued
<1>5. ServicePhase = "closing"
  BY <1>1, OpenPhase
<1>6. CASE \E v \in Workers : worker'[v] # Exited
  <2>1. ServicePhase' = ServicePhase
    BY <1>1, <1>5, <1>6 DEF ServiceInv, Hushed, ServicePhase
  <2>2. QED
    BY <1>1, <1>3, <1>4, <2>1 DEF Service!notifierVars
<1>7. CASE \A v \in Workers : worker'[v] = Exited
  <2>1. ServicePhase' = "over"
    BY <1>1, <1>5, <1>7 DEF ServiceInv, Hushed, ServicePhase
  <2>2. InHand' = {}
    BY <1>7 DEF InHand
  <2>3. Queued = {}
    BY <1>1 DEF Queued
  <2>4. QED
    BY <1>1, <1>3, <1>4, <1>5, <2>1, <2>2, <2>3
       DEF Service!Finish, Service!outside
<1>8. QED
  BY <1>6, <1>7

\* Main's steps: the debouncer's stop cancels what waits, the close of the
\* channel closes the service, and the others are invisible.
LEMMA MainMaps ==
  ASSUME ServiceInv, MainStep
  PROVE  \/ Service!CancelAll \/ Service!Close
         \/ UNCHANGED Service!notifierVars
<1>1. CASE StopDebouncer
  <2>1. /\ pc = "stopDebouncer" /\ pc' = "lockManager" /\ Stop
        /\ UNCHANGED <<worker, dispatched, lost, closed>>
    BY <1>1 DEF StopDebouncer, consumers
  <2>2. ServicePhase = "serving" /\ ServicePhase' = "stopping"
    BY <2>1 DEF ServicePhase, ServiceInv, Hushed
  <2>3. pending' = [k \in Keys |-> 0]
    BY <2>1 DEF Stop, Wakeup, MapsAgree, ServiceInv
  <2>4. UNCHANGED <<submitted, sending, Queued, InHand, dropped>>
    BY <2>1 DEF Stop, channelVars, Queued, InHand
  <2>5. QED
    BY <2>1, <2>2, <2>3, <2>4 DEF Service!CancelAll, Service!outside
<1>2. CASE CloseChannel
  <2>1. /\ pc = "closeChannel" /\ pc' \in {"stopTargets", "wait"} /\ closed'
        /\ UNCHANGED <<debouncerVars, worker, dispatched, lost>>
    BY <1>2 DEF CloseChannel, consumers
  <2>2. ~closed /\ \A w \in Workers : worker[w] # Exited
    BY <2>1, OpenPhase DEF ServiceInv, Hushed
  <2>3. ServicePhase = "stopping" /\ ServicePhase' = "closing"
    BY <2>1, <2>2, PipelineAssumption DEF ServicePhase
  <2>4. UNCHANGED <<submitted, pending, sending, Queued, InHand, dropped>>
    BY <2>1 DEF debouncerVars, Queued, InHand
  <2>5. QED
    BY <2>1, <2>3, <2>4 DEF Service!Close, Service!outside
<1>3. ASSUME UNCHANGED <<debouncerVars, worker, dispatched, lost, closed>>,
             ServicePhase' = ServicePhase
      PROVE  UNCHANGED Service!notifierVars
  BY <1>3 DEF debouncerVars, Queued, InHand, Service!notifierVars
<1>4. CASE Signal \/ LockManager \/ UnlockManager
  BY <1>3, <1>4 DEF Signal, LockManager, UnlockManager, consumers, ServicePhase
<1>5. CASE WaitWorkers \/ CancelContext \/ Exit
  BY <1>3, <1>5 DEF WaitWorkers, CancelContext, Exit, consumers, ServicePhase
<1>6. QED
  BY <1>1, <1>2, <1>4, <1>5 DEF MainStep

\* The monitor process implements the notifier: whatever starts of watchers,
\* handlers, timers, emit goroutines, workers and the shutdown do in whatever
\* order, a rollout's newest event is let out once, accepted unless the channel
\* is full or closed, notified once or, in split mode, not recorded, and nothing
\* accepted is left when the last consumer is gone (NotifierSpec).
THEOREM ImplementsNotifier == PipelineSpec => NotifierSpec
<1>1. PipelineInit => Service!Init
  BY PipelineAssumption
     DEF PipelineInit, Init, Service!Init, ServicePhase, Queued, InHand
<1>2. ServiceInv /\ [PipelineNext]_allVars
        => [Service!Next]_(Service!notifierVars)
  <2> SUFFICES ASSUME ServiceInv, [PipelineNext]_allVars
               PROVE  Service!Next \/ UNCHANGED Service!notifierVars
    OBVIOUS
  <2> USE DEF Service!Next
  <2>1. ASSUME UNCHANGED <<debouncerVars, worker, dispatched, lost, closed, pc>>
        PROVE  UNCHANGED Service!notifierVars
    BY <2>1 DEF debouncerVars, Queued, InHand, ServicePhase,
       Service!notifierVars
  <2>2. ASSUME NEW i \in Informers, NEW k \in Keys, HandlerStart(i, k)
        PROVE  UNCHANGED Service!notifierVars
    BY <2>1, <2>2 DEF HandlerStart, consumers
  <2>3. ASSUME NEW e \in sending, SendClosed(e)
        PROVE  UNCHANGED Service!notifierVars
    BY <2>1, <2>3 DEF SendClosed, consumers
  <2>4. CASE UNCHANGED allVars
    BY <2>1, <2>4 DEF allVars, pipelineVars, consumers
  <2>5. ASSUME NEW i \in Informers, NEW k \in Keys, HandlerSubmit(i, k)
        PROVE  Service!Next
    BY <2>5, SubmitMaps
  <2>6. ASSUME NEW w \in Workers, WorkerFinish(w)
        PROVE  Service!Next
    BY <2>6, FinishMaps DEF Accepted
  <2>7. ASSUME NEW e \in sending, SendOpen(e)
        PROVE  Service!Next
    BY <2>7, SendMaps
  <2>8. CASE WatcherStep
    BY <2>1, <2>8, WatcherStepFrame DEF consumers
  <2>9. QED
    BY <2>2, <2>3, <2>4, <2>5, <2>6, <2>7, <2>8, StepCases, DebouncerMaps,
       ReceiveMaps, ExitMaps, MainMaps
<1>3. PipelineSpec => []ServiceInv
  BY RunsADebouncer, PipelineTypeCorrect, WakeupInductive, OrderInductive,
     NoDuplicates, HushedInductive, DeliveryInductive, EmptiedInductive, PTL
     DEF ServiceInv
<1>4. QED
  BY <1>1, <1>2, <1>3, PTL DEF PipelineSpec, NotifierSpec, Service!Spec

=============================================================================
