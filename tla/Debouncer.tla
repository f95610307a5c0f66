----------------------------- MODULE Debouncer -----------------------------
(***************************************************************************)
(* The per-deployment debouncer, internal/watcher/debouncer.go: Submit,    *)
(* the timers of the Go runtime that Submit starts and resets, the emit    *)
(* goroutine each expiry spawns, and Stop.                                 *)
(*                                                                         *)
(* A critical section under d.mu is one action.  emit has two steps, since *)
(* it unlocks before its non-blocking send: between them, and between the  *)
(* expiry of the timer and the lock, other goroutines may run.  A Go timer *)
(* can be reset after it fired: Reset then arms it again while the         *)
(* goroutine of the first expiry is still to run.                          *)
(*                                                                         *)
(* An event is <<key, n>>, the n-th submitted for its key.                 *)
(***************************************************************************)
EXTENDS Integers, Sequences, FiniteSets

CONSTANTS
  Keys,       \* deployment keys "clusterID/namespace/name"
  Timers,     \* bound: time.Timer objects alive at once
  NoTimer,    \* no entry in d.timers
  Window,     \* d.window, in ticks
  Capacity,   \* capacity of the out channel (QUEUE_MAX_SIZE)
  MaxSubmits  \* bound: submissions per key

ASSUME DebouncerAssumption ==
  /\ NoTimer \notin Timers
  /\ Window \in Nat \ {0}
  /\ Capacity \in Nat \ {0}
  /\ MaxSubmits \in Nat

VARIABLES
  submitted,  \* history: [Keys -> number of submissions]
  pending,    \* d.pending: [Keys -> event number, 0 for no entry]
  timers,     \* d.timers: [Keys -> Timers or NoTimer]
  left,       \* ticks until the timer expires, Off when it is not armed
  owner,      \* the key in the closure given to time.AfterFunc
  spawned,    \* [Keys -> emit goroutines that have not locked d.mu yet]
  sending,    \* events taken by emit goroutines that have not sent yet
  queue,      \* the buffer of the out channel
  received,   \* history: events a consumer took from the channel
  dropped,    \* history: events dropped because the channel was full
  cancelled   \* history: events Stop discarded

runtimeVars == <<left, owner, spawned>>
mapVars == <<pending, timers>>
channelVars == <<sending, queue, received, dropped>>
debouncerVars == <<submitted, pending, timers, left, owner, spawned, sending,
                   queue, received, dropped, cancelled>>

Off == -1
Events == Keys \X (1..MaxSubmits)
Queued == {queue[i] : i \in 1..Len(queue)}
PendingEvents == {<<k, pending[k]>> : k \in {x \in Keys : pending[x] # 0}}

TypeOK ==
  /\ submitted \in [Keys -> 0..MaxSubmits]
  /\ pending \in [Keys -> 0..MaxSubmits]
  /\ timers \in [Keys -> Timers \cup {NoTimer}]
  /\ left \in [Timers -> {Off} \cup 0..Window]
  /\ owner \in [Timers -> Keys]
  /\ spawned \in [Keys -> Nat]
  /\ sending \subseteq Events
  /\ queue \in Seq(Events)
  /\ received \subseteq Events
  /\ dropped \subseteq Events
  /\ cancelled \subseteq Events

Init ==
  /\ submitted = [k \in Keys |-> 0]
  /\ pending = [k \in Keys |-> 0]
  /\ timers = [k \in Keys |-> NoTimer]
  /\ left = [t \in Timers |-> Off]
  /\ owner \in {[t \in Timers |-> k] : k \in Keys}
  /\ spawned = [k \in Keys |-> 0]
  /\ sending = {} /\ queue = <<>>
  /\ received = {} /\ dropped = {} /\ cancelled = {}

----------------------------------------------------------------------------
\* A timer object nothing refers to: time.AfterFunc may return it as a new one.
Unused(t) == left[t] = Off /\ \A k \in Keys : timers[k] # t

\* Submit finds a timer for k and resets it, even if it has already fired.
ResetTimer(k) ==
  /\ timers[k] # NoTimer
  /\ left' = [left EXCEPT ![timers[k]] = Window]
  /\ UNCHANGED <<timers, owner>>

\* Mutant of StartTimer: the new timer is not stored in d.timers.
StartTimerUnrecorded(k) ==
  /\ timers[k] = NoTimer
  /\ \E t \in Timers :
       /\ Unused(t)
       /\ left' = [left EXCEPT ![t] = Window]
       /\ owner' = [owner EXCEPT ![t] = k]
  /\ UNCHANGED timers

\* Submit finds no timer for k and starts one.
StartTimer(k) ==
  /\ timers[k] = NoTimer
  /\ \E t \in Timers :
       /\ Unused(t)
       /\ timers' = [timers EXCEPT ![k] = t]
       /\ left' = [left EXCEPT ![t] = Window]
       /\ owner' = [owner EXCEPT ![t] = k]

\* Mutant of Submit: an event that waits is not replaced.
SubmitKeepsFirst(k) ==
  /\ submitted[k] < MaxSubmits
  /\ submitted' = [submitted EXCEPT ![k] = submitted[k] + 1]
  /\ pending' = IF pending[k] # 0 THEN pending
                ELSE [pending EXCEPT ![k] = submitted[k] + 1]
  /\ ResetTimer(k) \/ StartTimer(k)
  /\ UNCHANGED <<spawned, channelVars, cancelled>>

Submit(k) ==
  /\ submitted[k] < MaxSubmits
  /\ submitted' = [submitted EXCEPT ![k] = submitted[k] + 1]
  /\ pending' = [pending EXCEPT ![k] = submitted[k] + 1]
  /\ ResetTimer(k) \/ StartTimer(k)
  /\ UNCHANGED <<spawned, channelVars, cancelled>>

\* An armed timer expires: the runtime starts a goroutine that will call emit.
Fire(t) ==
  /\ left[t] = 0
  /\ left' = [left EXCEPT ![t] = Off]
  /\ spawned' = [spawned EXCEPT ![owner[t]] = spawned[owner[t]] + 1]
  /\ UNCHANGED <<submitted, mapVars, owner, channelVars, cancelled>>

\* Mutant of EmitTake: the entry stays in d.pending.
EmitTakeKeepsPending(k) ==
  /\ spawned[k] > 0
  /\ spawned' = [spawned EXCEPT ![k] = spawned[k] - 1]
  /\ sending' = IF pending[k] = 0 THEN sending
                ELSE sending \cup {<<k, pending[k]>>}
  /\ timers' = [timers EXCEPT ![k] = NoTimer]
  /\ UNCHANGED <<submitted, pending, left, owner, queue, received, dropped,
                 cancelled>>

\* Mutant of EmitTake: no "if !ok return", the zero event is sent too.
EmitTakeUnchecked(k) ==
  /\ spawned[k] > 0
  /\ spawned' = [spawned EXCEPT ![k] = spawned[k] - 1]
  /\ sending' = sending \cup {<<k, pending[k]>>}
  /\ pending' = [pending EXCEPT ![k] = 0]
  /\ timers' = [timers EXCEPT ![k] = NoTimer]
  /\ UNCHANGED <<submitted, left, owner, queue, received, dropped,
                 cancelled>>

\* Mutant of EmitTake: a full channel is noticed under the lock, where the
\* event was removed already.
EmitTakeReturnsWhenFull(k) ==
  /\ spawned[k] > 0
  /\ spawned' = [spawned EXCEPT ![k] = spawned[k] - 1]
  /\ sending' = IF pending[k] = 0 \/ Len(queue) >= Capacity THEN sending
                ELSE sending \cup {<<k, pending[k]>>}
  /\ pending' = [pending EXCEPT ![k] = 0]
  /\ timers' = [timers EXCEPT ![k] = NoTimer]
  /\ UNCHANGED <<submitted, left, owner, queue, received, dropped,
                 cancelled>>

\* emit under d.mu: take the pending event, if any, and forget the timer.
EmitTake(k) ==
  /\ spawned[k] > 0
  /\ spawned' = [spawned EXCEPT ![k] = spawned[k] - 1]
  /\ sending' = IF pending[k] = 0 THEN sending
                ELSE sending \cup {<<k, pending[k]>>}
  /\ pending' = [pending EXCEPT ![k] = 0]
  /\ timers' = [timers EXCEPT ![k] = NoTimer]
  /\ UNCHANGED <<submitted, left, owner, queue, received, dropped,
                 cancelled>>

\* emit after the unlock, on an open channel: send, or drop when it is full.
EmitSend(e) ==
  /\ e \in sending
  /\ sending' = sending \ {e}
  /\ \/ Len(queue) < Capacity /\ queue' = Append(queue, e) /\ UNCHANGED dropped
     \/ Len(queue) >= Capacity /\ dropped' = dropped \cup {e} /\ UNCHANGED queue
  /\ UNCHANGED <<submitted, mapVars, runtimeVars, received, cancelled>>

\* Mutant of Stop: timers are stopped, pending events stay.
StopKeepsPending ==
  /\ left' = [t \in Timers |->
                IF \E k \in Keys : timers[k] = t THEN Off ELSE left[t]]
  /\ timers' = [k \in Keys |-> NoTimer]
  /\ UNCHANGED <<submitted, pending, cancelled, owner, spawned, channelVars>>

\* Stop: stop the timers that d.timers knows and discard what is pending.
Stop ==
  /\ left' = [t \in Timers |->
                IF \E k \in Keys : timers[k] = t THEN Off ELSE left[t]]
  /\ timers' = [k \in Keys |-> NoTimer]
  /\ cancelled' = cancelled \cup
       {e \in PendingEvents : timers[e[1]] # NoTimer}
  /\ pending' = [k \in Keys |-> IF timers[k] = NoTimer THEN pending[k] ELSE 0]
  /\ UNCHANGED <<submitted, owner, spawned, channelVars>>

\* Time passes.  A due timer may stay due: the runtime promises no deadline.
Tick ==
  /\ \E t \in Timers : left[t] > 0
  /\ left' = [t \in Timers |-> IF left[t] > 0 THEN left[t] - 1 ELSE left[t]]
  /\ UNCHANGED <<submitted, mapVars, owner, spawned, channelVars, cancelled>>

\* The consumer behind the channel takes the oldest event (dispatcher.go).
Receive ==
  /\ queue # <<>>
  /\ received' = received \cup {Head(queue)}
  /\ queue' = Tail(queue)
  /\ UNCHANGED <<submitted, mapVars, runtimeVars, sending, dropped,
                 cancelled>>

Next ==
  \/ \E k \in Keys : Submit(k)
  \/ \E t \in Timers : Fire(t)
  \/ \E k \in Keys : EmitTake(k)
  \/ \E e \in sending : EmitSend(e)
  \/ Stop
  \/ Tick
  \/ Receive

Spec == Init /\ [][Next]_debouncerVars

(***************************************************************************)
(* Fairness: timers expire, the Go scheduler runs every goroutine, and the *)
(* consumer keeps receiving.  Submit and Stop are never forced.            *)
(***************************************************************************)
Fairness ==
  /\ WF_debouncerVars(Tick)
  /\ \A t \in Timers : WF_debouncerVars(Fire(t))
  /\ \A k \in Keys : WF_debouncerVars(EmitTake(k))
  /\ \A e \in Events : WF_debouncerVars(EmitSend(e))
  /\ WF_debouncerVars(Receive)

FairSpec == Spec /\ Fairness

----------------------------------------------------------------------------
\* No wakeup is lost: an event that waits has an armed timer of its own in
\* d.timers, or an emit goroutine on its way to the lock, even when the timer
\* was reset after it fired and when an orphaned timer of an earlier burst
\* emptied the maps (Submit against emit, debouncer.go:35-58).
PendingWillBeEmitted ==
  \A k \in Keys : pending[k] # 0 =>
    /\ timers[k] # NoTimer
    /\ owner[timers[k]] = k
    /\ left[timers[k]] # Off \/ spawned[k] > 0

\* Only the newest event of a key ever waits or is taken: the events in flight
\* to the channel are older than the one that waits, so a burst never emits an
\* event a later submission replaced (debouncer.go:39, 55-57).
NewestWaits ==
  \A k \in Keys :
    /\ pending[k] # 0 => pending[k] = submitted[k]
    /\ \A n \in 1..MaxSubmits :
         /\ <<k, n>> \in sending \cup Queued \cup received \cup dropped
         /\ pending[k] # 0
         => n < pending[k]

\* An event leaves the debouncer once: it is in one place only, and stands
\* once in the channel, although one timer can start two emit goroutines for
\* the same key (debouncer.go:54-58).
EmittedOnce ==
  /\ \A i, j \in 1..Len(queue) : queue[i] = queue[j] => i = j
  /\ PendingEvents \cap (sending \cup Queued \cup received \cup dropped) = {}
  /\ sending \cap (Queued \cup received \cup dropped) = {}
  /\ Queued \cap (received \cup dropped) = {}
  /\ received \cap dropped = {}

\* The newest event of every key is accounted for: it waits, is on its way, was
\* received, was dropped by a full channel or discarded by Stop, and nothing
\* else can make it disappear (debouncer.go:35-88).
NewestNeverLost ==
  \A k \in Keys : submitted[k] # 0 =>
    <<k, submitted[k]>> \in PendingEvents \cup sending \cup Queued
                             \cup received \cup dropped \cup cancelled

\* Every burst ends in one emission: the newest event of a key is received, or
\* dropped by a full channel, or discarded by Stop, or replaced by a newer one.
BurstIsEmitted ==
  \A k \in Keys : \A n \in 1..MaxSubmits :
    (submitted[k] = n) ~>
      (submitted[k] > n \/ <<k, n>> \in received \cup dropped \cup cancelled)

\* The debouncer implements the timer-free coalescer.
Promise == INSTANCE Coalescer WITH
  waiting <- pending,
  released <- sending \cup Queued \cup received \cup dropped

CoalescerSpec == Promise!Spec
=============================================================================
