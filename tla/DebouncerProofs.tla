-------------------------- MODULE DebouncerProofs --------------------------
(***************************************************************************)
(* The debouncer's invariants for all keys, windows, capacities and any    *)
(* number of timers and submissions, and the proof that it implements the  *)
(* coalescer.                                                              *)
(***************************************************************************)
EXTENDS Debouncer, SequenceTheorems, TLAPS

\* Everything that has left the maps.
Out == sending \cup Queued \cup received \cup dropped

\* d.timers and d.pending have the same keys, and the closure of a timer that
\* d.timers holds was made for its key.
MapsAgree ==
  \A k \in Keys :
    /\ timers[k] = NoTimer <=> pending[k] = 0
    /\ timers[k] # NoTimer => owner[timers[k]] = k

\* An event in Out is not newer than the last submission, and older than the
\* event that waits.
OutIsOlder ==
  \A k \in Keys : \A n \in 1..MaxSubmits :
    <<k, n>> \in Out => n <= submitted[k] /\ (pending[k] # 0 => n < pending[k])

----------------------------------------------------------------------------
\* Type correctness: the debouncer's maps, timers and channel keep their shape.
THEOREM TypeCorrect == Spec => []TypeOK
<1>1. Init => TypeOK
  BY DebouncerAssumption DEF Init, TypeOK, Off, Events
<1>2. TypeOK /\ [Next]_debouncerVars => TypeOK'
  <2> SUFFICES ASSUME TypeOK, [Next]_debouncerVars PROVE TypeOK'
    OBVIOUS
  <2> USE DebouncerAssumption DEF TypeOK
  <2>1. ASSUME NEW k \in Keys, Submit(k) PROVE TypeOK'
    <3>1. submitted[k] + 1 \in 0..MaxSubmits
      BY <2>1 DEF Submit
    <3>2. CASE ResetTimer(k)
      BY <2>1, <3>1, <3>2 DEF Submit, ResetTimer, channelVars
    <3>3. CASE StartTimer(k)
      BY <2>1, <3>1, <3>3 DEF Submit, StartTimer, channelVars
    <3>4. QED
      BY <2>1, <3>2, <3>3 DEF Submit
  <2>2. ASSUME NEW t \in Timers, Fire(t) PROVE TypeOK'
    BY <2>2 DEF Fire, mapVars, channelVars
  <2>3. ASSUME NEW k \in Keys, EmitTake(k) PROVE TypeOK'
    <3>1. pending[k] # 0 => <<k, pending[k]>> \in Events
      BY DEF Events
    <3>2. spawned' \in [Keys -> Nat]
      BY <2>3 DEF EmitTake
    <3>3. sending' \subseteq Events
      BY <2>3, <3>1 DEF EmitTake
    <3>4. pending' \in [Keys -> 0..MaxSubmits]
      BY <2>3 DEF EmitTake
    <3>5. timers' \in [Keys -> Timers \cup {NoTimer}]
      BY <2>3 DEF EmitTake
    <3>6. UNCHANGED <<submitted, left, owner, queue, received, dropped,
                      cancelled>>
      BY <2>3 DEF EmitTake
    <3>7. QED
      BY <3>2, <3>3, <3>4, <3>5, <3>6
  <2>4. ASSUME NEW e \in sending, EmitSend(e) PROVE TypeOK'
    <3>1. e \in Events /\ sending' \subseteq Events
      BY <2>4 DEF EmitSend
    <3>2. queue' \in Seq(Events) /\ dropped' \subseteq Events
      <4>1. CASE queue' = Append(queue, e) /\ UNCHANGED dropped
        BY <3>1, <4>1, AppendProperties
      <4>2. CASE dropped' = dropped \cup {e} /\ UNCHANGED queue
        BY <3>1, <4>2
      <4>3. QED
        BY <2>4, <4>1, <4>2 DEF EmitSend
    <3>3. UNCHANGED <<submitted, pending, timers, left, owner, spawned, received,
                      cancelled>>
      BY <2>4 DEF EmitSend, mapVars, runtimeVars
    <3>4. QED
      BY <3>1, <3>2, <3>3
  <2>5. CASE Stop
    <3>1. PendingEvents \subseteq Events
      BY DEF PendingEvents, Events
    <3>2. cancelled' \subseteq Events
      BY <2>5, <3>1 DEF Stop
    <3>3. QED
      BY <2>5, <3>2 DEF Stop, channelVars, Off
  <2>6. CASE Tick
    BY <2>6 DEF Tick, mapVars, channelVars, Off
  <2>7. CASE Receive
    BY <2>7 DEF Receive, mapVars, runtimeVars
  <2>8. CASE UNCHANGED debouncerVars
    BY <2>8 DEF debouncerVars
  <2>9. QED
    BY <2>1, <2>2, <2>3, <2>4, <2>5, <2>6, <2>7, <2>8 DEF Next
<1>3. QED
  BY <1>1, <1>2, PTL DEF Spec

----------------------------------------------------------------------------
\* What a send does to the set of queued events.
LEMMA QueuedAppend ==
  ASSUME NEW S, NEW q \in Seq(S), NEW e \in S
  PROVE  {Append(q, e)[i] : i \in 1..Len(Append(q, e))}
           = {q[i] : i \in 1..Len(q)} \cup {e}
<1>1. Len(Append(q, e)) = Len(q) + 1 /\ Len(q) \in Nat
  BY AppendProperties
<1>2. \A i \in 1..Len(q) : Append(q, e)[i] = q[i]
  BY AppendProperties
<1>3. Append(q, e)[Len(q) + 1] = e
  BY AppendProperties
<1>4. QED
  BY <1>1, <1>2, <1>3

\* What a receive does to it.
LEMMA QueuedTail ==
  ASSUME NEW S, NEW q \in Seq(S), q # <<>>
  PROVE  /\ Head(q) \in S
         /\ Tail(q) \in Seq(S)
         /\ Len(Tail(q)) = Len(q) - 1
         /\ \A i \in 1..(Len(q) - 1) : Tail(q)[i] = q[i + 1]
         /\ {q[i] : i \in 1..Len(q)}
              = {Tail(q)[i] : i \in 1..Len(Tail(q))} \cup {Head(q)}
<1>1. /\ Head(q) \in S /\ Tail(q) \in Seq(S) /\ Head(q) = q[1]
      /\ Len(Tail(q)) = Len(q) - 1 /\ Len(q) \in Nat /\ Len(q) > 0
  BY HeadTailProperties, EmptySeq, LenProperties
<1>2. \A i \in 1..(Len(q) - 1) : Tail(q)[i] = q[i + 1]
  BY <1>1
<1>3. ASSUME NEW i \in 1..Len(q)
      PROVE  q[i] \in {Tail(q)[j] : j \in 1..Len(Tail(q))} \cup {Head(q)}
  <2>1. CASE i = 1
    BY <1>1, <2>1
  <2>2. CASE i # 1
    <3>1. i - 1 \in 1..(Len(q) - 1) /\ q[i] = Tail(q)[i - 1]
      BY <1>1, <1>2, <2>2
    <3>2. QED
      BY <1>1, <3>1
  <2>3. QED
    BY <2>1, <2>2
<1>4. ASSUME NEW i \in 1..Len(Tail(q))
      PROVE  Tail(q)[i] \in {q[j] : j \in 1..Len(q)}
  BY <1>1, <1>2
<1>5. Head(q) \in {q[j] : j \in 1..Len(q)}
  BY <1>1
<1>6. QED
  BY <1>1, <1>2, <1>3, <1>4, <1>5

\* EmitSend only moves its event, into the channel or out of the system.
LEMMA SendMoves ==
  ASSUME TypeOK, NEW e \in sending, EmitSend(e)
  PROVE  /\ Out' = Out
         /\ sending' = sending \ {e}
         /\ \/ /\ queue' = Append(queue, e) /\ Queued' = Queued \cup {e}
               /\ dropped' = dropped
            \/ /\ queue' = queue /\ Queued' = Queued
               /\ dropped' = dropped \cup {e}
         /\ received' = received
<1>1. e \in Events /\ queue \in Seq(Events)
  BY DEF TypeOK
<1>2. sending' = sending \ {e} /\ received' = received
  BY DEF EmitSend
<1>3. CASE queue' = Append(queue, e) /\ UNCHANGED dropped
  <2>1. Queued' = Queued \cup {e}
    BY <1>1, <1>3, QueuedAppend DEF Queued
  <2>2. QED
    BY <1>2, <1>3, <2>1 DEF Out
<1>4. CASE dropped' = dropped \cup {e} /\ UNCHANGED queue
  BY <1>2, <1>4 DEF Out, Queued
<1>5. QED
  BY <1>3, <1>4 DEF EmitSend

\* Receive moves the oldest queued event to the consumer.
LEMMA ReceiveMoves ==
  ASSUME TypeOK, Receive
  PROVE  /\ Out' = Out
         /\ sending' = sending /\ dropped' = dropped
         /\ Queued = Queued' \cup {Head(queue)}
         /\ received' = received \cup {Head(queue)}
<1>1. queue \in Seq(Events) /\ queue # <<>> /\ queue' = Tail(queue)
  BY DEF TypeOK, Receive
<1>2. Queued = Queued' \cup {Head(queue)}
  BY <1>1, QueuedTail DEF Queued
<1>3. QED
  BY <1>2 DEF Receive, Out

\* Only EmitTake changes the set of events that have left the maps.
LEMMA OutSteps ==
  ASSUME TypeOK, [Next]_debouncerVars
  PROVE  \/ Out' = Out
         \/ \E k \in Keys : /\ EmitTake(k) /\ pending[k] # 0
                            /\ Out' = Out \cup {<<k, pending[k]>>}
<1>1. ASSUME NEW k \in Keys, EmitTake(k)
      PROVE  \/ Out' = Out
             \/ pending[k] # 0 /\ Out' = Out \cup {<<k, pending[k]>>}
  BY <1>1 DEF EmitTake, Out, Queued
<1>2. ASSUME NEW k \in Keys, Submit(k) PROVE Out' = Out
  BY <1>2 DEF Submit, Out, Queued, channelVars
<1>3. ASSUME NEW t \in Timers, Fire(t) PROVE Out' = Out
  BY <1>3 DEF Fire, Out, Queued, channelVars
<1>4. CASE Stop \/ Tick
  BY <1>4 DEF Stop, Tick, Out, Queued, channelVars
<1>5. CASE UNCHANGED debouncerVars
  BY <1>5 DEF debouncerVars, Out, Queued
<1>6. QED
  BY <1>1, <1>2, <1>3, <1>4, <1>5, SendMoves, ReceiveMoves DEF Next

----------------------------------------------------------------------------
\* The maps agree and every waiting event has its wakeup.
Wakeup == MapsAgree /\ PendingWillBeEmitted

LEMMA WakeupInductive == Spec => []Wakeup
<1>1. Init => Wakeup
  BY DebouncerAssumption DEF Init, Wakeup, MapsAgree, PendingWillBeEmitted
<1>2. TypeOK /\ Wakeup /\ [Next]_debouncerVars => Wakeup'
  <2> SUFFICES ASSUME TypeOK, Wakeup, [Next]_debouncerVars PROVE Wakeup'
    OBVIOUS
  <2> USE DebouncerAssumption
      DEF TypeOK, Wakeup, MapsAgree, PendingWillBeEmitted, Off
  <2>1. ASSUME NEW k \in Keys, Submit(k) PROVE Wakeup'
    <3>1. /\ pending'[k] # 0
          /\ \A j \in Keys \ {k} : pending'[j] = pending[j]
          /\ spawned' = spawned
      BY <2>1 DEF Submit
    <3>2. CASE ResetTimer(k)
      BY <3>1, <3>2 DEF ResetTimer
    <3>3. CASE StartTimer(k)
      <4>1. PICK t \in Timers : /\ Unused(t)
                                /\ timers' = [timers EXCEPT ![k] = t]
                                /\ left' = [left EXCEPT ![t] = Window]
                                /\ owner' = [owner EXCEPT ![t] = k]
        BY <3>3 DEF StartTimer
      <4>2. \A j \in Keys : timers[j] # t
        BY <4>1 DEF Unused
      <4>3. ASSUME NEW j \in Keys, j # k
            PROVE  /\ timers'[j] = timers[j] /\ timers[j] # t
                   /\ timers[j] # NoTimer => /\ owner'[timers[j]] = owner[timers[j]]
                                             /\ left'[timers[j]] = left[timers[j]]
        BY <4>1, <4>2, <4>3
      <4>4. timers'[k] = t /\ t # NoTimer /\ owner'[t] = k /\ left'[t] = Window
        BY <4>1
      <4>5. ASSUME NEW j \in Keys
            PROVE  /\ timers'[j] = NoTimer <=> pending'[j] = 0
                   /\ timers'[j] # NoTimer => owner'[timers'[j]] = j
                   /\ pending'[j] # 0 => left'[timers'[j]] # -1 \/ spawned'[j] > 0
        <5>1. CASE j = k
          BY <3>1, <4>4, <5>1
        <5>2. CASE j # k
          BY <3>1, <4>3, <5>2
        <5>3. QED
          BY <5>1, <5>2
      <4>6. QED
        BY <4>5
    <3>4. QED
      BY <2>1, <3>2, <3>3 DEF Submit
  <2>2. ASSUME NEW t \in Timers, Fire(t) PROVE Wakeup'
    BY <2>2 DEF Fire, mapVars
  <2>3. ASSUME NEW k \in Keys, EmitTake(k) PROVE Wakeup'
    BY <2>3 DEF EmitTake
  <2>4. ASSUME NEW e \in sending, EmitSend(e) PROVE Wakeup'
    BY <2>4 DEF EmitSend, mapVars, runtimeVars
  <2>5. CASE Stop
    BY <2>5 DEF Stop
  <2>6. CASE Tick
    BY <2>6 DEF Tick, mapVars
  <2>7. CASE Receive
    BY <2>7 DEF Receive, mapVars, runtimeVars
  <2>8. CASE UNCHANGED debouncerVars
    BY <2>8 DEF debouncerVars
  <2>9. QED
    BY <2>1, <2>2, <2>3, <2>4, <2>5, <2>6, <2>7, <2>8 DEF Next
<1>3. QED
  BY <1>1, <1>2, TypeCorrect, PTL DEF Spec

\* No wakeup is lost (PendingWillBeEmitted), however Submit, the expiry of
\* timers that were reset or orphaned, emit and Stop interleave.
THEOREM WakeupNeverLost == Spec => []PendingWillBeEmitted
<1>1. Wakeup => PendingWillBeEmitted
  BY DEF Wakeup
<1>2. QED
  BY <1>1, WakeupInductive, PTL

\* Emission order under d.mu: only the newest event waits, and what has left is
\* older than what waits.
Order == OutIsOlder /\ NewestWaits

LEMMA OrderInductive == Spec => []Order
<1>1. Init => Order
  BY DEF Init, Order, OutIsOlder, NewestWaits, Out, Queued
<1>2. TypeOK /\ Order /\ [Next]_debouncerVars => Order'
  <2> SUFFICES ASSUME TypeOK, Order, [Next]_debouncerVars PROVE Order'
    OBVIOUS
  <2>1. \A k \in Keys : pending[k] # 0 => pending[k] = submitted[k]
    BY DEF Order, NewestWaits
  <2>2. ASSUME NEW k \in Keys, NEW n \in 1..MaxSubmits, <<k, n>> \in Out
        PROVE  n <= submitted[k] /\ (pending[k] # 0 => n < pending[k])
    BY <2>2 DEF Order, OutIsOlder
  <2>3. ASSUME NEW k \in Keys, Submit(k) PROVE Order'
    <3>1. Out' = Out
      BY <2>3 DEF Submit, channelVars, Out, Queued
    <3>2. /\ submitted' = [submitted EXCEPT ![k] = submitted[k] + 1]
          /\ pending' = [pending EXCEPT ![k] = submitted[k] + 1]
      BY <2>3 DEF Submit
    <3>3. QED
      BY <2>1, <2>2, <3>1, <3>2, DebouncerAssumption
      DEF TypeOK, Order, OutIsOlder, NewestWaits, Out
  <2>4. ASSUME NEW k \in Keys, EmitTake(k), pending[k] # 0,
               Out' = Out \cup {<<k, pending[k]>>}
        PROVE  Order'
    <3>1. pending' = [pending EXCEPT ![k] = 0] /\ submitted' = submitted
      BY <2>4 DEF EmitTake
    <3>2. QED
      BY <2>1, <2>2, <2>4, <3>1, DebouncerAssumption
      DEF TypeOK, Order, OutIsOlder, NewestWaits, Out
  <2>5. ASSUME Out' = Out, submitted' = submitted,
               \A k \in Keys : pending'[k] \in {pending[k], 0}
        PROVE  Order'
    BY <2>1, <2>2, <2>5 DEF Order, OutIsOlder, NewestWaits, Out
  <2>6. \/ \E k \in Keys : Submit(k)
        \/ /\ submitted' = submitted
           /\ \A k \in Keys : pending'[k] \in {pending[k], 0}
    <3>1. ASSUME NEW t \in Timers, Fire(t)
          PROVE submitted' = submitted /\ pending' = pending
      BY <3>1 DEF Fire, mapVars
    <3>2. ASSUME NEW k \in Keys, EmitTake(k)
          PROVE /\ submitted' = submitted
                /\ \A j \in Keys : pending'[j] \in {pending[j], 0}
      BY <3>2 DEF EmitTake, TypeOK
    <3>3. ASSUME NEW e \in sending, EmitSend(e)
          PROVE submitted' = submitted /\ pending' = pending
      BY <3>3 DEF EmitSend, mapVars
    <3>4. CASE Stop
      BY <3>4 DEF Stop
    <3>5. CASE Tick \/ Receive \/ UNCHANGED debouncerVars
      BY <3>5 DEF Tick, Receive, debouncerVars, mapVars
    <3>6. QED
      BY <3>1, <3>2, <3>3, <3>4, <3>5 DEF Next
  <2>7. QED
    BY <2>3, <2>4, <2>5, <2>6, OutSteps
<1>3. QED
  BY <1>1, <1>2, TypeCorrect, PTL DEF Spec

\* Only the newest event of a key ever waits, and nothing older than an event
\* already on its way is emitted after it (NewestWaits).
THEOREM NewestOnly == Spec => []NewestWaits
<1>1. Order => NewestWaits
  BY DEF Order
<1>2. QED
  BY <1>1, OrderInductive, PTL

----------------------------------------------------------------------------
\* An event that waits has not left yet.
LEMMA WaitingIsNotOut == TypeOK /\ Order => PendingEvents \cap Out = {}
  BY DEF TypeOK, Order, OutIsOlder, PendingEvents, Out, Events

\* An event leaves the debouncer once and is in one place only (EmittedOnce).
THEOREM NoDuplicates == Spec => []EmittedOnce
<1> DEFINE Distinct == \A i, j \in 1..Len(queue) : queue[i] = queue[j] => i = j
           Apart == /\ sending \cap (Queued \cup received \cup dropped) = {}
                    /\ Queued \cap (received \cup dropped) = {}
                    /\ received \cap dropped = {}
<1>1. Init => EmittedOnce
  BY DEF Init, EmittedOnce, Queued, PendingEvents
<1>2. TypeOK /\ Order /\ TypeOK' /\ Order' /\ EmittedOnce /\ [Next]_debouncerVars
        => EmittedOnce'
  <2> SUFFICES ASSUME TypeOK, Order, TypeOK', Order', EmittedOnce,
                      [Next]_debouncerVars
               PROVE  EmittedOnce'
    OBVIOUS
  <2>1. Distinct /\ Apart
    BY DEF EmittedOnce
  <2>2. (PendingEvents \cap Out = {})'
    BY WaitingIsNotOut, PTL
  <2>3. SUFFICES Distinct' /\ Apart'
    BY <2>2, <2>3 DEF EmittedOnce, Out
  <2>4. ASSUME UNCHANGED <<sending, queue, received, dropped>>
        PROVE  Distinct' /\ Apart'
    BY <2>1, <2>4 DEF Queued
  <2>5. ASSUME NEW k \in Keys, EmitTake(k) PROVE Distinct' /\ Apart'
    <3>1. queue' = queue /\ received' = received /\ dropped' = dropped
      BY <2>5 DEF EmitTake
    <3>2. Queued' = Queued
      BY <3>1 DEF Queued
    <3>3. pending[k] # 0 => <<k, pending[k]>> \notin Out
      BY WaitingIsNotOut DEF PendingEvents
    <3>4. Apart'
      BY <2>1, <2>5, <3>1, <3>2, <3>3 DEF EmitTake, Out
    <3>5. QED
      BY <2>1, <3>1, <3>4
  <2>6. ASSUME NEW e \in sending, EmitSend(e) PROVE Distinct' /\ Apart'
    <3>1. e \notin Queued
      BY <2>1
    <3>2. Apart'
      BY <2>1, <2>6, SendMoves
    <3>3. CASE queue' = Append(queue, e)
      <4>1. queue \in Seq(Events) /\ e \in Events
        BY DEF TypeOK
      <4>2. /\ Len(queue') = Len(queue) + 1 /\ Len(queue) \in Nat
            /\ \A i \in 1..Len(queue) : queue'[i] = queue[i]
            /\ queue'[Len(queue) + 1] = e
        BY <3>3, <4>1, AppendProperties
      <4>3. \A i \in 1..Len(queue) : queue[i] # e
        BY <3>1 DEF Queued
      <4>4. QED
        BY <2>1, <3>2, <4>2, <4>3
    <3>4. CASE queue' = queue
      BY <2>1, <3>2, <3>4
    <3>5. QED
      BY <2>6, <3>3, <3>4, SendMoves
  <2>7. CASE Receive
    <3>1. queue \in Seq(Events) /\ queue # <<>> /\ queue' = Tail(queue)
      BY <2>7 DEF TypeOK, Receive
    <3>2. /\ Len(queue') = Len(queue) - 1 /\ Len(queue) \in Nat /\ Len(queue) > 0
          /\ \A i \in 1..(Len(queue) - 1) : queue'[i] = queue[i + 1]
          /\ Head(queue) = queue[1]
      BY <3>1, QueuedTail, HeadTailProperties, EmptySeq, LenProperties
    <3>3. Distinct'
      BY <2>1, <3>2
    <3>4. Head(queue) \notin Queued' /\ Head(queue) \in Queued
      <4>1. \A i \in 1..(Len(queue) - 1) : queue'[i] # Head(queue)
        BY <2>1, <3>2
      <4>2. QED
        BY <3>2, <4>1 DEF Queued
    <3>5. Apart'
      BY <2>1, <2>7, <3>4, ReceiveMoves
    <3>6. QED
      BY <3>3, <3>5
  <2>8. QED
    <3>1. ASSUME NEW k \in Keys, Submit(k)
          PROVE UNCHANGED <<sending, queue, received, dropped>>
      BY <3>1 DEF Submit, channelVars
    <3>2. ASSUME NEW t \in Timers, Fire(t)
          PROVE UNCHANGED <<sending, queue, received, dropped>>
      BY <3>2 DEF Fire, channelVars
    <3>3. CASE Stop \/ Tick \/ UNCHANGED debouncerVars
      BY <2>4, <3>3 DEF Stop, Tick, channelVars, debouncerVars
    <3>4. QED
      BY <2>4, <2>5, <2>6, <2>7, <3>1, <3>2, <3>3 DEF Next
<1>3. QED
  BY <1>1, <1>2, TypeCorrect, OrderInductive, PTL DEF Spec

\* The newest event of every key is accounted for (NewestNeverLost): only a full
\* channel or Stop discards it.
THEOREM NothingLost == Spec => []NewestNeverLost
<1> DEFINE Place == PendingEvents \cup Out \cup cancelled
<1>1. Init => NewestNeverLost
  BY DEF Init, NewestNeverLost
<1>2. TypeOK /\ Wakeup /\ NewestNeverLost /\ [Next]_debouncerVars => NewestNeverLost'
  <2> SUFFICES ASSUME TypeOK, Wakeup, NewestNeverLost, [Next]_debouncerVars
               PROVE  NewestNeverLost'
    OBVIOUS
  <2>1. \A k \in Keys : submitted[k] # 0 => <<k, submitted[k]>> \in Place
    BY DEF NewestNeverLost, Out
  <2>2. SUFFICES ASSUME NEW k \in Keys, submitted'[k] # 0
                 PROVE  <<k, submitted'[k]>> \in Place'
    BY DEF NewestNeverLost, Out
  <2>3. ASSUME NEW j \in Keys, Submit(j) PROVE <<k, submitted'[k]>> \in Place'
    <3>1. Out' = Out /\ cancelled' = cancelled
      BY <2>3 DEF Submit, channelVars, Out, Queued
    <3>2. /\ submitted' = [submitted EXCEPT ![j] = submitted[j] + 1]
          /\ pending' = [pending EXCEPT ![j] = submitted[j] + 1]
      BY <2>3 DEF Submit
    <3>3. CASE k = j
      BY <2>2, <3>2, <3>3 DEF TypeOK, PendingEvents
    <3>4. CASE k # j
      BY <2>1, <2>2, <3>1, <3>2, <3>4 DEF TypeOK, PendingEvents
    <3>5. QED
      BY <3>3, <3>4
  <2>4. ASSUME NEW j \in Keys, EmitTake(j) PROVE <<k, submitted'[k]>> \in Place'
    <3>1. /\ submitted' = submitted /\ cancelled' = cancelled
          /\ pending' = [pending EXCEPT ![j] = 0]
          /\ pending[j] # 0 => Out' = Out \cup {<<j, pending[j]>>}
          /\ pending[j] = 0 => Out' = Out
      BY <2>4 DEF EmitTake, Out, Queued
    <3>2. PendingEvents \cup Out \subseteq PendingEvents' \cup Out'
      BY <3>1 DEF TypeOK, PendingEvents
    <3>3. QED
      BY <2>1, <2>2, <3>1, <3>2
  <2>5. CASE Stop
    <3>1. submitted' = submitted /\ Out' = Out
      BY <2>5 DEF Stop, channelVars, Out, Queued
    <3>2. cancelled' = cancelled \cup PendingEvents
      BY <2>5 DEF Stop, Wakeup, MapsAgree, PendingEvents
    <3>3. QED
      BY <2>1, <2>2, <3>1, <3>2
  <2>6. ASSUME UNCHANGED <<submitted, pending, cancelled>>, Out' = Out
        PROVE  <<k, submitted'[k]>> \in Place'
    BY <2>1, <2>2, <2>6 DEF PendingEvents
  <2>7. QED
    <3>1. ASSUME NEW t \in Timers, Fire(t)
          PROVE UNCHANGED <<submitted, pending, cancelled>> /\ Out' = Out
      BY <3>1 DEF Fire, mapVars, channelVars, Out, Queued
    <3>2. ASSUME NEW e \in sending, EmitSend(e)
          PROVE UNCHANGED <<submitted, pending, cancelled>> /\ Out' = Out
      BY <3>2, SendMoves DEF EmitSend, mapVars
    <3>3. CASE Receive
      BY <2>6, <3>3, ReceiveMoves DEF Receive, mapVars
    <3>4. CASE Tick \/ UNCHANGED debouncerVars
      BY <2>6, <3>4 DEF Tick, mapVars, channelVars, debouncerVars, Out, Queued
    <3>5. QED
      BY <2>3, <2>4, <2>5, <2>6, <3>1, <3>2, <3>3, <3>4 DEF Next
<1>3. QED
  BY <1>1, <1>2, WakeupInductive, TypeCorrect, PTL DEF Spec

----------------------------------------------------------------------------
\* The debouncer, with its timers, its lock and its goroutines, implements the
\* coalescer: every step is a submission, the release of the newest event, the
\* cancellation of all, or invisible.
THEOREM ImplementsCoalescer == Spec => CoalescerSpec
<1>1. Init => Promise!Init
  BY DEF Init, Promise!Init, Queued
<1>2. TypeOK /\ Wakeup /\ Order /\ [Next]_debouncerVars
        => [Promise!Next]_(Promise!vars)
  <2> SUFFICES ASSUME TypeOK, Wakeup, Order, [Next]_debouncerVars
               PROVE  [Promise!Next]_(Promise!vars)
    OBVIOUS
  <2>1. ASSUME NEW k \in Keys, Submit(k) PROVE Promise!Submit(k)
    BY <2>1 DEF Submit, channelVars, Queued, Promise!Submit
  <2>2. ASSUME NEW k \in Keys, EmitTake(k), pending[k] # 0,
               Out' = Out \cup {<<k, pending[k]>>}
        PROVE  Promise!Release(k)
    <3>1. <<k, pending[k]>> \notin Out /\ pending[k] = submitted[k]
      BY <2>2, WaitingIsNotOut DEF PendingEvents, Order, NewestWaits
    <3>2. QED
      BY <2>2, <3>1 DEF EmitTake, Promise!Release, Out
  <2>3. CASE Stop
    <3>1. pending' = [k \in Keys |-> 0]
      BY <2>3 DEF Stop, Wakeup, MapsAgree
    <3>2. Promise!CancelAll
      BY <2>3, <3>1 DEF Stop, channelVars, Queued, Promise!CancelAll
    <3>3. QED
      BY <3>2 DEF Promise!Next
  <2>4. ASSUME Out' = Out, UNCHANGED <<submitted, pending>>
        PROVE  UNCHANGED Promise!vars
    BY <2>4 DEF Out, Promise!vars
  <2>5. \/ \E k \in Keys : Submit(k) \/ (EmitTake(k) /\ pending[k] # 0)
        \/ Stop
        \/ UNCHANGED <<submitted, pending>>
    <3>1. ASSUME NEW k \in Keys, EmitTake(k), pending[k] = 0
          PROVE  UNCHANGED <<submitted, pending>>
      BY <3>1 DEF EmitTake, TypeOK
    <3>2. ASSUME NEW t \in Timers, Fire(t) PROVE UNCHANGED <<submitted, pending>>
      BY <3>2 DEF Fire, mapVars
    <3>3. ASSUME NEW e \in sending, EmitSend(e)
          PROVE UNCHANGED <<submitted, pending>>
      BY <3>3 DEF EmitSend, mapVars
    <3>4. CASE Tick \/ Receive \/ UNCHANGED debouncerVars
      BY <3>4 DEF Tick, Receive, mapVars, debouncerVars
    <3>5. QED
      BY <3>1, <3>2, <3>3, <3>4 DEF Next
  <2>6. ASSUME NEW k \in Keys, EmitTake(k), pending[k] # 0
        PROVE  Out' = Out \cup {<<k, pending[k]>>}
    BY <2>6 DEF EmitTake, Out, Queued
  <2>7. CASE UNCHANGED <<submitted, pending>>
    <3>1. CASE Out' = Out
      BY <2>4, <2>7, <3>1
    <3>2. ASSUME NEW k \in Keys, EmitTake(k), pending[k] # 0,
                 Out' = Out \cup {<<k, pending[k]>>}
          PROVE  Promise!Next
      BY <2>2, <3>2 DEF Promise!Next
    <3>3. QED
      BY <3>1, <3>2, OutSteps
  <2>8. QED
    BY <2>1, <2>2, <2>3, <2>5, <2>6, <2>7 DEF Promise!Next
<1>3. QED
  BY <1>1, <1>2, TypeCorrect, WakeupInductive, OrderInductive, PTL
  DEF Spec, CoalescerSpec, Promise!Spec
=============================================================================
