------------------------- MODULE AsyncTargetsProofs -------------------------
(* The slots balance, the newest rollout survives and Stop drains, for any     *)
(* number of workers, deployments, events and slots.                           *)
EXTENDS AsyncTargets, FiniteSetTheorems, TLAPS

\* The configuration is a pair that no step changes.
USE DEF config

\* TypeOK without the number of slots: that it never falls below zero is a
\* consequence of the balance.
Shape ==
    /\ mode \in {"investigation", "diagnostic"}
    /\ reporter \in {"webhook", "direct"}
    /\ taken \in [Keys -> 0 .. MaxEvents]
    /\ caller \in [Workers -> Events \cup {NoEvent}]
    /\ step \in [Workers -> {"idle", "called", "superseded", "checked", "acquired"}]
    /\ active \in [Keys -> Events \cup {NoEvent}]
    /\ stage \in [Events -> {"none", "running", "reporting", "reported",
                             "leaving", "cleaned", "ended"}]
    /\ cancelled \in SUBSET Events
    /\ statusCache \in [Keys -> Events \cup {NoEvent}]
    /\ stopping \in {"no", "waiting", "returned"}
    /\ turns \in [Keys -> Nat]
    /\ turn \in [Events -> Nat]

\* An event is with one worker, or its goroutine has started: it was taken once.
Placed ==
    /\ \A w \in Workers : step[w] # "idle" =>
          /\ caller[w] \in Events
          /\ caller[w][2] <= taken[KeyOf(caller[w])]
          /\ stage[caller[w]] = "none"
    /\ \A w, v \in Workers : step[w] # "idle" /\ step[v] # "idle" /\ caller[w] = caller[v] => w = v
    /\ \A e \in Events : stage[e] # "none" => e[2] <= taken[KeyOf(e)]

\* What a step of a goroutine may do: move one event that has started.
LEMMA GoroutineEffect ==
  ASSUME Shape, NEW e \in Events, Goroutine(e)
  PROVE  /\ UNCHANGED <<config, taken, caller, step, cancelled, stopping, turns, turn>>
         /\ stage[e] # "none" /\ stage[e] # "ended"
         /\ stage' \in [Events -> {"running", "reporting", "reported", "leaving",
                                   "cleaned", "ended", "none"}]
         /\ stage'[e] # "none"
         /\ \A f \in Events \ {e} : stage'[f] = stage[f]
         /\ active' \in [Keys -> Events \cup {NoEvent}]
         /\ statusCache' \in [Keys -> Events \cup {NoEvent}]
         /\ \A k \in Keys : active'[k] # NoEvent => active'[k] = active[k]
         /\ stage'[e] = "ended" => slots' = slots - 1 /\ UNCHANGED active /\ stage[e] = "cleaned"
         /\ stage'[e] # "ended" => slots' = slots
         /\ stage'[e] = "cleaned" /\ mode = "investigation" => active'[KeyOf(e)] = NoEvent
<1> USE DEF Shape, Moves, OnlyStage, KeyOf, Events
<1>1. CASE Reports(e)
  BY <1>1 DEF Reports
<1>2. CASE InvestigateFails(e)
  BY <1>2 DEF InvestigateFails
<1>3. CASE PostReport(e)
  BY <1>3 DEF PostReport
<1>4. CASE UpdateStatus(e)
  BY <1>4 DEF UpdateStatus
<1>5. CASE CleanUp(e)
  BY <1>5 DEF CleanUp
<1>6. CASE AnalysisReturns(e)
  BY <1>6 DEF AnalysisReturns
<1>7. CASE Release(e)
  BY <1>7 DEF Release
<1>8. QED
  BY <1>1, <1>2, <1>3, <1>4, <1>5, <1>6, <1>7 DEF Goroutine

\* An idle worker takes the next event of a deployment.
LEMMA CallEffect ==
  ASSUME Shape, Placed, NEW w \in Workers, NEW k \in Keys, Call(w, k)
  PROVE  (Shape /\ Placed)'
<1> USE AsyncAssumption
<1> DEFINE n == <<k, taken[k] + 1>>
<1>1. taken[k] \in 0 .. MaxEvents /\ taken[k] + 1 \in 1 .. MaxEvents
  BY DEF Call, Shape
<1>2. n \in Events /\ KeyOf(n) = k /\ n[2] = taken[k] + 1
  BY <1>1 DEF Events, KeyOf
<1>3. stage[n] = "none"
  BY <1>1, <1>2 DEF Placed
<1>4. \A v \in Workers : step[v] # "idle" => caller[v] # n
  BY <1>1, <1>2 DEF Placed
<1>5. /\ \A v \in Workers : caller'[v] = IF v = w THEN n ELSE caller[v]
      /\ \A v \in Workers \ {w} : step'[v] = step[v]
      /\ \A j \in Keys : taken'[j] = IF j = k THEN taken[k] + 1 ELSE taken[j]
      /\ UNCHANGED <<config, slots, active, stage, cancelled, statusCache, stopping, turns, turn>>
  BY DEF Call, Shape
<1>6. Shape'
  <2>1. taken' \in [Keys -> 0 .. MaxEvents]
    BY <1>1 DEF Call, Shape
  <2>2. caller' \in [Workers -> Events \cup {NoEvent}]
    BY <1>2 DEF Call, Shape
  <2>3. step' \in [Workers -> {"idle", "called", "superseded", "checked", "acquired"}]
    BY DEF Call, Shape
  <2>4. QED
    BY <1>5, <2>1, <2>2, <2>3 DEF Shape
<1>7. \A e \in Events : e[2] \in Nat /\ KeyOf(e) \in Keys
                        /\ taken[KeyOf(e)] <= taken'[KeyOf(e)]
                        /\ taken[KeyOf(e)] \in Nat /\ taken'[KeyOf(e)] \in Nat
  BY <1>1, <1>5 DEF Events, KeyOf, Shape
<1>8. ASSUME NEW v \in Workers, step'[v] # "idle"
      PROVE  caller'[v] \in Events /\ caller'[v][2] <= taken'[KeyOf(caller'[v])]
             /\ stage'[caller'[v]] = "none"
  <2>1. CASE v = w
    BY <1>1, <1>2, <1>3, <1>5, <2>1
  <2>2. CASE v # w
    BY <1>5, <1>7, <1>8, <2>2 DEF Placed
  <2>3. QED
    BY <2>1, <2>2
<1>9. \A v, u \in Workers : step'[v] # "idle" /\ step'[u] # "idle" /\ caller'[v] = caller'[u] => v = u
  BY <1>4, <1>5 DEF Placed
<1>10. \A e \in Events : stage'[e] # "none" => e[2] <= taken'[KeyOf(e)]
  BY <1>5, <1>7 DEF Placed
<1>11. QED
  BY <1>6, <1>8, <1>9, <1>10 DEF Placed

\* The steps of a call, worker by worker.
LEMMA CallsEffect ==
  ASSUME Shape, Placed, NEW w \in Workers, Calls(w)
  PROVE  (Shape /\ Placed)'
<1> USE AsyncAssumption
<1> DEFINE e == caller[w]
<1>1. step[w] # "idle" /\ e \in Events /\ KeyOf(e) \in Keys
      /\ e[2] <= taken[KeyOf(e)] /\ stage[e] = "none"
  BY DEF Calls, Supersede, Check, Acquire, Drop, Start, Placed, Events, KeyOf
<1>2. UNCHANGED <<config, taken, stopping, statusCache>>
  BY DEF Calls, Supersede, Check, Acquire, Drop, Start
<1>3. step' \in [Workers -> {"idle", "called", "superseded", "checked", "acquired"}]
      /\ \A v \in Workers \ {w} : step'[v] = step[v]
  BY DEF Calls, Supersede, Check, Acquire, Drop, Start, Shape
<1>4. caller' \in [Workers -> Events \cup {NoEvent}]
      /\ (\A v \in Workers \ {w} : caller'[v] = caller[v])
      /\ (step'[w] # "idle" => caller'[w] = e)
  BY DEF Calls, Supersede, Check, Acquire, Drop, Start, Shape
<1>5. /\ stage' \in [Events -> {"none", "running", "reporting", "reported",
                                "leaving", "cleaned", "ended"}]
      /\ \A f \in Events \ {e} : stage'[f] = stage[f]
      /\ step'[w] # "idle" => stage'[e] = stage[e]
  BY <1>1 DEF Calls, Supersede, Check, Acquire, Drop, Start, Shape
<1>6. active' \in [Keys -> Events \cup {NoEvent}] /\ cancelled' \in SUBSET Events
  BY <1>1 DEF Calls, Supersede, Check, Acquire, Drop, Start, Shape
<1>7. turns' \in [Keys -> Nat] /\ turn' \in [Events -> Nat]
  <2>1. turns[KeyOf(e)] \in Nat
    BY <1>1 DEF Shape
  <2>2. CASE Supersede(w)
    BY <1>1, <2>1, <2>2 DEF Supersede, Shape
  <2>3. CASE ~Supersede(w)
    BY <2>3 DEF Calls, Check, Acquire, Drop, Start, Shape
  <2>4. QED
    BY <2>2, <2>3
<1>8. Shape'
  BY <1>2, <1>3, <1>4, <1>5, <1>6, <1>7 DEF Shape
<1>9. ASSUME NEW v \in Workers, step'[v] # "idle"
      PROVE  caller'[v] \in Events /\ caller'[v][2] <= taken'[KeyOf(caller'[v])]
             /\ stage'[caller'[v]] = "none"
  <2>1. CASE v = w
    BY <1>1, <1>2, <1>4, <1>5, <1>9, <2>1
  <2>2. CASE v # w
    <3>1. step[v] # "idle" /\ caller'[v] = caller[v]
      BY <1>3, <1>4, <1>9, <2>2
    <3>2. caller[v] # e
      BY <1>1, <2>2, <3>1 DEF Placed
    <3>3. QED
      BY <1>2, <1>5, <3>1, <3>2 DEF Placed
  <2>3. QED
    BY <2>1, <2>2
<1>10. \A v, u \in Workers : step'[v] # "idle" /\ step'[u] # "idle" /\ caller'[v] = caller'[u] => v = u
  BY <1>1, <1>3, <1>4 DEF Placed
<1>11. \A f \in Events : stage'[f] # "none" => f[2] <= taken'[KeyOf(f)]
  BY <1>1, <1>2, <1>5 DEF Placed
<1>12. QED
  BY <1>8, <1>9, <1>10, <1>11 DEF Placed

\* Every event is in one place, and the variables keep their shape.
LEMMA ShapeStep == ASSUME Shape, Placed, [Next]_vars PROVE (Shape /\ Placed)'
<1>1. ASSUME NEW w \in Workers, NEW k \in Keys, Call(w, k) PROVE (Shape /\ Placed)'
  BY <1>1, CallEffect
<1>2. ASSUME NEW w \in Workers, Calls(w) PROVE (Shape /\ Placed)'
  BY <1>2, CallsEffect
<1>3. ASSUME NEW e \in Events, Goroutine(e) PROVE (Shape /\ Placed)'
  <2>1. /\ UNCHANGED <<config, taken, caller, step, cancelled, stopping, turns, turn>>
        /\ stage[e] # "none"
        /\ stage' \in [Events -> {"running", "reporting", "reported", "leaving",
                                  "cleaned", "ended", "none"}]
        /\ \A f \in Events \ {e} : stage'[f] = stage[f]
        /\ active' \in [Keys -> Events \cup {NoEvent}]
        /\ statusCache' \in [Keys -> Events \cup {NoEvent}]
    BY <1>3, GoroutineEffect
  <2>2. Shape'
    BY <2>1 DEF Shape
  <2>3. Placed'
    BY <2>1 DEF Placed
  <2>4. QED
    BY <2>2, <2>3
<1>4. CASE StopBegins \/ StopReturns \/ UNCHANGED vars
  <2>1. UNCHANGED <<config, taken, caller, step, active, stage, cancelled, statusCache, turns, turn>>
        /\ (stopping' = stopping \/ stopping' \in {"waiting", "returned"})
    BY <1>4 DEF StopBegins, StopReturns, vars
  <2>2. QED
    BY <2>1 DEF Shape, Placed
<1>5. QED
  BY <1>1, <1>2, <1>3, <1>4 DEF Next

LEMMA ShapeInit == ASSUME Init PROVE Shape /\ Placed
BY AsyncAssumption DEF Init, Shape, Placed, KeyOf, Events

----------------------------------------------------------------------------
(* The slots *)

Balance == slots = Cardinality(Live) + Cardinality(Acquired) /\ slots <= Slots

\* Events, goroutines and calls are finitely many.
LEMMA Finite ==
  /\ IsFiniteSet(Live) /\ Cardinality(Live) \in Nat
  /\ IsFiniteSet(Acquired) /\ Cardinality(Acquired) \in Nat
<1>1. IsFiniteSet(1 .. MaxEvents)
  BY AsyncAssumption, FS_Interval
<1>2. IsFiniteSet(Events)
  BY <1>1, AsyncAssumption, FS_Product DEF Events
<1>3. Live \in SUBSET Events /\ Acquired \in SUBSET Workers
  BY DEF Live, Acquired
<1>4. IsFiniteSet(Live) /\ IsFiniteSet(Acquired)
  BY <1>2, <1>3, AsyncAssumption, FS_Subset
<1>5. QED
  BY <1>4, FS_CardinalityType

\* A slot is taken with a call, handed to the goroutine, and given back by it.
LEMMA BalanceStep == ASSUME Shape, Placed, Balance, [Next]_vars PROVE Balance'
<1>1. /\ IsFiniteSet(Live) /\ Cardinality(Live) \in Nat
      /\ IsFiniteSet(Acquired) /\ Cardinality(Acquired) \in Nat
      /\ Slots \in Nat /\ slots = Cardinality(Live) + Cardinality(Acquired) /\ slots <= Slots
  BY Finite, AsyncAssumption DEF Balance
<1>2. ASSUME Live' = Live, Acquired' = Acquired, slots' = slots PROVE Balance'
  BY <1>1, <1>2 DEF Balance
<1>3. ASSUME NEW w \in Workers, NEW k \in Keys, Call(w, k) PROVE Balance'
  <2>1. Live' = Live /\ slots' = slots
    BY <1>3 DEF Call, Live
  <2>2. Acquired' = Acquired
    BY <1>3 DEF Call, Acquired, Shape
  <2>3. QED
    BY <1>2, <2>1, <2>2
<1>4. ASSUME NEW w \in Workers, Supersede(w) \/ Check(w) \/ Drop(w) PROVE Balance'
  <2>1. Live' = Live /\ slots' = slots
    BY <1>4 DEF Supersede, Check, Drop, Live
  <2>2. Acquired' = Acquired
    BY <1>4 DEF Supersede, Check, Drop, Acquired, Shape
  <2>3. QED
    BY <1>2, <2>1, <2>2
<1>5. ASSUME NEW w \in Workers, Acquire(w) PROVE Balance'
  <2>1. Live' = Live /\ slots' = slots + 1 /\ slots < Slots
    BY <1>5 DEF Acquire, Live
  <2>2. w \notin Acquired /\ Acquired' = Acquired \cup {w}
    BY <1>5 DEF Acquire, Acquired, Shape
  <2>3. Cardinality(Acquired') = Cardinality(Acquired) + 1
    BY <1>1, <2>2, FS_AddElement
  <2>4. QED
    BY <1>1, <2>1, <2>3 DEF Balance
<1>6. ASSUME NEW w \in Workers, Start(w) PROVE Balance'
  <2>1. caller[w] \in Events /\ stage[caller[w]] = "none" /\ slots' = slots
    BY <1>6 DEF Start, Placed
  <2>2. caller[w] \notin Live /\ Live' = Live \cup {caller[w]}
    BY <1>6, <2>1 DEF Start, Live, Shape
  <2>3. w \in Acquired /\ Acquired' = Acquired \ {w}
    BY <1>6 DEF Start, Acquired, Shape
  <2>4. Cardinality(Live') = Cardinality(Live) + 1
        /\ Cardinality(Acquired') = Cardinality(Acquired) - 1
    BY <1>1, <2>2, <2>3, FS_AddElement, FS_RemoveElement
  <2>5. QED
    BY <1>1, <2>1, <2>4 DEF Balance
<1>7. ASSUME NEW e \in Events, Goroutine(e) PROVE Balance'
  <2>1. /\ step' = step
        /\ e \in Live
        /\ stage'[e] # "none"
        /\ \A f \in Events \ {e} : stage'[f] = stage[f]
        /\ stage'[e] = "ended" => slots' = slots - 1
        /\ stage'[e] # "ended" => slots' = slots
    BY <1>7, GoroutineEffect DEF Live
  <2>2. Acquired' = Acquired
    BY <2>1 DEF Acquired
  <2>3. CASE stage'[e] = "ended"
    <3>1. Live' = Live \ {e}
      BY <2>1, <2>3 DEF Live
    <3>2. Cardinality(Live') = Cardinality(Live) - 1
      BY <1>1, <2>1, <3>1, FS_RemoveElement
    <3>3. QED
      BY <1>1, <2>1, <2>2, <2>3, <3>2 DEF Balance
  <2>4. CASE stage'[e] # "ended"
    <3>1. Live' = Live
      BY <2>1, <2>4 DEF Live
    <3>2. QED
      BY <1>2, <2>1, <2>2, <2>4, <3>1
  <2>5. QED
    BY <2>3, <2>4
<1>8. CASE StopBegins \/ StopReturns \/ UNCHANGED vars
  <2>1. UNCHANGED <<stage, step, slots>>
    BY <1>8 DEF StopBegins, StopReturns, vars
  <2>2. QED
    BY <1>2, <2>1 DEF Live, Acquired
<1>9. QED
  BY <1>3, <1>4, <1>5, <1>6, <1>7, <1>8 DEF Next, Calls

\* The invariant both theorems need.
LEMMA AlwaysBalanced == Spec => [](Shape /\ Placed /\ Balance)
<1>1. Init => Shape /\ Placed /\ Balance
  <2> SUFFICES ASSUME Init PROVE Balance
    BY ShapeInit
  <2>1. Live = {} /\ Acquired = {}
    BY DEF Init, Live, Acquired
  <2>2. QED
    BY <2>1, FS_EmptySet, AsyncAssumption DEF Init, Balance
<1>2. Shape /\ Placed /\ Balance /\ [Next]_vars => (Shape /\ Placed /\ Balance)'
  BY ShapeStep, BalanceStep
<1>3. QED
  BY <1>1, <1>2, PTL DEF Spec

\* Type correctness: in particular, no goroutine gives a slot back twice.
THEOREM TypeCorrect == Spec => []TypeOK
<1>1. Shape /\ Balance => TypeOK
  <2>1. Balance => slots \in Nat
    BY Finite DEF Balance
  <2>2. QED
    BY <2>1 DEF Shape, TypeOK
<1>2. QED
  BY <1>1, AlwaysBalanced, PTL

\* Never more goroutines than slots, and no slot is lost.
THEOREM SlotsAreBalanced == Spec => []SlotsBalance
<1>1. Balance => SlotsBalance
  BY DEF Balance, SlotsBalance
<1>2. QED
  BY <1>1, AlwaysBalanced, PTL

----------------------------------------------------------------------------
(* Who may be cancelled *)

\* The map holds running investigations under their deployment; only what has
\* started is cancelled; no turn is beyond the count.
Entries ==
    /\ \A k \in Keys : active[k] # NoEvent =>
          /\ KeyOf(active[k]) = k
          /\ stage[active[k]] \notin {"none", "cleaned", "ended"}
          /\ mode = "investigation"
    /\ \A e \in cancelled : stage[e] # "none"
    /\ \A e \in Events : turn[e] <= turns[KeyOf(e)]

\* A call at the lock gets the highest turn of its deployment, so that what it
\* cancels has a successor.
LEMMA SupersedeKeeps ==
  ASSUME Shape, Placed, Entries, NewestSurvives, NEW w \in Workers, Supersede(w)
  PROVE  (Entries /\ NewestSurvives)'
<1> USE AsyncAssumption
<1>0. \A f \in Events : KeyOf(f) \in Keys /\ turn[f] \in Nat /\ turns[KeyOf(f)] \in Nat
  BY DEF Shape, Events, KeyOf
<1> DEFINE e == caller[w]
           k == KeyOf(e)
<1>1. e \in Events /\ k \in Keys /\ turns[k] \in Nat /\ stage[e] = "none"
  BY <1>0 DEF Supersede, Placed
<1>2. /\ cancelled' = cancelled \cup ({active[k]} \ {NoEvent})
      /\ \A j \in Keys : active'[j] = IF j = k THEN NoEvent ELSE active[j]
      /\ \A j \in Keys : turns'[j] = IF j = k THEN turns[k] + 1 ELSE turns[j]
      /\ \A f \in Events : turn'[f] = IF f = e THEN turns[k] + 1 ELSE turn[f]
      /\ UNCHANGED <<stage, mode>>
  BY <1>1 DEF Supersede, Shape
<1>3. \A x \in cancelled' : x \in Events /\ stage[x] # "none"
  BY <1>1, <1>2 DEF Entries, Shape
<1>4. Entries'
  <2>1. \A f \in Events : turn'[f] <= turns'[KeyOf(f)]
    BY <1>0, <1>1, <1>2 DEF Entries
  <2>2. QED
    BY <1>2, <1>3, <2>1 DEF Entries
<1>5. ASSUME NEW x \in cancelled'
      PROVE  \E f \in Events : KeyOf(f) = KeyOf(x) /\ turn'[f] > turn'[x]
  <2>1. x \in Events /\ x # e
    BY <1>1, <1>3
  <2>2. CASE KeyOf(x) = k
    <3>1. turn'[x] = turn[x] /\ turn[x] <= turns[k] /\ turn'[e] = turns[k] + 1
      BY <1>1, <1>2, <2>1, <2>2 DEF Entries
    <3>2. turn'[e] > turn'[x]
      BY <1>0, <1>1, <2>1, <3>1
    <3>3. QED
      BY <1>1, <2>2, <3>2
  <2>3. CASE KeyOf(x) # k
    <3>1. x \in cancelled
      BY <1>1, <1>2, <2>3 DEF Entries
    <3>2. PICK f \in Events : KeyOf(f) = KeyOf(x) /\ turn[f] > turn[x]
      BY <3>1 DEF NewestSurvives
    <3>3. f # e /\ x # e
      BY <2>3, <3>2
    <3>4. QED
      BY <1>2, <2>1, <3>2, <3>3
  <2>4. QED
    BY <2>2, <2>3
<1>6. QED
  BY <1>4, <1>5 DEF NewestSurvives

\* The other steps cancel nothing and give nobody a turn.
LEMMA EntriesStep ==
  ASSUME Shape, Placed, Entries, NewestSurvives, [Next]_vars
  PROVE  (Entries /\ NewestSurvives)'
<1> USE AsyncAssumption
<1>1. ASSUME UNCHANGED <<cancelled, turns, turn>> PROVE NewestSurvives'
  BY <1>1 DEF NewestSurvives
<1>2. ASSUME UNCHANGED <<config, active, stage, cancelled, turns, turn>> PROVE (Entries /\ NewestSurvives)'
  BY <1>2 DEF Entries, NewestSurvives
<1>3. ASSUME NEW w \in Workers, NEW k \in Keys, Call(w, k) PROVE (Entries /\ NewestSurvives)'
  BY <1>2, <1>3 DEF Call
<1>4. ASSUME NEW w \in Workers, Check(w) \/ Acquire(w) \/ Drop(w) PROVE (Entries /\ NewestSurvives)'
  BY <1>2, <1>4 DEF Check, Acquire, Drop
<1>5. ASSUME NEW w \in Workers, Start(w) PROVE (Entries /\ NewestSurvives)'
  <2> DEFINE e == caller[w]
  <2>1. e \in Events /\ KeyOf(e) \in Keys
    BY <1>5 DEF Start, Placed, Events, KeyOf
  <2>2. /\ \A f \in Events : stage'[f] = IF f = e THEN "running" ELSE stage[f]
        /\ \A k \in Keys : active'[k] = IF mode = "investigation" /\ k = KeyOf(e)
                                       THEN e ELSE active[k]
        /\ UNCHANGED <<config, cancelled, turns, turn>>
    BY <1>5, <2>1 DEF Start, Shape
  <2>3. \A k \in Keys : active[k] \in Events \cup {NoEvent}
    BY DEF Shape
  <2>4. \A x \in cancelled' : stage'[x] # "none"
    BY <2>2 DEF Entries, Shape
  <2>5. \A k \in Keys : active'[k] # NoEvent =>
           /\ KeyOf(active'[k]) = k
           /\ stage'[active'[k]] \notin {"none", "cleaned", "ended"}
           /\ mode' = "investigation"
    BY <2>1, <2>2, <2>3 DEF Entries
  <2>6. Entries'
    BY <2>2, <2>4, <2>5 DEF Entries
  <2>7. QED
    BY <1>1, <2>2, <2>6
<1>6. ASSUME NEW e \in Events, Goroutine(e) PROVE (Entries /\ NewestSurvives)'
  <2>1. /\ UNCHANGED <<config, cancelled, turns, turn>>
        /\ stage'[e] # "none"
        /\ \A f \in Events \ {e} : stage'[f] = stage[f]
        /\ \A k \in Keys : active'[k] # NoEvent => active'[k] = active[k]
        /\ stage'[e] = "ended" => UNCHANGED active /\ stage[e] = "cleaned"
        /\ stage'[e] = "cleaned" /\ mode = "investigation" => active'[KeyOf(e)] = NoEvent
    BY <1>6, GoroutineEffect
  <2>2. \A x \in cancelled' : stage'[x] # "none"
    BY <2>1 DEF Entries, Shape
  <2>3. ASSUME NEW k \in Keys, active'[k] # NoEvent
        PROVE  /\ KeyOf(active'[k]) = k
               /\ stage'[active'[k]] \notin {"none", "cleaned", "ended"}
               /\ mode' = "investigation"
    <3>1. /\ active'[k] = active[k] /\ active[k] \in Events /\ KeyOf(active[k]) = k
          /\ stage[active[k]] \notin {"none", "cleaned", "ended"}
          /\ mode = "investigation"
      BY <2>1, <2>3 DEF Entries, Shape
    <3>2. CASE active[k] = e
      BY <2>1, <2>3, <3>1, <3>2
    <3>3. CASE active[k] # e
      BY <2>1, <3>1, <3>3
    <3>4. QED
      BY <3>2, <3>3
  <2>4. Entries'
    BY <2>1, <2>2, <2>3 DEF Entries
  <2>5. QED
    BY <1>1, <2>1, <2>4
<1>7. CASE StopBegins \/ StopReturns \/ UNCHANGED vars
  BY <1>2, <1>7 DEF StopBegins, StopReturns, vars
<1>8. QED
  BY <1>3, <1>4, <1>5, <1>6, <1>7, SupersedeKeeps DEF Next, Calls

\* The newest rollout of a deployment is never cancelled in favour of an older one.
THEOREM NewestIsKept == Spec => []NewestSurvives
<1>1. Init => Entries /\ NewestSurvives
  BY AsyncAssumption DEF Init, Entries, NewestSurvives, Events, KeyOf
<1>2. Shape /\ Placed /\ Entries /\ NewestSurvives /\ [Next]_vars => (Entries /\ NewestSurvives)'
  BY EntriesStep
<1>3. QED
  BY <1>1, <1>2, AlwaysBalanced, PTL DEF Spec

----------------------------------------------------------------------------
(* Stop *)

\* No worker calls after Stop has begun, and Stop returns after the goroutines.
Stopped ==
    /\ stopping # "no" => \A w \in Workers : step[w] = "idle"
    /\ stopping = "returned" => Live = {}

LEMMA StoppedStep ==
  ASSUME Shape, Placed, Stopped, [Next]_vars PROVE Stopped'
<1>1. ASSUME NEW w \in Workers, NEW k \in Keys, Call(w, k) PROVE Stopped'
  BY <1>1 DEF Call, Stopped
<1>2. ASSUME NEW w \in Workers, Calls(w) PROVE Stopped'
  <2>1. stopping = "no" /\ stopping' = stopping
    BY <1>2 DEF Calls, Supersede, Check, Acquire, Drop, Start, Stopped, Shape
  <2>2. QED
    BY <2>1 DEF Stopped
<1>3. ASSUME NEW e \in Events, Goroutine(e) PROVE Stopped'
  <2>1. UNCHANGED <<step, stopping>> /\ e \in Live
    BY <1>3, GoroutineEffect DEF Live
  <2>2. QED
    BY <2>1 DEF Stopped
<1>4. CASE StopBegins
  BY <1>4 DEF StopBegins, Stopped
<1>5. CASE StopReturns
  BY <1>5 DEF StopReturns, Stopped, Live
<1>6. CASE UNCHANGED vars
  BY <1>6 DEF vars, Stopped, Live
<1>7. QED
  BY <1>1, <1>2, <1>3, <1>4, <1>5, <1>6 DEF Next

\* Stop leaves no call, no goroutine, no slot taken and no entry behind.
THEOREM StopIsClean == Spec => []StopDrains
<1>1. Init => Entries /\ NewestSurvives /\ Stopped
  BY AsyncAssumption DEF Init, Entries, NewestSurvives, Stopped, Events, KeyOf
<1>2. Shape /\ Placed /\ Entries /\ NewestSurvives /\ Stopped /\ [Next]_vars
        => (Entries /\ NewestSurvives /\ Stopped)'
  BY EntriesStep, StoppedStep
<1>3. Shape /\ Balance /\ Entries /\ Stopped => StopDrains
  <2> SUFFICES ASSUME Shape, Balance, Entries, Stopped, stopping = "returned"
               PROVE  /\ \A w \in Workers : step[w] = "idle"
                      /\ Live = {} /\ slots = 0
                      /\ \A k \in Keys : active[k] = NoEvent
    BY DEF StopDrains
  <2>1. (\A w \in Workers : step[w] = "idle") /\ Live = {}
    BY DEF Stopped
  <2>2. Acquired = {}
    BY <2>1 DEF Acquired
  <2>3. slots = 0
    BY <2>1, <2>2, FS_EmptySet DEF Balance
  <2>4. \A k \in Keys : active[k] = NoEvent
    BY <2>1 DEF Entries, Live, Shape
  <2>5. QED
    BY <2>1, <2>3, <2>4
<1>4. QED
  BY <1>1, <1>2, <1>3, AlwaysBalanced, PTL DEF Spec

----------------------------------------------------------------------------
(* The refinement *)

\* A worker is in its call for an event; it has a slot for it.
Calling(e) == \E w \in Workers : caller[w] = e /\ step[w] # "idle"
Granted(e) == \E w \in Acquired : caller[w] = e

\* What every step of the target keeps.
PoolInv == Shape /\ Placed /\ Balance /\ Entries /\ Stopped

\* The stages of an event, read off the variables.
LEMMA JobIs ==
  ASSUME NEW e \in Events
  PROVE  /\ stage[e] \in {"running", "reporting"} => Job(e) = "running"
         /\ stage[e] = "reported" => Job(e) = "reported"
         /\ stage[e] \in {"leaving", "cleaned"} => Job(e) = "finishing"
         /\ stage[e] = "ended" => Job(e) = "over"
         /\ stage[e] = "none" =>
              Job(e) = IF Calling(e)
                       THEN IF Granted(e) THEN "running" ELSE "asking"
                       ELSE IF e[2] <= taken[KeyOf(e)] THEN "over" ELSE "new"
BY DEF Job, Calling, Granted

\* The same one step later.
LEMMA JobWillBe ==
  ASSUME NEW e \in Events
  PROVE  /\ stage'[e] \in {"running", "reporting"} => Job(e)' = "running"
         /\ stage'[e] = "reported" => Job(e)' = "reported"
         /\ stage'[e] \in {"leaving", "cleaned"} => Job(e)' = "finishing"
         /\ stage'[e] = "ended" => Job(e)' = "over"
         /\ stage'[e] = "none" =>
              Job(e)' = IF Calling(e)'
                        THEN IF Granted(e)' THEN "running" ELSE "asking"
                        ELSE IF e[2] <= taken'[KeyOf(e)] THEN "over" ELSE "new"
BY DEF Job, Calling, Granted, KeyOf

\* An event nobody touches stays where it is.
LEMMA JobStays ==
  ASSUME Shape, NEW e \in Events, stage'[e] = stage[e],
         Calling(e)' <=> Calling(e), Granted(e)' <=> Granted(e),
         e[2] <= taken'[KeyOf(e)] <=> e[2] <= taken[KeyOf(e)]
  PROVE  Job(e)' = Job(e)
<1>1. stage[e] \in {"none", "running", "reporting", "reported", "leaving",
                    "cleaned", "ended"}
  BY DEF Shape
<1>2. QED
  BY <1>1, JobIs, JobWillBe

\* One event moves and the others stay.
LEMMA JobBecomes ==
  ASSUME NEW e \in Events, NEW from, NEW to, Job(e) = from, Job(e)' = to,
         \A f \in Events \ {e} : Job(f)' = Job(f)
  PROVE  Pool!Become(e, from, to)
BY DEF Pool!Become

\* The jobs that hold the pool are the goroutines that have not released their
\* slot and the calls that have got one; there are as many as slots taken.
LEMMA HoldingCounts ==
  ASSUME Shape, Placed, Balance
  PROVE  /\ Pool!Holding = Live \cup {caller[w] : w \in Acquired}
         /\ Pool!Cardinality(Pool!Holding) = slots
<1> USE AsyncAssumption
<1> DEFINE Callers == {caller[w] : w \in Acquired}
<1>1. \A w \in Acquired : caller[w] \in Events /\ stage[caller[w]] = "none"
  BY DEF Acquired, Placed
<1>2. ASSUME NEW e \in Events
      PROVE  Job(e) \in {"running", "reported", "finishing"} <=> e \in Live \cup Callers
  <2>1. stage[e] \in {"none", "running", "reporting", "reported", "leaving",
                      "cleaned", "ended"}
    BY DEF Shape
  <2>2. CASE stage[e] = "none"
    <3>1. Granted(e) => Calling(e)
      BY DEF Granted, Calling, Acquired
    <3>2. QED
      BY <2>2, <3>1, JobIs DEF Live, Granted
  <2>3. CASE stage[e] # "none"
    BY <1>1, <2>1, <2>3, JobIs DEF Live
  <2>4. QED
    BY <2>2, <2>3
<1>3. Live \cup Callers \subseteq Events
  BY <1>1 DEF Live
<1>4. Pool!Holding = Live \cup Callers
  BY <1>2, <1>3 DEF Pool!Holding, Pool!Events, Events
<1> DEFINE c == [w \in Acquired |-> caller[w]]
<1>5. c \in Surjection(Acquired, Callers)
  BY DEF Surjection
<1>6. c \in Injection(Acquired, Callers)
  <2>1. \A w, v \in Acquired : caller[w] = caller[v] => w = v
    BY DEF Acquired, Placed
  <2>2. QED
    BY <2>1 DEF Injection, IsInjective
<1>7. IsFiniteSet(Callers) /\ Cardinality(Callers) = Cardinality(Acquired)
  BY <1>5, <1>6, Finite, FS_Surjection
<1>8. Live \cap Callers = {}
  BY <1>1 DEF Live
<1>9. Cardinality(Live \cup Callers)
        = Cardinality(Live) + Cardinality(Callers) - Cardinality({})
  <2>1. Cardinality(Live \cup Callers)
          = Cardinality(Live) + Cardinality(Callers) - Cardinality(Live \cap Callers)
    <3> HIDE DEF Callers
    <3>1. QED
      BY <1>7, Finite, FS_Union
  <2>2. QED
    BY <1>8, <2>1
<1>10. Cardinality(Live \cup Callers) = slots
  BY <1>7, <1>9, Finite, FS_EmptySet DEF Balance
<1>11. Pool!Cardinality(Pool!Holding) = Cardinality(Pool!Holding)
  BY DEF Pool!Cardinality, Cardinality
<1>12. QED
  BY <1>4, <1>10, <1>11

\* What the pool does not see.
LEMMA PoolStutters ==
  ASSUME UNCHANGED <<reporter, stopping, cancelled, statusCache>>,
         \A e \in Events : Job(e)' = Job(e)
  PROVE  UNCHANGED Pool!poolVars
BY DEF Pool!poolVars, Door

\* A worker takes the next event of a deployment, and asks.
LEMMA CallMaps ==
  ASSUME PoolInv, NEW w \in Workers, NEW k \in Keys, Call(w, k)
  PROVE  \E e \in Events : Pool!Ask(e)
<1> USE AsyncAssumption DEF PoolInv
<1>1. taken[k] \in 0 .. MaxEvents /\ taken[k] + 1 \in 1 .. MaxEvents
  BY DEF Call, Shape
<1>0. PICK n \in Events : n = <<k, taken[k] + 1>>
  BY <1>1 DEF Events
<1>2. n \in Events /\ KeyOf(n) = k /\ n[2] = taken[k] + 1
  BY <1>0 DEF KeyOf
<1>3. stage[n] = "none"
  BY <1>1, <1>2 DEF Placed
<1>4. \A v \in Workers : step[v] # "idle" => caller[v] # n
  BY <1>1, <1>2 DEF Placed
<1>5. /\ \A v \in Workers : caller'[v] = IF v = w THEN n ELSE caller[v]
      /\ \A v \in Workers \ {w} : step'[v] = step[v]
      /\ step[w] = "idle" /\ step'[w] \in {"called", "superseded"}
      /\ \A j \in Keys : taken'[j] = IF j = k THEN taken[k] + 1 ELSE taken[j]
      /\ stopping = "no"
      /\ UNCHANGED <<reporter, stage, cancelled, statusCache, stopping>>
  BY <1>0 DEF Call, Shape
<1>6. Job(n) = "new"
  BY <1>1, <1>2, <1>3, <1>4, JobIs DEF Calling
<1>7. Job(n)' = "asking"
  <2>1. Calling(n)' /\ ~Granted(n)'
    BY <1>4, <1>5 DEF Calling, Granted, Acquired
  <2>2. QED
    BY <1>2, <1>3, <1>5, <2>1, JobWillBe
<1>8. ASSUME NEW f \in Events \ {n} PROVE Job(f)' = Job(f)
  <2>1. /\ f = <<KeyOf(f), f[2]>> /\ f[2] \in Nat /\ KeyOf(f) \in Keys
        /\ taken[KeyOf(f)] \in Nat
    BY DEF Events, KeyOf, Shape
  <2>2. f[2] <= taken'[KeyOf(f)] <=> f[2] <= taken[KeyOf(f)]
    BY <1>0, <1>1, <1>2, <1>5, <2>1
  <2>3. Calling(f)' <=> Calling(f)
    BY <1>5 DEF Calling
  <2>4. Granted(f)' <=> Granted(f)
    BY <1>5 DEF Granted, Acquired
  <2>5. QED
    BY <1>5, <2>2, <2>3, <2>4, JobStays
<1>9. Pool!Become(n, "new", "asking")
  BY <1>2, <1>6, <1>7, <1>8, JobBecomes
<1>10. Pool!Ask(n)
  BY <1>5, <1>9 DEF Pool!Ask, Door
<1>11. QED
  BY <1>2, <1>10

\* At the lock a call may revoke one job, which is admitted and not over.
LEMMA SupersedeMaps ==
  ASSUME PoolInv, NEW w \in Workers, Supersede(w)
  PROVE  (\E e, f \in Events : Pool!Revoke(e, f)) \/ UNCHANGED Pool!poolVars
<1> USE AsyncAssumption DEF PoolInv
<1> DEFINE e == caller[w]
           k == KeyOf(e)
<1>1. e \in Events /\ k \in Keys /\ stage[e] = "none" /\ step[w] = "called"
  BY DEF Supersede, Placed, Events, KeyOf
<1>2. /\ cancelled' = cancelled \cup ({active[k]} \ {NoEvent})
      /\ step'[w] = "superseded"
      /\ \A v \in Workers \ {w} : step'[v] = step[v]
      /\ UNCHANGED <<reporter, taken, caller, stage, statusCache, stopping>>
  BY DEF Supersede, Shape
<1>3. ASSUME NEW f \in Events PROVE Job(f)' = Job(f)
  <2>1. (Calling(f)' <=> Calling(f)) /\ (Granted(f)' <=> Granted(f))
    BY <1>1, <1>2 DEF Calling, Granted, Acquired
  <2>2. QED
    BY <1>2, <2>1, JobStays
<1>4. CASE active[k] = NoEvent
  <2>1. cancelled' = cancelled
    BY <1>2, <1>4
  <2>2. QED
    BY <1>2, <1>3, <2>1, PoolStutters
<1>5. CASE active[k] # NoEvent
  <2> DEFINE f == active[k]
  <2>1. /\ f \in Events /\ KeyOf(f) = k /\ f \in Live
        /\ cancelled' = cancelled \cup {f}
    BY <1>1, <1>2, <1>5 DEF Entries, Shape, Live
  <2>2. f \in Pool!Holding
    BY <2>1, HoldingCounts
  <2>3. Job(e) = "asking"
    <3>1. Calling(e) /\ ~Granted(e)
      BY <1>1 DEF Calling, Granted, Acquired, Placed
    <3>2. QED
      BY <1>1, <3>1, JobIs
  <2>4. UNCHANGED <<reporter, Door, [x \in Events |-> Job(x)], statusCache>>
    BY <1>2, <1>3 DEF Door
  <2>5. Pool!Revoke(e, f)
    BY <1>1, <2>1, <2>2, <2>3, <2>4 DEF Pool!Revoke, KeyOf
  <2>6. QED
    BY <1>1, <2>1, <2>5
<1>6. QED
  BY <1>4, <1>5

\* The check is invisible; an acquired slot admits the event, a full semaphore
\* refuses it; its goroutine takes the slot over invisibly.
LEMMA CallsMap ==
  ASSUME PoolInv, NEW w \in Workers,
         Check(w) \/ Acquire(w) \/ Drop(w) \/ Start(w)
  PROVE  \/ \E e \in Events : Pool!Admit(e) \/ Pool!Refuse(e)
         \/ UNCHANGED Pool!poolVars
<1> USE AsyncAssumption DEF PoolInv
<1>1. step[w] # "idle" /\ UNCHANGED <<reporter, taken, stopping, statusCache, cancelled>>
  BY DEF Check, Acquire, Drop, Start
<1>2. PICK e \in Events : e = caller[w]
  BY <1>1 DEF Placed
<1>3. /\ stage[e] = "none" /\ e[2] <= taken[KeyOf(e)] /\ Calling(e)
      /\ \A v \in Workers \ {w} : step[v] # "idle" => caller[v] # e
  BY <1>1, <1>2 DEF Placed, Calling
<1>4. /\ \A v \in Workers \ {w} : step'[v] = step[v] /\ caller'[v] = caller[v]
      /\ step'[w] # "idle" => caller'[w] = e
      /\ \A f \in Events \ {e} : stage'[f] = stage[f]
  BY <1>2 DEF Check, Acquire, Drop, Start, Shape
<1>5. ASSUME NEW f \in Events \ {e} PROVE Job(f)' = Job(f)
  <2>1. Calling(f)' <=> Calling(f)
    BY <1>1, <1>2, <1>4 DEF Calling
  <2>2. Granted(f)' <=> Granted(f)
    BY <1>1, <1>2, <1>4 DEF Granted, Acquired
  <2>3. QED
    BY <1>1, <1>4, <2>1, <2>2, JobStays
<1>6. UNCHANGED <<reporter, Door, cancelled, statusCache>>
  BY <1>1 DEF Door
<1>7. Pool!Cardinality(Pool!Holding) = slots
  BY HoldingCounts
<1>8. CASE Check(w)
  <2>1. step[w] = "superseded" /\ step'[w] = "checked" /\ caller' = caller /\ stage' = stage
    BY <1>8 DEF Check, Shape
  <2>2. Calling(e)' /\ ~Granted(e) /\ ~Granted(e)'
    BY <1>2, <1>3, <1>4, <2>1 DEF Calling, Granted, Acquired
  <2>3. Job(e)' = Job(e)
    BY <1>1, <1>3, <2>1, <2>2, JobStays
  <2>4. QED
    BY <1>1, <1>5, <2>3, PoolStutters
<1>9. CASE Acquire(w)
  <2>1. /\ step[w] = "checked" /\ step'[w] = "acquired" /\ slots < Slots
        /\ caller' = caller /\ stage' = stage
    BY <1>9 DEF Acquire, Shape
  <2>2. ~Granted(e) /\ Granted(e)' /\ Calling(e)'
    BY <1>2, <1>3, <1>4, <2>1 DEF Calling, Granted, Acquired
  <2>3. Job(e) = "asking" /\ Job(e)' = "running"
    BY <1>3, <2>1, <2>2, JobIs, JobWillBe
  <2>4. Pool!Become(e, "asking", "running")
    BY <1>5, <2>3, JobBecomes
  <2>5. QED
    BY <1>6, <1>7, <2>1, <2>4 DEF Pool!Admit
<1>10. CASE Drop(w)
  <2>1. /\ step[w] = "checked" /\ step'[w] = "idle" /\ slots = Slots
        /\ stage' = stage
    BY <1>10 DEF Drop, Shape
  <2>2. ~Granted(e) /\ ~Calling(e)'
    BY <1>2, <1>3, <1>4, <2>1 DEF Calling, Granted, Acquired
  <2>3. Job(e) = "asking" /\ Job(e)' = "over"
    BY <1>1, <1>3, <2>1, <2>2, JobIs, JobWillBe
  <2>4. Pool!Become(e, "asking", "over")
    BY <1>5, <2>3, JobBecomes
  <2>5. QED
    BY <1>6, <1>7, <2>1, <2>4 DEF Pool!Refuse
<1>11. CASE Start(w)
  <2>1. step[w] = "acquired" /\ stage'[e] = "running"
    BY <1>2, <1>11 DEF Start, Shape
  <2>2. Granted(e)
    BY <1>2, <2>1 DEF Granted, Acquired
  <2>3. Job(e) = "running" /\ Job(e)' = "running"
    BY <1>3, <2>1, <2>2, JobIs, JobWillBe
  <2>4. QED
    BY <1>1, <1>5, <2>3, PoolStutters
<1>12. QED
  BY <1>8, <1>9, <1>10, <1>11

\* A goroutine reports only while nobody has cancelled it, shows what it has
\* reported, and leaves with the release of its slot.
LEMMA GoroutineMaps ==
  ASSUME PoolInv, NEW e \in Events, Goroutine(e)
  PROVE  \/ Pool!Report(e) \/ Pool!Show(e) \/ Pool!GiveUp(e) \/ Pool!Leave(e)
         \/ UNCHANGED Pool!poolVars
<1> USE AsyncAssumption DEF PoolInv
<1>1. /\ UNCHANGED <<reporter, taken, caller, step, cancelled, stopping>>
      /\ \A f \in Events \ {e} : stage'[f] = stage[f]
  BY GoroutineEffect
<1>2. \A f \in Events : (Calling(f)' <=> Calling(f)) /\ (Granted(f)' <=> Granted(f))
  BY <1>1 DEF Calling, Granted, Acquired
<1>3. \A f \in Events \ {e} : Job(f)' = Job(f)
  BY <1>1, <1>2, JobStays
<1>4. Door' = Door
  BY <1>1 DEF Door
<1>5. ASSUME Job(e)' = Job(e), UNCHANGED statusCache
      PROVE  UNCHANGED Pool!poolVars
  BY <1>1, <1>3, <1>5, PoolStutters
<1>6. ASSUME NEW from, NEW to, Job(e) = from, Job(e)' = to
      PROVE  Pool!Become(e, from, to)
  BY <1>3, <1>6, JobBecomes
<1> USE DEF Moves, OnlyStage
<1>7. CASE Reports(e)
  <2>1. stage[e] = "running" /\ stage'[e] = "reporting" /\ statusCache' = statusCache
    BY <1>7 DEF Reports, Shape
  <2>2. QED
    BY <1>5, <2>1, JobIs, JobWillBe
<1>8. CASE InvestigateFails(e) \/ AnalysisReturns(e)
  <2>1. /\ stage[e] = "running" /\ stage'[e] \in {"leaving", "cleaned"}
        /\ statusCache' = statusCache
    BY <1>8 DEF InvestigateFails, AnalysisReturns, Shape
  <2>2. Pool!Become(e, "running", "finishing")
    BY <1>6, <2>1, JobIs, JobWillBe
  <2>3. QED
    BY <1>1, <1>4, <2>1, <2>2 DEF Pool!GiveUp
<1>9. CASE PostReport(e) /\ stage'[e] = "reported"
  <2>1. /\ stage[e] = "reporting" /\ (reporter = "direct" \/ ~Done(e))
        /\ statusCache' = statusCache
    BY <1>9 DEF PostReport, Shape
  <2>2. Pool!Become(e, "running", "reported")
    BY <1>6, <1>9, <2>1, JobIs, JobWillBe
  <2>3. QED
    BY <1>1, <1>4, <2>1, <2>2 DEF Pool!Report, Done, Door
<1>10. CASE PostReport(e) /\ stage'[e] # "reported"
  <2>1. /\ stage[e] = "reporting" /\ stage'[e] = "leaving"
        /\ statusCache' = statusCache
    BY <1>10 DEF PostReport, Shape
  <2>2. Pool!Become(e, "running", "finishing")
    BY <1>6, <2>1, JobIs, JobWillBe
  <2>3. QED
    BY <1>1, <1>4, <2>1, <2>2 DEF Pool!GiveUp
<1>11. CASE UpdateStatus(e)
  <2>1. /\ stage[e] = "reported" /\ stage'[e] = "leaving"
        /\ statusCache' = [statusCache EXCEPT ![KeyOf(e)] = e]
    BY <1>11 DEF UpdateStatus, Shape
  <2>2. Pool!Become(e, "reported", "finishing")
    BY <1>6, <2>1, JobIs, JobWillBe
  <2>3. QED
    BY <1>1, <1>4, <2>1, <2>2 DEF Pool!Show, KeyOf
<1>12. CASE CleanUp(e)
  <2>1. stage[e] = "leaving" /\ stage'[e] = "cleaned" /\ statusCache' = statusCache
    BY <1>12 DEF CleanUp, Shape
  <2>2. QED
    BY <1>5, <2>1, JobIs, JobWillBe
<1>13. CASE Release(e)
  <2>1. stage[e] = "cleaned" /\ stage'[e] = "ended" /\ statusCache' = statusCache
    BY <1>13 DEF Release, Shape
  <2>2. Pool!Become(e, "finishing", "over")
    BY <1>6, <2>1, JobIs, JobWillBe
  <2>3. QED
    BY <1>1, <1>4, <2>1, <2>2 DEF Pool!Leave
<1>14. QED
  BY <1>7, <1>8, <1>9, <1>10, <1>11, <1>12, <1>13 DEF Goroutine

\* Stop begins when nobody asks and returns when nothing holds the pool.
LEMMA StopMaps ==
  ASSUME PoolInv, StopBegins \/ StopReturns
  PROVE  Pool!BeginClose \/ Pool!EndClose
<1> USE AsyncAssumption DEF PoolInv
<1>1. UNCHANGED <<reporter, taken, caller, step, stage, cancelled, statusCache>>
  BY DEF StopBegins, StopReturns
<1>2. \A f \in Events : (Calling(f)' <=> Calling(f)) /\ (Granted(f)' <=> Granted(f))
  BY <1>1 DEF Calling, Granted, Acquired
<1>3. [f \in Events |-> Job(f)]' = [f \in Events |-> Job(f)]
  BY <1>1, <1>2, JobStays
<1>4. \A w \in Workers : step[w] = "idle"
  BY DEF StopBegins, StopReturns, Stopped
<1>5. CASE StopBegins
  <2>1. \A f \in Events : Job(f) # "asking"
    <3>1. \A f \in Events : ~Calling(f)
      BY <1>4 DEF Calling
    <3>2. \A f \in Events : stage[f] \in {"none", "running", "reporting",
             "reported", "leaving", "cleaned", "ended"}
      BY DEF Shape
    <3>3. QED
      BY <3>1, <3>2, JobIs
  <2>2. QED
    BY <1>1, <1>3, <1>5, <2>1
       DEF StopBegins, Pool!BeginClose, Pool!Events, Events, Door
<1>6. CASE StopReturns
  <2>1. Pool!Holding = {}
    BY <1>4, <1>6, HoldingCounts DEF StopReturns, Acquired
  <2>2. QED
    BY <1>1, <1>3, <1>6, <2>1 DEF StopReturns, Pool!EndClose, Door
<1>7. QED
  BY <1>5, <1>6

\* The background targets implement the pool of jobs: the map of cancel
\* functions, the semaphore and the contexts together refuse an event only when
\* all slots are held, cancel only for a later call, report nothing for a job
\* that was cancelled, and close when every job is over (PoolSpec).
THEOREM ImplementsPool == Spec => PoolSpec
<1>1. Init => Pool!Init
  <2> SUFFICES ASSUME Init PROVE Pool!Init
    OBVIOUS
  <2>1. ASSUME NEW e \in Events PROVE Job(e) = "new"
    <3>1. e[2] \in 1 .. MaxEvents /\ KeyOf(e) \in Keys
      BY DEF Events, KeyOf
    <3>2. stage[e] = "none" /\ ~Calling(e) /\ ~(e[2] <= taken[KeyOf(e)])
      BY <3>1 DEF Init, Calling
    <3>3. QED
      BY <3>2, JobIs
  <2>2. QED
    BY <2>1 DEF Init, Pool!Init, Pool!Events, Events, Door
<1>2. PoolInv /\ [Next]_vars => [Pool!Next]_(Pool!poolVars)
  <2> SUFFICES ASSUME PoolInv, [Next]_vars
               PROVE  Pool!Next \/ UNCHANGED Pool!poolVars
    OBVIOUS
  <2> USE DEF Pool!Next, Pool!Events, Events
  <2>1. ASSUME NEW w \in Workers, NEW k \in Keys, Call(w, k) PROVE Pool!Next
    BY <2>1, CallMaps
  <2>2. ASSUME NEW w \in Workers, Calls(w)
        PROVE  Pool!Next \/ UNCHANGED Pool!poolVars
    BY <2>2, SupersedeMaps, CallsMap DEF Calls
  <2>3. ASSUME NEW e \in Events, Goroutine(e)
        PROVE  Pool!Next \/ UNCHANGED Pool!poolVars
    BY <2>3, GoroutineMaps
  <2>4. CASE StopBegins \/ StopReturns
    BY <2>4, StopMaps
  <2>5. CASE UNCHANGED vars
    BY <2>5 DEF vars, Pool!poolVars, Door, Job, Acquired
  <2>6. QED
    BY <2>1, <2>2, <2>3, <2>4, <2>5 DEF Next
<1>3. Spec => []PoolInv
  <2>1. Init => Entries /\ NewestSurvives /\ Stopped
    BY AsyncAssumption DEF Init, Entries, NewestSurvives, Stopped, Events, KeyOf
  <2>2. Shape /\ Placed /\ Entries /\ NewestSurvives /\ Stopped /\ [Next]_vars
          => (Entries /\ NewestSurvives /\ Stopped)'
    BY EntriesStep, StoppedStep
  <2>3. QED
    BY <2>1, <2>2, AlwaysBalanced, PTL DEF Spec, PoolInv
<1>4. QED
  BY <1>1, <1>2, <1>3, PTL DEF Spec, PoolSpec, Pool!Spec
==============================================================================
