--------------------------- MODULE WatchlistProofs ---------------------------
(* One owner per place, objects that agree with the memory, and no lost        *)
(* trigger, for any apps, places, names and numbers of requests.                *)
EXTENDS Watchlist, TLAPS

\* TypeOK, and a request on its way has an app.
Shape ==
    /\ TypeOK
    /\ \A h \in Handlers : req[h].stage # "idle" => req[h].app \in Apps

\* A registered app has a set of places; no spec is mistaken for its absence.
LEMMA Specs ==
  ASSUME Shape
  PROVE  /\ NoSpec \notin SUBSET Places
         /\ \A a \in Apps : Registered(a) => apps[a] \in SUBSET Places
         /\ \A h \in Handlers : req[h] \in Request
         /\ \A h \in Handlers : req[h].stage # "idle" => NameFor(h) \in Names
         /\ Names \subseteq Apps
         /\ \A a \in Apps : NameOf[a] \in Names
<1>1. NoSpec \notin SUBSET Places
  BY WatchlistAssumption DEF NoSpec
<1>2. \A a \in Apps : apps[a] \in Values
  BY DEF Shape, TypeOK
<1>3. Names \subseteq Apps /\ \A a \in Apps : NameOf[a] \in Names
  BY WatchlistAssumption DEF Names
<1>4. \A h \in Handlers : req[h] \in Request
  BY DEF Shape, TypeOK
<1>5. \A h \in Handlers : req[h].stage # "idle" => NameFor(h) \in Names
  BY <1>3 DEF Shape, NameFor
<1>6. QED
  BY <1>1, <1>2, <1>3, <1>4, <1>5 DEF Registered, Values

\* What a request may do: other requests lose at most their solitude or the
\* freshness of what they read.
Others(h) ==
    \A g \in Handlers \ {h} :
        /\ req'[g] \in Request
        /\ req'[g].op = req[g].op /\ req'[g].app = req[g].app
        /\ req'[g].spec = req[g].spec /\ req'[g].stage = req[g].stage
        /\ req'[g].alone => req[g].alone

\* The parts of a step that changes only this request.
LEMMA OneRequest ==
  ASSUME Shape, NEW h \in Handlers, NEW r \in Request, req' = [req EXCEPT ![h] = r]
  PROVE  req' \in [Handlers -> Request] /\ req'[h] = r
         /\ (\A g \in Handlers \ {h} : req'[g] = req[g]) /\ Others(h)
BY DEF Shape, TypeOK, Others

LEMMA GoesEffect ==
  ASSUME Shape, NEW h \in Handlers,
         NEW s \in {"idle", "known", "checked", "found", "written", "stored"}, Goes(h, s)
  PROVE  /\ req' \in [Handlers -> Request]
         /\ req'[h].stage = s /\ req'[h].app = req[h].app /\ req'[h].op = req[h].op
         /\ req'[h].spec = req[h].spec /\ req'[h].alone = req[h].alone
         /\ \A g \in Handlers \ {h} : req'[g] = req[g]
         /\ Others(h)
BY DEF Goes, Shape, TypeOK, Request, Others

LEMMA EndsEffect ==
  ASSUME Shape, NEW h \in Handlers, Ends(h)
  PROVE  /\ req' \in [Handlers -> Request]
         /\ req'[h].stage = "idle"
         /\ \A g \in Handlers \ {h} : req'[g] = req[g]
         /\ Others(h)
<1>1. Idle \in Request
  BY DEF Idle, Request
<1>2. Idle.stage = "idle"
  BY DEF Idle
<1>3. QED
  BY <1>1, <1>2, OneRequest DEF Ends

LEMMA EnterEffect ==
  ASSUME Shape, NEW h \in Handlers, NEW r \in Request, Enter(h, r)
  PROVE  /\ req' \in [Handlers -> Request]
         /\ req'[h].stage = "checked" /\ req'[h].app = r.app /\ req'[h].op = r.op
         /\ req'[h].spec = r.spec
         /\ \A g \in Handlers \ {h} :
               InWindow(g) /\ NameFor(g) = NameOf[r.app]
                  => ~req'[h].alone /\ ~req'[g].alone
         /\ Others(h)
<1> DEFINE peers == {g \in Handlers \ {h} : InWindow(g) /\ NameFor(g) = NameOf[r.app]}
           hs == [r EXCEPT !.stage = "checked", !.alone = (peers = {})]
<1>1. req' = [g \in Handlers |-> IF g = h THEN hs
                 ELSE IF g \in peers THEN [req[g] EXCEPT !.alone = FALSE] ELSE req[g]]
  BY DEF Enter
<1>2. (peers = {}) \in BOOLEAN
  OBVIOUS
<1>3. /\ hs \in Request
      /\ hs.stage = "checked" /\ hs.app = r.app /\ hs.op = r.op /\ hs.spec = r.spec
      /\ hs.alone = (peers = {})
  <2> HIDE DEF peers
  <2>1. QED
    BY <1>2 DEF Request
<1>4. \A g \in Handlers : req[g] \in Request
  BY DEF Shape, TypeOK
<1>5. ASSUME NEW g \in Handlers \ {h}
      PROVE  /\ req'[g] \in Request
             /\ req'[g].op = req[g].op /\ req'[g].app = req[g].app
             /\ req'[g].spec = req[g].spec /\ req'[g].stage = req[g].stage
             /\ req'[g].alone => req[g].alone
             /\ g \in peers => ~req'[g].alone
  <2> HIDE DEF peers
  <2>1. CASE g \in peers
    BY <1>1, <1>4, <2>1 DEF Request
  <2>2. CASE g \notin peers
    BY <1>1, <1>4, <2>2
  <2>3. QED
    BY <2>1, <2>2
<1>6. req'[h] = hs
  BY <1>1
<1>7. req' \in [Handlers -> Request]
  <2> HIDE DEF peers, hs
  <2>1. \A g \in Handlers : req'[g] \in Request
    BY <1>3, <1>5, <1>6
  <2>2. QED
    BY <1>1, <2>1
<1>8. \A g \in Handlers \ {h} : InWindow(g) /\ NameFor(g) = NameOf[r.app] => g \in peers
  OBVIOUS
<1>9. \A g \in Handlers \ {h} : g \in peers => ~req'[h].alone /\ ~req'[g].alone
  <2> HIDE DEF hs
  <2>1. \A g : g \in peers => peers # {}
    OBVIOUS
  <2> HIDE DEF peers
  <2>2. QED
    BY <1>3, <1>5, <1>6, <2>1
<1>10. QED
  <2> HIDE DEF peers, hs
  <2>1. QED
    BY <1>3, <1>5, <1>6, <1>7, <1>8, <1>9 DEF Others

LEMMA WritesEffect ==
  ASSUME Shape, NEW h \in Handlers, NEW n \in Names, NEW v \in Values,
         req[h].app \in Apps, Writes(h, n, v)
  PROVE  /\ UNCHANGED <<memory, token, manager, ensured, contested, requests, restarts>>
         /\ req' \in [Handlers -> Request]
         /\ crd' \in [Names -> Values]
         /\ crd'[n] = v /\ \A m \in Names \ {n} : crd'[m] = crd[m]
         /\ lost' \in Nat /\ unsure' \in SUBSET Names
         /\ Others(h)
         /\ \/ /\ req'[h].stage = "written" /\ req'[h].app = req[h].app
               /\ req'[h].op = req[h].op /\ req'[h].spec = req[h].spec
               /\ req'[h].alone = req[h].alone
               /\ unsure' = unsure
            \/ /\ req'[h].stage = "idle"
               /\ unsure' = unsure \cup {NameFor(h)}
<1>1. PICK reply \in BOOLEAN :
        /\ req' = [g \in Handlers |->
                IF g = h THEN IF reply THEN [req[h] EXCEPT !.stage = "written"] ELSE Idle
                ELSE IF req[g].base = "current" /\ NameFor(g) = n
                     THEN [req[g] EXCEPT !.base = "stale"]
                ELSE req[g]]
        /\ lost' = IF reply THEN lost ELSE lost + 1
        /\ unsure' = IF reply THEN unsure ELSE unsure \cup {NameFor(h)}
  BY DEF Writes
<1>2. \A g \in Handlers : req[g] \in Request
  BY DEF Shape, TypeOK
<1>3. Idle \in Request /\ Idle.stage = "idle"
  BY DEF Idle, Request
<1>4. ASSUME NEW g \in Handlers \ {h}
      PROVE  /\ req'[g] \in Request
             /\ req'[g].op = req[g].op /\ req'[g].app = req[g].app
             /\ req'[g].spec = req[g].spec /\ req'[g].stage = req[g].stage
             /\ req'[g].alone => req[g].alone
  <2>1. CASE req[g].base = "current" /\ NameFor(g) = n
    <3>1. req'[g] = [req[g] EXCEPT !.base = "stale"]
      BY <1>1, <2>1
    <3>2. QED
      BY <1>2, <3>1 DEF Request
  <2>2. CASE ~(req[g].base = "current" /\ NameFor(g) = n)
    <3>1. req'[g] = req[g]
      BY <1>1, <2>2
    <3>2. QED
      BY <1>2, <3>1
  <2>3. QED
    BY <2>1, <2>2
<1>5. NameFor(h) \in Names
  BY WatchlistAssumption DEF NameFor, Names
<1>6. CASE reply
  <2>1. req'[h] = [req[h] EXCEPT !.stage = "written"] /\ unsure' = unsure /\ lost' = lost
    BY <1>1, <1>6
  <2>2. /\ req'[h] \in Request /\ req'[h].stage = "written" /\ req'[h].app = req[h].app
        /\ req'[h].op = req[h].op /\ req'[h].spec = req[h].spec
        /\ req'[h].alone = req[h].alone
    BY <1>2, <2>1 DEF Request
  <2>3. req' \in [Handlers -> Request]
    <3>1. \A g \in Handlers : req'[g] \in Request
      BY <1>4, <2>2
    <3>2. QED
      BY <1>1, <3>1
  <2>4. QED
    BY <1>4, <2>1, <2>2, <2>3 DEF Writes, Shape, TypeOK, Others
<1>7. CASE ~reply
  <2>1. req'[h] = Idle /\ unsure' = unsure \cup {NameFor(h)} /\ lost' = lost + 1
    BY <1>1, <1>7
  <2>2. req' \in [Handlers -> Request]
    <3>1. \A g \in Handlers : req'[g] \in Request
      BY <1>3, <1>4, <2>1
    <3>2. QED
      BY <1>1, <3>1
  <2>3. QED
    BY <1>3, <1>4, <1>5, <2>1, <2>2 DEF Writes, Shape, TypeOK, Others
<1>8. QED
  BY <1>6, <1>7

----------------------------------------------------------------------------
(* Types *)

\* Put starts a request, and leaves the others alone.
LEMMA PutEffect ==
  ASSUME Shape, NEW h \in Handlers, NEW a \in Apps, NEW s \in SUBSET Places,
         NEW known \in SUBSET Clusters, Put(h, a, s, known)
  PROVE  /\ req' \in [Handlers -> Request] /\ requests' \in Nat
         /\ req'[h].stage = "known" /\ req'[h].app \in Apps
         /\ \A g \in Handlers \ {h} : req'[g] = req[g]
         /\ Others(h)
<1> DEFINE r == [op |-> "put", app |-> a, spec |-> {p \in s : ClusterOf[p] \in known},
                 stage |-> "known", base |-> "absent", alone |-> TRUE]
<1>1. r \in Request /\ r.stage = "known" /\ r.app = a
  BY DEF Request
<1>2. req' = [req EXCEPT ![h] = r] /\ requests' = requests + 1
  BY DEF Put
<1>3. requests' \in Nat
  BY <1>2 DEF Shape, TypeOK
<1>4. QED
  <2> HIDE DEF r
  <2>1. QED
    BY <1>1, <1>2, <1>3, OneRequest

\* A request that starts with Delete enters its window at once.
LEMMA DeleteEffect ==
  ASSUME Shape, NEW h \in Handlers, NEW a \in Apps, Delete(h, a)
  PROVE  /\ req' \in [Handlers -> Request] /\ requests' \in Nat
         /\ req'[h].stage = "checked" /\ req'[h].app = a /\ req'[h].op = "delete"
         /\ \A g \in Handlers \ {h} :
               InWindow(g) /\ NameFor(g) = NameOf[a] => ~req'[h].alone /\ ~req'[g].alone
         /\ Others(h)
<1> DEFINE r == [req[h] EXCEPT !.op = "delete", !.app = a, !.spec = {}]
<1>1. r \in Request /\ r.app = a /\ r.op = "delete"
  BY DEF Request, Shape, TypeOK
<1>2. Enter(h, r) /\ requests' = requests + 1
  BY DEF Delete
<1>3. requests' \in Nat
  BY <1>2 DEF Shape, TypeOK
<1>4. QED
  <2> HIDE DEF r
  <2>1. QED
    BY <1>1, <1>2, <1>3, EnterEffect

\* The read of the object changes the request only.
LEMMA GetEffect ==
  ASSUME Shape, NEW h \in Handlers, GetCrd(h)
  PROVE  /\ req' \in [Handlers -> Request]
         /\ req'[h].stage = "found" /\ req'[h].app = req[h].app /\ req'[h].op = req[h].op
         /\ req'[h].spec = req[h].spec /\ req'[h].alone = req[h].alone
         /\ \A g \in Handlers \ {h} : req'[g] = req[g]
         /\ Others(h)
<1> DEFINE b == IF crd[NameFor(h)] = NoSpec THEN "absent" ELSE "current"
           r == [req[h] EXCEPT !.stage = "found", !.base = b]
<1>1. b \in {"absent", "current", "stale"}
  OBVIOUS
<1>2. req' = [req EXCEPT ![h].stage = "found", ![h].base = b]
  BY DEF GetCrd
<1> HIDE DEF b
<1>3. r \in Request /\ r.stage = "found" /\ r.app = req[h].app /\ r.op = req[h].op
      /\ r.spec = req[h].spec /\ r.alone = req[h].alone
  BY <1>1 DEF Request, Shape, TypeOK
<1>4. req' = [req EXCEPT ![h] = r]
  BY <1>2 DEF Shape, TypeOK
<1>5. QED
  <2> HIDE DEF r
  <2>1. QED
    BY <1>3, <1>4, OneRequest

\* The memory after an update: one app has a new spec.
LEMMA MemoryEffect ==
  ASSUME Shape, NEW h \in Handlers, Store(h) \/ Remove(h)
  PROVE  /\ apps' \in [Apps -> Values]
         /\ index' \in [Places -> Apps \cup {Absent}]
         /\ unsure' \in SUBSET Names
         /\ req[h].app \in Apps /\ NameFor(h) \in Names /\ req[h].stage = "written"
         /\ Goes(h, "stored")
         /\ apps'[req[h].app] = IF req[h].op = "put" THEN req[h].spec ELSE NoSpec
         /\ \A b \in Apps \ {req[h].app} : apps'[b] = apps[b]
         /\ UNCHANGED <<crd, token, manager, ensured, contested, counters>>
<1>1. req[h] \in Request /\ req[h].stage = "written"
  BY DEF Shape, TypeOK, Store, Remove
<1>2. req[h].app \in Apps /\ NameFor(h) \in Names
  BY <1>1, Specs DEF Shape
<1>3. req[h].spec \in SUBSET Places
  BY <1>1 DEF Request
<1>4. apps' = [apps EXCEPT ![req[h].app] = IF req[h].op = "put" THEN req[h].spec ELSE NoSpec]
  BY DEF Store, Remove
<1>5. apps' \in [Apps -> Values]
      /\ apps'[req[h].app] = (IF req[h].op = "put" THEN req[h].spec ELSE NoSpec)
      /\ \A b \in Apps \ {req[h].app} : apps'[b] = apps[b]
  BY <1>2, <1>3, <1>4 DEF Shape, TypeOK, Values
<1>6. index' \in [Places -> Apps \cup {Absent}]
  BY <1>2 DEF Store, Remove, Without, Shape, TypeOK
<1>7. unsure' \in SUBSET Names
  BY <1>2 DEF Store, Remove, Settles, Shape, TypeOK
<1>8. QED
  BY <1>1, <1>2, <1>5, <1>6, <1>7 DEF Store, Remove

\* The value a write leaves behind.
LEMMA WriterEffect ==
  ASSUME Shape, NEW h \in Handlers, UpsertCrd(h) \/ DeleteCrd(h)
  PROVE  LET v == IF req[h].op = "put" THEN req[h].spec ELSE NoSpec
         IN  /\ req[h].app \in Apps /\ NameFor(h) \in Names
             /\ req[h].stage \in {"checked", "found"}
             /\ v \in Values
             /\ Writes(h, NameFor(h), v)
<1>1. req[h].stage \in {"checked", "found"} /\ req[h] \in Request
  BY DEF UpsertCrd, DeleteCrd, Shape, TypeOK
<1>2. req[h].app \in Apps /\ NameFor(h) \in Names
  BY <1>1, Specs DEF Shape
<1>3. req[h].spec \in SUBSET Places
  BY <1>1 DEF Request
<1>4. QED
  BY <1>1, <1>2, <1>3 DEF UpsertCrd, DeleteCrd, Values

LEMMA ShapeInit == ASSUME Init PROVE Shape
<1>1. Idle \in Request /\ Idle.stage = "idle"
  BY DEF Idle, Request
<1>2. \A h \in Handlers : req[h] = Idle
  BY DEF Init
<1>3. {requests, lost, restarts} \subseteq Nat
  BY DEF Init
<1>4. QED
  BY <1>1, <1>2, <1>3 DEF Init, Shape, TypeOK, Clusters, Values

\* The memory after a start has the types of the objects.
LEMMA RestartEffect ==
  ASSUME Shape, Restart
  PROVE  /\ apps' \in [Apps -> Values]
         /\ index' \in [Places -> Apps \cup {Absent}]
         /\ req' \in [Handlers -> Request]
         /\ \A h \in Handlers : req'[h].stage = "idle"
<1>1. Idle \in Request /\ Idle.stage = "idle"
  BY DEF Idle, Request
<1>2. Names \subseteq Apps
  BY Specs
<1>3. index' \in [Places -> Names \cup {Absent}]
  BY DEF Restart
<1>4. apps' \in [Apps -> Values]
  BY DEF Restart, Shape, TypeOK, Values
<1>5. QED
  BY <1>1, <1>2, <1>3, <1>4 DEF Restart

\* A step of one request keeps the shape.
LEMMA HandlerShape ==
  ASSUME Shape, NEW h \in Handlers,
         \/ \E a \in Apps : \/ \E s \in SUBSET Places, known \in SUBSET Clusters : Put(h, a, s, known)
                            \/ Delete(h, a)
         \/ CheckConflicts(h) \/ GetCrd(h) \/ UpsertCrd(h) \/ Fails(h) \/ DeleteCrd(h)
         \/ Store(h) \/ Remove(h) \/ Trigger(h)
  PROVE  Shape'
<1>1. ASSUME req' \in [Handlers -> Request],
             req'[h].stage = "idle" \/ req'[h].app \in Apps, Others(h)
      PROVE  /\ req' \in [Handlers -> Request]
             /\ \A g \in Handlers : req'[g].stage # "idle" => req'[g].app \in Apps
  BY <1>1 DEF Shape, Others
<1>2. ASSUME NEW a \in Apps, NEW s \in SUBSET Places, NEW known \in SUBSET Clusters,
             Put(h, a, s, known)
      PROVE  Shape'
  <2>1. req' \in [Handlers -> Request] /\ req'[h].app \in Apps /\ Others(h) /\ requests' \in Nat
    BY <1>2, PutEffect
  <2>2. QED
    BY <1>1, <1>2, <2>1 DEF Put, memory, Shape, TypeOK
<1>3. ASSUME NEW a \in Apps, Delete(h, a) PROVE Shape'
  <2>1. req' \in [Handlers -> Request] /\ req'[h].app \in Apps /\ Others(h) /\ requests' \in Nat
    BY <1>3, DeleteEffect
  <2>2. QED
    BY <1>1, <1>3, <2>1 DEF Delete, memory, Shape, TypeOK
<1>4. CASE CheckConflicts(h)
  <2>1. req[h] \in Request /\ req[h].app \in Apps
    BY <1>4 DEF CheckConflicts, Shape, TypeOK
  <2>2. contested' \in SUBSET Places
    BY <1>4, <2>1 DEF CheckConflicts, Shape, TypeOK, Request
  <2>3. req' \in [Handlers -> Request] /\ (req'[h].stage = "idle" \/ req'[h].app \in Apps) /\ Others(h)
    BY <1>4, <2>1, EndsEffect, EnterEffect DEF CheckConflicts
  <2>4. QED
    BY <1>1, <1>4, <2>2, <2>3 DEF CheckConflicts, memory, counters, Shape, TypeOK
<1>5. CASE GetCrd(h)
  <2>1. req' \in [Handlers -> Request] /\ req'[h].app \in Apps /\ Others(h)
    BY <1>5, GetEffect DEF GetCrd, Shape
  <2>2. QED
    BY <1>1, <1>5, <2>1 DEF GetCrd, memory, counters, Shape, TypeOK
<1>6. CASE UpsertCrd(h) \/ DeleteCrd(h)
  <2> DEFINE v == IF req[h].op = "put" THEN req[h].spec ELSE NoSpec
  <2>1. /\ req[h].app \in Apps /\ NameFor(h) \in Names
        /\ v \in Values /\ Writes(h, NameFor(h), v)
    BY <1>6, WriterEffect
  <2> HIDE DEF v
  <2>2. /\ UNCHANGED <<memory, token, manager, ensured, contested, requests, restarts>>
        /\ req' \in [Handlers -> Request]
        /\ crd' \in [Names -> Values]
        /\ lost' \in Nat /\ unsure' \in SUBSET Names
        /\ Others(h)
        /\ req'[h].stage = "idle" \/ req'[h].app = req[h].app
    BY <2>1, WritesEffect
  <2>3. QED
    BY <1>1, <2>1, <2>2 DEF memory, Shape, TypeOK
<1>7. CASE Fails(h)
  <2>1. req' \in [Handlers -> Request] /\ req'[h].stage = "idle" /\ Others(h)
    BY <1>7, EndsEffect DEF Fails
  <2>2. QED
    BY <1>1, <1>7, <2>1 DEF Fails, memory, counters, Shape, TypeOK
<1>8. CASE Store(h) \/ Remove(h)
  <2>1. /\ apps' \in [Apps -> Values]
        /\ index' \in [Places -> Apps \cup {Absent}]
        /\ unsure' \in SUBSET Names
        /\ req[h].app \in Apps
        /\ Goes(h, "stored")
        /\ UNCHANGED <<crd, token, manager, ensured, contested, counters>>
    BY <1>8, MemoryEffect
  <2>2. req' \in [Handlers -> Request] /\ req'[h].app \in Apps /\ Others(h)
    BY <2>1, GoesEffect
  <2>3. QED
    BY <1>1, <2>1, <2>2 DEF counters, Shape, TypeOK
<1>9. CASE Trigger(h)
  <2>1. req' \in [Handlers -> Request] /\ req'[h].stage = "idle" /\ Others(h)
    BY <1>9, EndsEffect DEF Trigger
  <2>2. QED
    BY <1>1, <1>9, <2>1 DEF Trigger, memory, counters, Shape, TypeOK
<1>10. QED
  BY <1>2, <1>3, <1>4, <1>5, <1>6, <1>7, <1>8, <1>9

LEMMA ShapeStep == ASSUME Shape, [Next]_vars PROVE Shape'
<1>1. ASSUME NEW h \in Handlers,
         \/ \E a \in Apps : \/ \E s \in SUBSET Places, known \in SUBSET Clusters : Put(h, a, s, known)
                            \/ Delete(h, a)
         \/ CheckConflicts(h) \/ GetCrd(h) \/ UpsertCrd(h) \/ Fails(h) \/ DeleteCrd(h)
         \/ Store(h) \/ Remove(h) \/ Trigger(h)
      PROVE Shape'
  BY <1>1, HandlerShape
<1>2. CASE Wake
  BY <1>2 DEF Wake, memory, counters, Shape, TypeOK
<1>3. CASE Ensure
  <2>1. DesiredClusters \in SUBSET Clusters
    BY Specs DEF DesiredClusters, Clusters
  <2>2. QED
    BY <1>3, <2>1 DEF Ensure, memory, counters, Shape, TypeOK
<1>4. CASE Restart
  <2>1. restarts' \in Nat /\ contested' \in SUBSET Places
    BY <1>4 DEF Restart, Shape, TypeOK
  <2>2. QED
    BY <1>4, <2>1, RestartEffect DEF Restart, Shape, TypeOK
<1>5. CASE UNCHANGED vars
  BY <1>5 DEF vars, memory, counters, Shape, TypeOK
<1>6. QED
  BY <1>1, <1>2, <1>3, <1>4, <1>5 DEF Next

\* Type correctness: in particular the trigger channel never overflows.
THEOREM TypeCorrect == Spec => []TypeOK
<1>1. Init => Shape
  BY ShapeInit
<1>2. Shape /\ [Next]_vars => Shape'
  BY ShapeStep
<1>3. Shape => TypeOK
  BY DEF Shape
<1>4. QED
  BY <1>1, <1>2, <1>3, PTL DEF Spec

----------------------------------------------------------------------------
(* One owner per place *)

\* A request past its check finds its places free or its own until it stores
\* them, and so do those that want the same place.
Windows ==
    /\ \A h \in Handlers, p \in Places :
          Claims(h, p) /\ p \notin contested => index[p] \in {Absent, req[h].app}
    /\ \A h, g \in Handlers, p \in Places :
          Claims(h, p) /\ Claims(g, p) /\ p \notin contested => req[h].app = req[g].app

\* Nothing changes for the places.
LEMMA IndexQuiet ==
  ASSUME Shape, Windows, IndexIsRight, UNCHANGED <<memory, contested>>,
         \A g \in Handlers, p \in Places :
             Claims(g, p)' => Claims(g, p) /\ req'[g].app = req[g].app
  PROVE  (Windows /\ IndexIsRight)'
<1>1. UNCHANGED <<index, apps, contested>>
  BY DEF memory
<1>2. Windows'
  BY <1>1 DEF Windows
<1>3. IndexIsRight'
  BY <1>1 DEF IndexIsRight, Registered
<1>4. QED
  BY <1>2, <1>3

\* The check passes: the places are free or the app's own, and those that
\* another app wants as well are contested from now on.
LEMMA IndexEnter ==
  ASSUME Shape, Windows, IndexIsRight, NEW h \in Handlers,
         req[h].stage = "known", Conflicts(h) = {}, Enter(h, req[h]), UNCHANGED memory,
         contested' = contested \cup
             {p \in req[h].spec : \E g \in Handlers \ {h} :
                                     Claims(g, p) /\ req[g].app # req[h].app}
  PROVE  (Windows /\ IndexIsRight)'
<1>1. req[h] \in Request
  BY DEF Shape, TypeOK
<1>2. /\ req'[h].app = req[h].app /\ req'[h].op = req[h].op /\ req'[h].spec = req[h].spec
      /\ Others(h)
  BY <1>1, EnterEffect
<1>3. ASSUME NEW g \in Handlers, NEW p \in Places, Claims(g, p)'
      PROVE  req'[g].app = req[g].app /\ (g # h => Claims(g, p)) /\ p \in req[g].spec
  BY <1>2, <1>3 DEF Claims, InWindow, Others
<1>4. UNCHANGED <<index, apps>>
  BY DEF memory
<1>5. ASSUME NEW g \in Handlers, NEW p \in Places, Claims(g, p)', p \notin contested'
      PROVE  index'[p] \in {Absent, req'[g].app}
  <2>1. CASE g = h
    BY <1>3, <1>4, <1>5, <2>1 DEF Conflicts
  <2>2. CASE g # h
    BY <1>3, <1>4, <1>5, <2>2 DEF Windows
  <2>3. QED
    BY <2>1, <2>2
<1>6. ASSUME NEW f \in Handlers, NEW g \in Handlers, NEW p \in Places,
             Claims(f, p)', Claims(g, p)', p \notin contested'
      PROVE  req'[f].app = req'[g].app
  <2>1. CASE f = h /\ g # h
    <3>1. p \in req[h].spec /\ Claims(g, p) /\ req'[g].app = req[g].app
      BY <1>3, <1>6, <2>1
    <3>2. req[g].app = req[h].app
      BY <1>6, <2>1, <3>1
    <3>3. QED
      BY <1>2, <2>1, <3>1, <3>2
  <2>2. CASE f # h /\ g = h
    <3>1. p \in req[h].spec /\ Claims(f, p) /\ req'[f].app = req[f].app
      BY <1>3, <1>6, <2>2
    <3>2. req[f].app = req[h].app
      BY <1>6, <2>2, <3>1
    <3>3. QED
      BY <1>2, <2>2, <3>1, <3>2
  <2>3. CASE f # h /\ g # h
    BY <1>3, <1>6, <2>3 DEF Windows
  <2>4. CASE f = h /\ g = h
    BY <2>4
  <2>5. QED
    BY <2>1, <2>2, <2>3, <2>4
<1>7. IndexIsRight'
  BY <1>4 DEF IndexIsRight, Registered
<1>8. QED
  BY <1>5, <1>6, <1>7 DEF Windows

\* The update of the memory, with the spec s of a Put or none of a Delete.
LEMMA IndexUpdate ==
  ASSUME Shape, Windows, IndexIsRight, NEW h \in Handlers, Store(h) \/ Remove(h)
  PROVE  (Windows /\ IndexIsRight)'
<1> DEFINE a == req[h].app
           s == IF req[h].op = "put" THEN req[h].spec ELSE {}
<1>1. /\ req[h] \in Request /\ a \in Apps /\ a # Absent
      /\ req[h].stage = "written" /\ Goes(h, "stored")
      /\ apps'[a] = IF req[h].op = "put" THEN req[h].spec ELSE NoSpec
      /\ \A b \in Apps \ {a} : apps'[b] = apps[b]
      /\ UNCHANGED contested
  BY MemoryEffect, Specs, WatchlistAssumption
<1>2. /\ req'[h].stage = "stored"
      /\ \A g \in Handlers \ {h} : req'[g] = req[g]
  BY <1>1, GoesEffect
<1>3. \A p \in Places : index'[p] = IF p \in s THEN a ELSE IF index[p] = a THEN Absent ELSE index[p]
  BY DEF Store, Remove, Without
<1>4. \A p \in Places : p \in s => Claims(h, p) /\ req[h].op = "put"
  BY <1>1 DEF Claims, InWindow
<1>5. \A g \in Handlers, p \in Places : Claims(g, p)' => g # h /\ Claims(g, p) /\ req'[g].app = req[g].app
  BY <1>2 DEF Claims, InWindow
<1>6. apps'[a] = s \/ (apps'[a] = NoSpec /\ s = {})
  BY <1>1
<1>7. s \in SUBSET Places /\ NoSpec \notin SUBSET Places
  BY <1>1, Specs DEF Request
<1>8. \A p \in Places : index[p] \in Apps \cup {Absent}
  BY DEF Shape, TypeOK
<1> HIDE DEF s, a
<1>9. ASSUME NEW g \in Handlers, NEW p \in Places, Claims(g, p)', p \notin contested'
      PROVE  index'[p] \in {Absent, req'[g].app}
  <2>1. CASE p \in s
    BY <1>1, <1>3, <1>4, <1>5, <1>9, <2>1 DEF Windows, a
  <2>2. CASE p \notin s
    BY <1>1, <1>3, <1>5, <1>9, <2>2 DEF Windows
  <2>3. QED
    BY <2>1, <2>2
<1>10. ASSUME NEW f \in Handlers, NEW g \in Handlers, NEW p \in Places,
             Claims(f, p)', Claims(g, p)', p \notin contested'
      PROVE  req'[f].app = req'[g].app
  BY <1>1, <1>5, <1>10 DEF Windows
<1>11. ASSUME NEW p \in Places, index'[p] # Absent
       PROVE  Registered(index[p])' /\ p \in apps'[index'[p]]
  <2>1. CASE p \in s
    BY <1>3, <1>6, <1>7, <2>1 DEF Registered
  <2>2. CASE p \notin s
    <3>1. index'[p] = index[p] /\ index[p] # a /\ index[p] \in Apps
      BY <1>3, <1>8, <1>11, <2>2
    <3>2. Registered(index[p]) /\ p \in apps[index[p]]
      BY <1>11, <3>1 DEF IndexIsRight
    <3>3. QED
      BY <1>1, <3>1, <3>2 DEF Registered
  <2>3. QED
    BY <2>1, <2>2
<1>12. ASSUME NEW p \in Places \ contested', NEW b \in Apps, Registered(b)', p \in apps'[b]
       PROVE  index'[p] = b
  <2>1. CASE b = a
    <3>1. p \in s
      BY <1>6, <1>12, <2>1 DEF Registered
    <3>2. QED
      BY <1>3, <2>1, <3>1
  <2>2. CASE b # a
    <3>1. index[p] = b /\ b # Absent
      BY <1>1, <1>12, <2>2, WatchlistAssumption DEF IndexIsRight, Registered
    <3>2. p \notin s
      BY <1>1, <1>4, <1>12, <2>2, <3>1 DEF Windows, a
    <3>3. QED
      BY <1>3, <2>2, <3>1, <3>2
  <2>3. QED
    BY <2>1, <2>2
<1>13. IndexIsRight'
  BY <1>11, <1>12 DEF IndexIsRight
<1>14. QED
  BY <1>9, <1>10, <1>13 DEF Windows

\* After a start the owners are those of the objects, contested where two are.
LEMMA IndexRestart ==
  ASSUME Shape, Restart PROVE (Windows /\ IndexIsRight)'
<1>1. \A h \in Handlers : req'[h].stage = "idle"
  BY RestartEffect
<1>2. Windows'
  BY <1>1 DEF Windows, Claims, InWindow
<1>3. Names \subseteq Apps /\ Absent \notin Apps
  BY Specs, WatchlistAssumption
<1>4. \A p \in Places : IF Owners(p) = {} THEN index'[p] = Absent ELSE index'[p] \in Owners(p)
  BY DEF Restart
<1>5. \A a \in Apps : apps'[a] = IF a \in Names THEN crd[a] ELSE NoSpec
  BY DEF Restart
<1>6. \A p \in Places, a \in Apps : Registered(a)' /\ p \in apps'[a] <=> a \in Owners(p)
  BY <1>3, <1>5 DEF Owners, Registered
<1>7. \A p \in Places \ contested' : \A m, n \in Owners(p) : m = n
  BY DEF Restart
<1>8. \A p \in Places : index'[p] # Absent => index'[p] \in Apps /\ index'[p] \in Owners(p)
  BY <1>3, <1>4 DEF Owners
<1>9. \A p \in Places : index'[p] # Absent => Registered(index[p])' /\ p \in apps'[index'[p]]
  BY <1>6, <1>8
<1>10. ASSUME NEW p \in Places \ contested', NEW a \in Apps, Registered(a)', p \in apps'[a]
       PROVE  index'[p] = a
  BY <1>4, <1>6, <1>7, <1>10
<1>11. QED
  BY <1>2, <1>9, <1>10 DEF IndexIsRight

LEMMA IndexStep ==
  ASSUME Shape, Windows, IndexIsRight, [Next]_vars PROVE (Windows /\ IndexIsRight)'
<1>1. ASSUME NEW h \in Handlers, NEW a \in Apps, NEW s \in SUBSET Places,
             NEW known \in SUBSET Clusters, Put(h, a, s, known)
      PROVE  (Windows /\ IndexIsRight)'
  <2>1. req'[h].stage = "known" /\ \A g \in Handlers \ {h} : req'[g] = req[g]
    BY <1>1, PutEffect
  <2>2. UNCHANGED <<memory, contested>>
    BY <1>1 DEF Put
  <2>3. QED
    BY <2>1, <2>2, IndexQuiet DEF Claims, InWindow
<1>2. ASSUME NEW h \in Handlers, NEW a \in Apps, Delete(h, a) PROVE (Windows /\ IndexIsRight)'
  <2>1. req'[h].op = "delete" /\ Others(h)
    BY <1>2, DeleteEffect
  <2>2. UNCHANGED <<memory, contested>>
    BY <1>2 DEF Delete
  <2>3. QED
    BY <2>1, <2>2, IndexQuiet DEF Claims, InWindow, Others
<1>3. ASSUME NEW h \in Handlers, CheckConflicts(h) PROVE (Windows /\ IndexIsRight)'
  <2>1. CASE Conflicts(h) # {} /\ Ends(h) /\ UNCHANGED contested
    <3>1. req'[h].stage = "idle" /\ \A g \in Handlers \ {h} : req'[g] = req[g]
      BY <2>1, EndsEffect
    <3>2. QED
      BY <1>3, <2>1, <3>1, IndexQuiet DEF CheckConflicts, Claims, InWindow
  <2>2. CASE Conflicts(h) = {}
    BY <1>3, <2>2, IndexEnter DEF CheckConflicts
  <2>3. QED
    BY <1>3, <2>1, <2>2 DEF CheckConflicts
<1>4. ASSUME NEW h \in Handlers, GetCrd(h) PROVE (Windows /\ IndexIsRight)'
  <2>1. /\ req[h].stage = "checked" /\ req'[h].app = req[h].app /\ req'[h].op = req[h].op
        /\ req'[h].spec = req[h].spec /\ \A g \in Handlers \ {h} : req'[g] = req[g]
    BY <1>4, GetEffect DEF GetCrd
  <2>2. UNCHANGED <<memory, contested>>
    BY <1>4 DEF GetCrd
  <2>3. QED
    BY <2>1, <2>2, IndexQuiet DEF Claims, InWindow
<1>5. ASSUME NEW h \in Handlers, UpsertCrd(h) \/ DeleteCrd(h) PROVE (Windows /\ IndexIsRight)'
  <2> DEFINE v == IF req[h].op = "put" THEN req[h].spec ELSE NoSpec
  <2>1. /\ req[h].app \in Apps /\ NameFor(h) \in Names /\ req[h].stage \in {"checked", "found"}
        /\ v \in Values /\ Writes(h, NameFor(h), v)
    BY <1>5, WriterEffect
  <2> HIDE DEF v
  <2>2. /\ UNCHANGED <<memory, contested>> /\ Others(h)
        /\ \/ req'[h].stage = "written" /\ req'[h].app = req[h].app
              /\ req'[h].op = req[h].op /\ req'[h].spec = req[h].spec
           \/ req'[h].stage = "idle"
    BY <2>1, WritesEffect
  <2>3. QED
    BY <2>1, <2>2, IndexQuiet DEF Claims, InWindow, Others
<1>6. ASSUME NEW h \in Handlers, Fails(h) \/ Trigger(h) PROVE (Windows /\ IndexIsRight)'
  <2>1. UNCHANGED <<memory, contested>> /\ Ends(h)
    BY <1>6 DEF Fails, Trigger
  <2>2. req'[h].stage = "idle" /\ \A g \in Handlers \ {h} : req'[g] = req[g]
    BY <2>1, EndsEffect
  <2>3. QED
    BY <2>1, <2>2, IndexQuiet DEF Claims, InWindow
<1>7. ASSUME NEW h \in Handlers, Store(h) \/ Remove(h) PROVE (Windows /\ IndexIsRight)'
  BY <1>7, IndexUpdate
<1>8. CASE Wake \/ Ensure \/ UNCHANGED vars
  <2>1. UNCHANGED <<memory, contested, req>>
    BY <1>8 DEF Wake, Ensure, vars
  <2>2. QED
    BY <2>1, IndexQuiet DEF Claims, InWindow
<1>9. CASE Restart
  BY <1>9, IndexRestart
<1>10. QED
  BY <1>1, <1>2, <1>3, <1>4, <1>5, <1>6, <1>7, <1>8, <1>9 DEF Next

\* A place has one owner, the one a lookup finds.
THEOREM OneOwner == Spec => []IndexIsRight
<1>1. Init => Windows /\ IndexIsRight
  <2> SUFFICES ASSUME Init PROVE Windows /\ IndexIsRight
    OBVIOUS
  <2>1. \A h \in Handlers : req[h].stage = "idle"
    BY DEF Init, Idle
  <2>2. QED
    BY <2>1 DEF Init, Windows, IndexIsRight, Claims, InWindow, Registered
<1>2. Shape /\ Windows /\ IndexIsRight /\ [Next]_vars => (Windows /\ IndexIsRight)'
  BY IndexStep
<1>3. QED
  BY <1>1, <1>2, ShapeInit, ShapeStep, PTL DEF Spec

----------------------------------------------------------------------------
(* The objects and the memory *)

Agreed(n) ==
    /\ \A a \in Apps : NameOf[a] = n /\ Registered(a) => crd[n] = apps[a]
    /\ crd[n] # NoSpec => \E a \in Apps : NameOf[a] = n /\ apps[a] = crd[n]

Written(h) == req[h].stage = "written"

\* A request that is alone has no peer in its window; what it wrote stands until
\* it stores it; a name is in agreement while nothing written waits to be stored.
Durable ==
    /\ \A h, g \in Handlers :
          h # g /\ InWindow(h) /\ InWindow(g) /\ NameFor(h) = NameFor(g) => ~req[h].alone
    /\ \A n \in Names \ unsure :
          (\A h \in Handlers : Written(h) => NameFor(h) # n) => Agreed(n)
    /\ \A h \in Handlers : Written(h) /\ req[h].alone =>
          crd[NameFor(h)] = IF req[h].op = "put" THEN req[h].spec ELSE NoSpec

\* Nothing is written or stored, and no request enters its window.
LEMMA DurableQuiet ==
  ASSUME Shape, Durable, UNCHANGED <<apps, crd, unsure>>,
         \A g \in Handlers :
            /\ Written(g)' <=> Written(g)
            /\ InWindow(g)' => /\ InWindow(g) /\ req'[g].app = req[g].app
                               /\ req'[g].op = req[g].op /\ req'[g].spec = req[g].spec
                               /\ req'[g].alone => req[g].alone
  PROVE  Durable'
<1>1. \A g \in Handlers : Written(g) => InWindow(g)
  BY DEF Written, InWindow
<1>2. \A g \in Handlers : Written(g)' => InWindow(g)'
  BY DEF Written, InWindow
<1>3. \A g \in Handlers : InWindow(g)' => NameFor(g)' = NameFor(g)
  BY DEF NameFor
<1>4. ASSUME NEW h \in Handlers, NEW g \in Handlers, h # g, InWindow(h)', InWindow(g)',
             NameFor(h)' = NameFor(g)'
      PROVE  ~req'[h].alone
  BY <1>3, <1>4 DEF Durable
<1>5. \A n \in Names : Agreed(n)' <=> Agreed(n)
  BY DEF Agreed, Registered
<1>6. ASSUME NEW n \in Names \ unsure', \A h \in Handlers : Written(h)' => NameFor(h)' # n
      PROVE  Agreed(n)'
  BY <1>1, <1>2, <1>3, <1>5, <1>6 DEF Durable
<1>7. ASSUME NEW h \in Handlers, Written(h)', req'[h].alone
      PROVE  crd'[NameFor(h)'] = IF req'[h].op = "put" THEN req'[h].spec ELSE NoSpec
  <2>1. /\ Written(h) /\ req[h].alone /\ NameFor(h)' = NameFor(h)
        /\ req'[h].op = req[h].op /\ req'[h].spec = req[h].spec
    BY <1>2, <1>3, <1>7
  <2>2. QED
    BY <2>1 DEF Durable
<1>8. QED
  BY <1>4, <1>6, <1>7 DEF Durable

\* A request enters its window with the app a: its peers are not alone any more.
LEMMA DurableEnter ==
  ASSUME Shape, Durable, UNCHANGED <<apps, crd, unsure>>, NEW h \in Handlers, NEW a \in Apps,
         req[h].stage \in {"idle", "known"},
         req'[h].stage = "checked", req'[h].app = a,
         \A g \in Handlers \ {h} : InWindow(g) /\ NameFor(g) = NameOf[a]
                                     => ~req'[h].alone /\ ~req'[g].alone,
         Others(h)
  PROVE  Durable'
<1>1. \A g \in Handlers \ {h} :
         /\ InWindow(g)' <=> InWindow(g)
         /\ Written(g)' <=> Written(g)
         /\ NameFor(g)' = NameFor(g)
         /\ req'[g].op = req[g].op /\ req'[g].spec = req[g].spec
         /\ req'[g].alone => req[g].alone
  BY DEF Others, InWindow, Written, NameFor
<1>2. ~Written(h) /\ ~Written(h)' /\ NameFor(h)' = NameOf[a]
  BY DEF Written, NameFor
<1>3. ASSUME NEW f \in Handlers, NEW g \in Handlers, f # g, InWindow(f)', InWindow(g)',
             NameFor(f)' = NameFor(g)'
      PROVE  ~req'[f].alone
  <2>1. CASE f = h
    BY <1>1, <1>2, <1>3, <2>1
  <2>2. CASE g = h
    BY <1>1, <1>2, <1>3, <2>2
  <2>3. CASE f # h /\ g # h
    BY <1>1, <1>3, <2>3 DEF Durable
  <2>4. QED
    BY <2>1, <2>2, <2>3
<1>4. \A n \in Names : Agreed(n)' <=> Agreed(n)
  BY DEF Agreed, Registered
<1>5. ASSUME NEW n \in Names \ unsure', \A g \in Handlers : Written(g)' => NameFor(g)' # n
      PROVE  Agreed(n)'
  <2>1. \A g \in Handlers : Written(g) => NameFor(g) # n
    BY <1>1, <1>2, <1>5
  <2>2. QED
    BY <1>4, <2>1 DEF Durable
<1>6. ASSUME NEW g \in Handlers, Written(g)', req'[g].alone
      PROVE  crd'[NameFor(g)'] = IF req'[g].op = "put" THEN req'[g].spec ELSE NoSpec
  <2>1. g # h
    BY <1>2, <1>6
  <2>2. /\ Written(g) /\ req[g].alone /\ NameFor(g)' = NameFor(g)
        /\ req'[g].op = req[g].op /\ req'[g].spec = req[g].spec
    BY <1>1, <1>6, <2>1
  <2>3. QED
    BY <2>2 DEF Durable
<1>7. QED
  BY <1>3, <1>5, <1>6 DEF Durable

\* The write: of its name nothing is promised until it is stored, or for good.
LEMMA DurableWrite ==
  ASSUME Shape, Durable, NEW h \in Handlers, UpsertCrd(h) \/ DeleteCrd(h)
  PROVE  Durable'
<1> DEFINE n == NameFor(h)
           v == IF req[h].op = "put" THEN req[h].spec ELSE NoSpec
<1>1. /\ req[h].app \in Apps /\ n \in Names /\ req[h].stage \in {"checked", "found"}
      /\ v \in Values /\ Writes(h, n, v)
  BY WriterEffect
<1>2. InWindow(h) /\ ~Written(h)
  BY <1>1 DEF InWindow, Written
<1> HIDE DEF v
<1>3. /\ UNCHANGED memory /\ Others(h)
      /\ crd'[n] = v /\ \A m \in Names \ {n} : crd'[m] = crd[m]
      /\ \/ /\ req'[h].stage = "written" /\ req'[h].app = req[h].app
            /\ req'[h].op = req[h].op /\ req'[h].spec = req[h].spec
            /\ req'[h].alone = req[h].alone
            /\ unsure' = unsure
         \/ /\ req'[h].stage = "idle"
            /\ unsure' = unsure \cup {n}
  BY <1>1, WritesEffect
<1>4. \A g \in Handlers \ {h} :
         /\ InWindow(g)' <=> InWindow(g)
         /\ Written(g)' <=> Written(g)
         /\ NameFor(g)' = NameFor(g)
         /\ req'[g].op = req[g].op /\ req'[g].spec = req[g].spec
         /\ req'[g].alone => req[g].alone
  BY <1>3 DEF Others, InWindow, Written, NameFor
<1>5. /\ InWindow(h)' => NameFor(h)' = n /\ req'[h].alone = req[h].alone
      /\ Written(h)' => /\ unsure' = unsure /\ req'[h].op = req[h].op
                        /\ req'[h].spec = req[h].spec
      /\ ~Written(h)' => unsure' = unsure \cup {n}
      /\ Written(h)' => InWindow(h)'
  BY <1>3 DEF InWindow, Written, NameFor
<1> HIDE DEF n
<1>6. ASSUME NEW f \in Handlers, NEW g \in Handlers, f # g, InWindow(f)', InWindow(g)',
             NameFor(f)' = NameFor(g)'
      PROVE  ~req'[f].alone
  <2>1. InWindow(f) /\ InWindow(g) /\ NameFor(f) = NameFor(g)
    BY <1>2, <1>4, <1>5, <1>6 DEF n
  <2>2. ~req[f].alone
    BY <1>6, <2>1 DEF Durable
  <2>3. QED
    BY <1>4, <1>5, <1>6, <2>2
<1>7. ASSUME NEW m \in Names \ unsure', \A g \in Handlers : Written(g)' => NameFor(g)' # m
      PROVE  Agreed(m)'
  <2>1. m # n
    BY <1>5, <1>7
  <2>2. \A g \in Handlers : Written(g) => NameFor(g) # m
    BY <1>2, <1>4, <1>7
  <2>3. Agreed(m) /\ crd'[m] = crd[m] /\ UNCHANGED apps
    BY <1>3, <1>5, <1>7, <2>1, <2>2 DEF Durable, memory
  <2>4. QED
    BY <2>3 DEF Agreed, Registered
<1>8. ASSUME NEW g \in Handlers, Written(g)', req'[g].alone
      PROVE  crd'[NameFor(g)'] = IF req'[g].op = "put" THEN req'[g].spec ELSE NoSpec
  <2>1. CASE g = h
    BY <1>3, <1>5, <1>8, <2>1 DEF v
  <2>2. CASE g # h
    <3>1. Written(g) /\ req[g].alone /\ NameFor(g)' = NameFor(g) /\ InWindow(g)
      BY <1>4, <1>8, <2>2 DEF Written, InWindow
    <3>2. NameFor(g) # n
      BY <1>2, <2>2, <3>1 DEF Durable, n
    <3>3. NameFor(g) \in Names
      BY <3>1, Specs DEF Written
    <3>4. crd[NameFor(g)] = IF req[g].op = "put" THEN req[g].spec ELSE NoSpec
      BY <3>1 DEF Durable
    <3>5. QED
      BY <1>3, <1>4, <2>2, <3>1, <3>2, <3>3, <3>4
  <2>3. QED
    BY <2>1, <2>2
<1>9. QED
  BY <1>6, <1>7, <1>8 DEF Durable

\* The request stores what it wrote: alone, and with its name to itself, the name
\* is in agreement; if not, it is unsure.
LEMMA DurableStore ==
  ASSUME Shape, Durable, NEW h \in Handlers, Store(h) \/ Remove(h)
  PROVE  Durable'
<1> DEFINE n == NameFor(h)
           a == req[h].app
           v == IF req[h].op = "put" THEN req[h].spec ELSE NoSpec
           sole == /\ req[h].alone
                   /\ \A b \in Apps \ {a} : NameOf[b] = n => ~Registered(b)
<1>1. /\ req[h] \in Request /\ a \in Apps /\ n \in Names /\ n = NameOf[a]
      /\ Written(h) /\ Goes(h, "stored")
      /\ apps'[a] = v /\ \A b \in Apps \ {a} : apps'[b] = apps[b]
      /\ UNCHANGED crd
  BY MemoryEffect, Specs DEF Written, NameFor
<1>2. unsure' = IF sole THEN unsure \ {n} ELSE unsure \cup {n}
  BY DEF Store, Remove, Settles
<1>3. \A g \in Handlers \ {h} : req'[g] = req[g]
  BY <1>1, GoesEffect
<1>4. req'[h].stage = "stored"
  BY <1>1, GoesEffect
<1>5. ~Written(h)' /\ ~InWindow(h)'
  BY <1>4 DEF Written, InWindow
<1>6. \A g \in Handlers \ {h} :
         (Written(g)' <=> Written(g)) /\ (InWindow(g)' <=> InWindow(g)) /\ NameFor(g)' = NameFor(g)
  BY <1>3 DEF Written, InWindow, NameFor
<1>7. Written(h) /\ req[h].alone => crd[n] = v
  BY <1>1 DEF Durable
<1>8. ASSUME sole, NEW m \in Names, m = n PROVE Agreed(m)'
  <2>1. crd'[n] = v
    BY <1>1, <1>7, <1>8
  <2>2. \A b \in Apps \ {a} : NameOf[b] = n => apps'[b] = NoSpec
    BY <1>1, <1>8 DEF Registered
  <2> HIDE DEF v, n, sole, a
  <2>3. \A b \in Apps : NameOf[b] = m /\ apps'[b] # NoSpec => b = a
    BY <1>8, <2>2
  <2>4. crd'[m] = apps'[a] /\ a \in Apps /\ NameOf[a] = m
    BY <1>1, <1>8, <2>1
  <2>5. QED
    BY <2>3, <2>4 DEF Agreed, Registered
<1>9. ASSUME NEW m \in Names \ unsure', \A g \in Handlers : Written(g)' => NameFor(g)' # m
      PROVE  Agreed(m)'
  <2>1. CASE m = n
    <3>1. sole
      BY <1>2, <1>9, <2>1
    <3>2. QED
      BY <1>8, <2>1, <3>1
  <2>2. CASE m # n
    <3>1. m \notin unsure
      BY <1>2, <1>9, <2>2
    <3>2. \A g \in Handlers : Written(g) => NameFor(g) # m
      BY <1>6, <1>9, <2>2
    <3>3. Agreed(m)
      BY <3>1, <3>2 DEF Durable
    <3> HIDE DEF v, n, sole, a
    <3>4. \A b \in Apps : NameOf[b] = m => apps'[b] = apps[b]
      BY <1>1, <2>2
    <3>5. QED
      BY <1>1, <3>3, <3>4 DEF Agreed, Registered
  <2>3. QED
    BY <2>1, <2>2
<1>10. ASSUME NEW f \in Handlers, NEW g \in Handlers, f # g, InWindow(f)', InWindow(g)',
             NameFor(f)' = NameFor(g)'
      PROVE  ~req'[f].alone
  BY <1>3, <1>5, <1>6, <1>10 DEF Durable
<1>11. ASSUME NEW g \in Handlers, Written(g)', req'[g].alone
      PROVE  crd'[NameFor(g)'] = IF req'[g].op = "put" THEN req'[g].spec ELSE NoSpec
  <2>1. g # h
    BY <1>5, <1>11
  <2>2. QED
    BY <1>1, <1>3, <1>6, <1>11, <2>1 DEF Durable
<1>12. QED
  BY <1>9, <1>10, <1>11 DEF Durable

\* What is loaded agrees: every app is called by the name of its object.
LEMMA DurableRestart ==
  ASSUME Shape, Restart PROVE Durable'
<1>1. \A h \in Handlers : ~InWindow(h)' /\ ~Written(h)'
  BY RestartEffect DEF InWindow, Written
<1>2. ASSUME NEW n \in Names PROVE Agreed(n)'
  <2>1. n \in Apps /\ NameOf[n] = n
    BY <1>2, WatchlistAssumption DEF Names
  <2>2. \A a \in Names : NameOf[a] = a
    BY WatchlistAssumption DEF Names
  <2>3. \A a \in Apps : apps'[a] = IF a \in Names THEN crd[a] ELSE NoSpec
    BY DEF Restart
  <2>4. UNCHANGED crd
    BY DEF Restart
  <2>5. QED
    BY <1>2, <2>1, <2>2, <2>3, <2>4 DEF Agreed, Registered
<1>3. QED
  BY <1>1, <1>2 DEF Durable

LEMMA DurableStep == ASSUME Shape, Durable, [Next]_vars PROVE Durable'
<1>1. ASSUME NEW h \in Handlers, NEW a \in Apps, NEW s \in SUBSET Places,
             NEW known \in SUBSET Clusters, Put(h, a, s, known)
      PROVE  Durable'
  <2>1. req'[h].stage = "known" /\ \A g \in Handlers \ {h} : req'[g] = req[g]
    BY <1>1, PutEffect
  <2>2. UNCHANGED <<apps, crd, unsure>> /\ req[h].stage = "idle"
    BY <1>1 DEF Put, memory
  <2>3. QED
    BY <2>1, <2>2, DurableQuiet DEF InWindow, Written
<1>2. ASSUME NEW h \in Handlers, NEW a \in Apps, Delete(h, a) PROVE Durable'
  <2>1. UNCHANGED <<apps, crd, unsure>> /\ req[h].stage = "idle"
    BY <1>2 DEF Delete, memory
  <2>2. QED
    BY <1>2, <2>1, DeleteEffect, DurableEnter
<1>3. ASSUME NEW h \in Handlers, CheckConflicts(h) PROVE Durable'
  <2>1. UNCHANGED <<apps, crd, unsure>> /\ req[h].stage = "known" /\ req[h] \in Request
        /\ req[h].app \in Apps
    BY <1>3 DEF CheckConflicts, memory, Shape, TypeOK
  <2>2. CASE Ends(h)
    <3>1. req'[h].stage = "idle" /\ \A g \in Handlers \ {h} : req'[g] = req[g]
      BY <2>2, EndsEffect
    <3>2. QED
      BY <2>1, <3>1, DurableQuiet DEF InWindow, Written
  <2>3. CASE Enter(h, req[h])
    <3>1. /\ req'[h].stage = "checked" /\ req'[h].app = req[h].app
          /\ \A g \in Handlers \ {h} : InWindow(g) /\ NameFor(g) = NameOf[req[h].app]
                                         => ~req'[h].alone /\ ~req'[g].alone
          /\ Others(h)
      BY <2>1, <2>3, EnterEffect
    <3>2. QED
      BY <2>1, <3>1, DurableEnter
  <2>4. QED
    BY <1>3, <2>2, <2>3 DEF CheckConflicts
<1>4. ASSUME NEW h \in Handlers, GetCrd(h) PROVE Durable'
  <2>1. /\ req[h].stage = "checked" /\ req'[h].stage = "found" /\ req'[h].app = req[h].app
        /\ req'[h].op = req[h].op /\ req'[h].spec = req[h].spec /\ req'[h].alone = req[h].alone
        /\ \A g \in Handlers \ {h} : req'[g] = req[g]
    BY <1>4, GetEffect DEF GetCrd
  <2>2. UNCHANGED <<apps, crd, unsure>>
    BY <1>4 DEF GetCrd, memory
  <2>3. QED
    BY <2>1, <2>2, DurableQuiet DEF InWindow, Written
<1>5. ASSUME NEW h \in Handlers, UpsertCrd(h) \/ DeleteCrd(h) PROVE Durable'
  BY <1>5, DurableWrite
<1>6. ASSUME NEW h \in Handlers, Fails(h) \/ Trigger(h) PROVE Durable'
  <2>1. UNCHANGED <<apps, crd, unsure>> /\ Ends(h) /\ req[h].stage # "written"
    BY <1>6 DEF Fails, Trigger, memory
  <2>2. req'[h].stage = "idle" /\ \A g \in Handlers \ {h} : req'[g] = req[g]
    BY <2>1, EndsEffect
  <2>3. QED
    BY <2>1, <2>2, DurableQuiet DEF InWindow, Written
<1>7. ASSUME NEW h \in Handlers, Store(h) \/ Remove(h) PROVE Durable'
  BY <1>7, DurableStore
<1>8. CASE Wake \/ Ensure \/ UNCHANGED vars
  <2>1. UNCHANGED <<apps, crd, unsure, req>>
    BY <1>8 DEF Wake, Ensure, vars, memory
  <2>2. QED
    BY <2>1, DurableQuiet DEF InWindow, Written
<1>9. CASE Restart
  BY <1>9, DurableRestart
<1>10. QED
  BY <1>1, <1>2, <1>3, <1>4, <1>5, <1>6, <1>7, <1>8, <1>9 DEF Next

\* The objects hold what the API shows, where the last requests were alone.
THEOREM CrdsAreDurable == Spec => []CrdsAgree
<1>1. Init => Durable
  <2> SUFFICES ASSUME Init PROVE Durable
    OBVIOUS
  <2>1. \A h \in Handlers : ~InWindow(h) /\ ~Written(h)
    BY DEF Init, Idle, InWindow, Written
  <2>2. \A n \in Names : Agreed(n)
    BY Specs, ShapeInit DEF Init, Agreed, Registered
  <2>3. QED
    BY <2>1, <2>2 DEF Durable
<1>2. Shape /\ Durable /\ [Next]_vars => Durable'
  BY DurableStep
<1>3. Durable => CrdsAgree
  <2> SUFFICES ASSUME Durable, NEW n \in Names \ unsure,
                      \A h \in Handlers : InWindow(h) => NameFor(h) # n
               PROVE  Agreed(n)
    BY DEF CrdsAgree, Agreed
  <2>1. \A h \in Handlers : Written(h) => InWindow(h)
    BY DEF Written, InWindow
  <2>2. QED
    BY <2>1 DEF Durable
<1>4. QED
  BY <1>1, <1>2, <1>3, ShapeInit, ShapeStep, PTL DEF Spec

----------------------------------------------------------------------------
(* The trigger *)

LEMMA TriggerStep == ASSUME Shape, TriggersReach, [Next]_vars PROVE TriggersReach'
<1>0. ASSUME UNCHANGED apps PROVE DesiredClusters' = DesiredClusters
  BY <1>0 DEF DesiredClusters, Registered
<1>1. ASSUME UNCHANGED <<apps, token, manager, ensured>>,
             \A g \in Handlers : req[g].stage = "stored" => req'[g].stage = "stored"
      PROVE  TriggersReach'
  BY <1>0, <1>1 DEF TriggersReach
<1>2. ASSUME NEW h \in Handlers, NEW a \in Apps, NEW s \in SUBSET Places,
             NEW known \in SUBSET Clusters, Put(h, a, s, known)
      PROVE  TriggersReach'
  BY <1>1, <1>2, PutEffect DEF Put, memory
<1>3. ASSUME NEW h \in Handlers, NEW a \in Apps, Delete(h, a) PROVE TriggersReach'
  BY <1>1, <1>3, DeleteEffect DEF Delete, memory, Others
<1>4. ASSUME NEW h \in Handlers, CheckConflicts(h) PROVE TriggersReach'
  <2>1. req[h] \in Request /\ req[h].stage = "known" /\ UNCHANGED <<apps, token, manager, ensured>>
    BY <1>4 DEF CheckConflicts, memory, Shape, TypeOK
  <2>2. Others(h)
    BY <1>4, <2>1, EndsEffect, EnterEffect DEF CheckConflicts
  <2>3. QED
    BY <1>1, <2>1, <2>2 DEF Others
<1>5. ASSUME NEW h \in Handlers, GetCrd(h) PROVE TriggersReach'
  BY <1>1, <1>5, GetEffect DEF GetCrd, memory
<1>6. ASSUME NEW h \in Handlers, UpsertCrd(h) \/ DeleteCrd(h) PROVE TriggersReach'
  <2> DEFINE v == IF req[h].op = "put" THEN req[h].spec ELSE NoSpec
  <2>1. /\ req[h].app \in Apps /\ NameFor(h) \in Names /\ req[h].stage \in {"checked", "found"}
        /\ v \in Values /\ Writes(h, NameFor(h), v)
    BY <1>6, WriterEffect
  <2> HIDE DEF v
  <2>2. UNCHANGED <<memory, token, manager, ensured>> /\ Others(h)
    BY <2>1, WritesEffect
  <2>3. QED
    BY <1>1, <2>1, <2>2 DEF memory, Others
<1>7. ASSUME NEW h \in Handlers, Fails(h) PROVE TriggersReach'
  BY <1>1, <1>7, EndsEffect DEF Fails, memory
<1>8. ASSUME NEW h \in Handlers, Store(h) \/ Remove(h) PROVE TriggersReach'
  <2>1. req'[h].stage = "stored"
    BY <1>8, MemoryEffect, GoesEffect
  <2>2. QED
    BY <2>1 DEF TriggersReach
<1>9. ASSUME NEW h \in Handlers, Trigger(h) PROVE TriggersReach'
  BY <1>9 DEF Trigger, TriggersReach
<1>10. CASE Wake
  BY <1>10 DEF Wake, TriggersReach
<1>11. CASE Ensure
  <2>1. ensured' = DesiredClusters /\ UNCHANGED apps
    BY <1>11 DEF Ensure, memory
  <2>2. QED
    BY <1>0, <2>1 DEF TriggersReach
<1>12. CASE Restart
  BY <1>12 DEF Restart, TriggersReach
<1>13. CASE UNCHANGED vars
  BY <1>1, <1>13 DEF vars, memory
<1>14. QED
  BY <1>2, <1>3, <1>4, <1>5, <1>6, <1>7, <1>8, <1>9, <1>10, <1>11, <1>12, <1>13 DEF Next

\* No registration waits for the manager without a signal to it.
THEOREM NoTriggerIsLost == Spec => []TriggersReach
<1>1. Init => TriggersReach
  BY DEF Init, TriggersReach
<1>2. Shape /\ TriggersReach /\ [Next]_vars => TriggersReach'
  BY TriggerStep
<1>3. QED
  BY <1>1, <1>2, ShapeInit, ShapeStep, PTL DEF Spec

----------------------------------------------------------------------------
(* The refinement *)

\* What a request claims, by its stage.
LEMMA ClaimIs ==
  ASSUME Shape, NEW h \in Handlers
  PROVE  /\ ~InWindow(h) => ClaimOf(h) = Owned!NoClaim
         /\ InWindow(h) =>
              /\ ClaimOf(h).app = req[h].app /\ req[h].app \in Apps
              /\ ClaimOf(h).value = IF req[h].op = "put" THEN req[h].spec ELSE NoSpec
              /\ ClaimOf(h) \in Owned!Claims
              /\ ClaimOf(h) # Owned!NoClaim
         /\ \A p \in Places : Owned!Lists(ClaimOf(h).value, p) <=> Claims(h, p)
<1>1. Absent \notin Apps \cup Places
  BY WatchlistAssumption
<1>2. CASE ~InWindow(h)
  BY <1>1, <1>2 DEF ClaimOf, Owned!NoClaim, Owned!Unregistered, NoSpec, Owned!Lists, Claims
<1>3. CASE InWindow(h)
  <2>1. req[h].app \in Apps /\ req[h] \in Request
    BY <1>3 DEF InWindow, Shape, TypeOK
  <2> DEFINE v == IF req[h].op = "put" THEN req[h].spec ELSE NoSpec
  <2>2. v \in Owned!Values
    BY <2>1 DEF Request, NoSpec, Owned!Values, Owned!Unregistered
  <2>3. ClaimOf(h) = [app |-> req[h].app, value |-> v]
    BY <1>3 DEF ClaimOf
  <2>4. \A p \in Places : Owned!Lists(v, p) <=> Claims(h, p)
    BY <1>1, <1>3 DEF Owned!Lists, Claims, NoSpec
  <2> HIDE DEF v
  <2>5. ClaimOf(h) \in Owned!Claims /\ ClaimOf(h) # Owned!NoClaim
    BY <1>1, <2>1, <2>2, <2>3 DEF Owned!Claims, Owned!NoClaim
  <2>6. QED
    BY <1>3, <2>1, <2>3, <2>4, <2>5 DEF v
<1>4. QED
  BY <1>2, <1>3

\* The other requests keep their claims; this one has the claim c.
LEMMA ClaimedWith ==
  ASSUME NEW h \in Handlers, Others(h), NEW c, ClaimOf(h)' = c
  PROVE  Claimed' = [Claimed EXCEPT ![h] = c]
<1>1. \A g \in Handlers \ {h} : ClaimOf(g)' = ClaimOf(g)
  BY DEF Others, ClaimOf, InWindow
<1>2. QED
  BY <1>1 DEF Claimed

\* A request outside its window has no claim, one step later.
LEMMA NoClaimNext ==
  ASSUME NEW h \in Handlers, req'[h].stage \notin {"checked", "found", "written"}
  PROVE  ClaimOf(h)' = Owned!NoClaim
BY DEF ClaimOf, InWindow, Owned!NoClaim, Owned!Unregistered, NoSpec

\* One that stays where its app, operation and spec are has the same claim.
LEMMA ClaimStays ==
  ASSUME NEW h \in Handlers, Others(h), UNCHANGED <<index, apps, contested>>,
         InWindow(h)' <=> InWindow(h),
         InWindow(h) => /\ req'[h].app = req[h].app /\ req'[h].op = req[h].op
                        /\ req'[h].spec = req[h].spec
  PROVE  UNCHANGED Owned!ownershipVars
<1>1. ClaimOf(h)' = ClaimOf(h)
  BY DEF ClaimOf
<1>2. \A g \in Handlers \ {h} : ClaimOf(g)' = ClaimOf(g)
  BY DEF Others, ClaimOf, InWindow
<1>3. QED
  BY <1>1, <1>2 DEF Claimed, Owned!ownershipVars

\* A request that ends in its window withdraws; outside nothing is seen of it.
LEMMA EndsMaps ==
  ASSUME Shape, NEW h \in Handlers, Others(h), UNCHANGED <<index, apps, contested>>,
         req'[h].stage = "idle"
  PROVE  Owned!Withdraw(h)
<1>1. Claimed' = [Claimed EXCEPT ![h] = Owned!NoClaim]
  BY NoClaimNext, ClaimedWith
<1>2. QED
  BY <1>1 DEF Owned!Withdraw

\* Passing the check makes a claim on places that are free or one's own.
LEMMA ClaimMaps ==
  ASSUME Shape, Shape', NEW h \in Handlers, Others(h), ~InWindow(h), InWindow(h)',
         UNCHANGED <<index, apps>>,
         \A p \in Places : Claims(h, p)' => index[p] \in {Absent, req'[h].app},
         contested' = contested \cup
             {p \in Places : Claims(h, p)' /\ \E g \in Handlers \ {h} :
                                 Claims(g, p) /\ req[g].app # req'[h].app}
  PROVE  Owned!Claim(h)
<1> DEFINE c == Claimed'[h]
<1>1. c = ClaimOf(h)' /\ Claimed[h] = Owned!NoClaim
  BY ClaimIs DEF Claimed
<1>2. /\ req'[h].app \in Apps /\ c.app = req'[h].app
      /\ c.value = IF req'[h].op = "put" THEN req'[h].spec ELSE NoSpec
      /\ c \in Owned!Claims
  <2>1. req'[h].app \in Apps /\ req'[h] \in Request
    BY DEF InWindow, Shape, TypeOK
  <2> DEFINE v == IF req'[h].op = "put" THEN req'[h].spec ELSE NoSpec
  <2>2. v \in Owned!Values
    BY <2>1 DEF Request, NoSpec, Owned!Values, Owned!Unregistered
  <2>3. ClaimOf(h)' = [app |-> req'[h].app, value |-> v]
    BY DEF ClaimOf, NoSpec
  <2> HIDE DEF v
  <2>4. QED
    BY <1>1, <2>1, <2>2, <2>3 DEF Owned!Claims, v
<1>3. \A p \in Places : Owned!Lists(c.value, p) <=> Claims(h, p)'
  BY <1>2, WatchlistAssumption DEF Owned!Lists, Claims, NoSpec
<1>4. Claimed' = [Claimed EXCEPT ![h] = c]
  BY <1>1, ClaimedWith
<1>5. ASSUME NEW g \in Handlers \ {h}, NEW p \in Places
      PROVE  /\ Owned!Lists(Claimed[g].value, p) /\ Claimed[g].app # c.app
                  <=> Claims(g, p) /\ req[g].app # req'[h].app
  <2>1. Claimed[g] = ClaimOf(g)
    BY DEF Claimed
  <2>2. Owned!Lists(ClaimOf(g).value, p) <=> Claims(g, p)
    BY ClaimIs
  <2>3. Claims(g, p) => ClaimOf(g).app = req[g].app
    BY ClaimIs DEF Claims
  <2>4. QED
    BY <1>2, <2>1, <2>2, <2>3
<1> HIDE DEF c
<1>6. \A p \in Places : Owned!Lists(c.value, p) => index[p] \in {Absent, c.app}
  BY <1>2, <1>3
<1>7. contested' = contested \cup
        {p \in Places : /\ Owned!Lists(c.value, p)
                        /\ \E g \in Handlers \ {h} :
                              Owned!Lists(Claimed[g].value, p) /\ Claimed[g].app # c.app}
  BY <1>3, <1>5
<1>8. QED
  BY <1>1, <1>2, <1>4, <1>6, <1>7 DEF Owned!Claim, c

\* The update of the memory honours the claim of its request.
LEMMA SettleMaps ==
  ASSUME Shape, Windows, NEW h \in Handlers, Store(h) \/ Remove(h)
  PROVE  Owned!Settle(h)
<1> DEFINE a == Claimed[h].app
           v == Claimed[h].value
<1>1. /\ req[h].stage = "written" /\ Goes(h, "stored")
      /\ UNCHANGED contested
  BY DEF Store, Remove
<1>2. InWindow(h) /\ Claimed[h] = ClaimOf(h)
  BY <1>1 DEF InWindow, Claimed
<1>3. /\ a = req[h].app /\ a \in Apps /\ Claimed[h] # Owned!NoClaim
      /\ v = IF req[h].op = "put" THEN req[h].spec ELSE NoSpec
      /\ \A p \in Places : Owned!Lists(v, p) <=> Claims(h, p)
  BY <1>2, ClaimIs
<1>4. \A p \in Places \ contested : Owned!Lists(v, p) => index[p] \in {Absent, a}
  BY <1>3 DEF Windows
<1>5. apps' = [apps EXCEPT ![a] = v]
  BY <1>3 DEF Store, Remove
<1>6. \A p \in Places : Claims(h, p) <=> req[h].op = "put" /\ p \in req[h].spec
  BY <1>2 DEF Claims
<1>7. index' = [p \in Places |-> IF Owned!Lists(v, p) THEN a
                                ELSE IF index[p] = a THEN Absent ELSE index[p]]
  <2> HIDE DEF a, v
  <2>1. CASE Store(h)
    BY <1>3, <1>6, <2>1 DEF Store, Without
  <2>2. CASE Remove(h)
    BY <1>3, <1>6, <2>2 DEF Remove, Without
  <2>3. QED
    BY <2>1, <2>2
<1>8. Claimed' = [Claimed EXCEPT ![h] = Owned!NoClaim]
  BY <1>1, GoesEffect, NoClaimNext, ClaimedWith
<1>9. QED
  BY <1>1, <1>3, <1>4, <1>5, <1>7, <1>8 DEF Owned!Settle

\* A restart reloads: every place goes to an app whose object lists it.
LEMMA ReloadMaps ==
  ASSUME Shape, Restart
  PROVE  Owned!Reload
<1>1. \A h \in Handlers : ClaimOf(h)' = Owned!NoClaim
  BY RestartEffect, NoClaimNext
<1>2. Claimed' = [h \in Handlers |-> Owned!NoClaim]
  BY <1>1 DEF Claimed
<1>3. apps' \in [Apps -> Values] /\ index' \in [Places -> Apps \cup {Absent}]
  BY RestartEffect
<1>4. Owned!Values = Values
  BY DEF Owned!Values, Owned!Unregistered, Values, NoSpec
<1>5. ASSUME NEW p \in Places PROVE Owned!OwnersOf(p)' = Owners(p)
  <2>1. Names \subseteq Apps
    BY Specs
  <2>2. \A a \in Apps : apps'[a] = IF a \in Names THEN crd[a] ELSE NoSpec
    BY DEF Restart
  <2>3. p # Absent /\ p \notin NoSpec
    BY WatchlistAssumption DEF NoSpec
  <2>4. \A a \in Apps : Owned!Lists(apps'[a], p) <=> a \in Owners(p)
    BY <2>2, <2>3 DEF Owned!Lists, Owners
  <2>5. QED
    BY <2>1, <2>4 DEF Owned!OwnersOf, Owners, Owned!Lists
<1>6. \A p \in Places : IF Owned!OwnersOf(p)' = {} THEN index'[p] = Absent
                        ELSE index'[p] \in Owned!OwnersOf(p)'
  BY <1>5 DEF Restart
<1>7. contested' = {p \in Places : \E a, b \in Owned!OwnersOf(p)' : a # b}
  BY <1>5 DEF Restart
<1>8. QED
  BY <1>2, <1>3, <1>4, <1>6, <1>7 DEF Owned!Reload

\* A request waits for the check only in a PUT.
KnownPuts == \A h \in Handlers : req[h].stage = "known" => req[h].op = "put"

LEMMA KnownPutsStep == ASSUME Shape, KnownPuts, [Next]_vars PROVE KnownPuts'
<1>1. ASSUME NEW h \in Handlers, Others(h), req'[h].stage = "known" => req'[h].op = "put"
      PROVE  KnownPuts'
  BY <1>1 DEF KnownPuts, Others
<1>2. ASSUME NEW h \in Handlers, NEW a \in Apps, NEW s \in SUBSET Places,
             NEW known \in SUBSET Clusters, Put(h, a, s, known)
      PROVE  KnownPuts'
  <2>1. Others(h)
    BY <1>2, PutEffect
  <2>2. req'[h].op = "put"
    BY <1>2 DEF Put, Shape, TypeOK
  <2>3. QED
    BY <1>1, <2>1, <2>2
<1>3. ASSUME NEW h \in Handlers, NEW a \in Apps, Delete(h, a) PROVE KnownPuts'
  BY <1>1, <1>3, DeleteEffect
<1>4. ASSUME NEW h \in Handlers, CheckConflicts(h) PROVE KnownPuts'
  <2>1. req[h] \in Request
    BY DEF Shape, TypeOK
  <2>2. Ends(h) \/ Enter(h, req[h])
    BY <1>4 DEF CheckConflicts
  <2>3. QED
    BY <1>1, <2>1, <2>2, EndsEffect, EnterEffect
<1>5. ASSUME NEW h \in Handlers, GetCrd(h) PROVE KnownPuts'
  BY <1>1, <1>5, GetEffect
<1>6. ASSUME NEW h \in Handlers, UpsertCrd(h) \/ DeleteCrd(h) PROVE KnownPuts'
  <2> DEFINE v == IF req[h].op = "put" THEN req[h].spec ELSE NoSpec
  <2>1. /\ req[h].app \in Apps /\ NameFor(h) \in Names /\ v \in Values
        /\ Writes(h, NameFor(h), v)
    BY <1>6, WriterEffect
  <2> HIDE DEF v
  <2>2. QED
    BY <1>1, <2>1, WritesEffect
<1>7. ASSUME NEW h \in Handlers, Fails(h) \/ Trigger(h) PROVE KnownPuts'
  BY <1>1, <1>7, EndsEffect DEF Fails, Trigger
<1>8. ASSUME NEW h \in Handlers, Store(h) \/ Remove(h) PROVE KnownPuts'
  BY <1>1, <1>8, MemoryEffect, GoesEffect
<1>9. CASE Wake \/ Ensure \/ UNCHANGED vars
  BY <1>9 DEF Wake, Ensure, vars, KnownPuts
<1>10. CASE Restart
  BY <1>10, RestartEffect DEF KnownPuts
<1>11. QED
  BY <1>2, <1>3, <1>4, <1>5, <1>6, <1>7, <1>8, <1>9, <1>10 DEF Next

\* The watchlist store implements the ownership of places: a request that passed
\* the check takes no place from another app unless both claimed it side by side,
\* an update moves all places of an app at once, and requests that fail, writes
\* of objects and the manager change nobody's place (OwnershipSpec).
THEOREM ImplementsOwnership == Spec => OwnershipSpec
<1>1. Init => Owned!Init
  <2> SUFFICES ASSUME Init PROVE Owned!Init
    OBVIOUS
  <2>1. \A h \in Handlers : ~InWindow(h)
    BY DEF Init, Idle, InWindow
  <2>2. Claimed = [h \in Handlers |-> Owned!NoClaim]
    BY <2>1 DEF Claimed, ClaimOf, Owned!NoClaim, Owned!Unregistered, NoSpec
  <2>3. QED
    BY <2>2 DEF Init, Owned!Init, Owned!Unregistered, NoSpec
<1>2. Shape /\ Shape' /\ Windows /\ KnownPuts /\ [Next]_vars => [Owned!Next]_(Owned!ownershipVars)
  <2> SUFFICES ASSUME Shape, Shape', Windows, KnownPuts, [Next]_vars
               PROVE  Owned!Next \/ UNCHANGED Owned!ownershipVars
    OBVIOUS
  <2> USE DEF Owned!Next, InWindow
  <2>1. ASSUME NEW h \in Handlers, NEW a \in Apps, NEW s \in SUBSET Places,
               NEW known \in SUBSET Clusters, Put(h, a, s, known)
        PROVE  UNCHANGED Owned!ownershipVars
    <3>1. Others(h) /\ req'[h].stage = "known"
      BY <2>1, PutEffect
    <3>2. req[h].stage = "idle" /\ UNCHANGED <<index, apps, contested>>
      BY <2>1 DEF Put, memory
    <3>3. QED
      BY <3>1, <3>2, ClaimStays
  <2>2. ASSUME NEW h \in Handlers, NEW a \in Apps, Delete(h, a) PROVE Owned!Next
    <3>1. /\ Others(h) /\ req[h].stage = "idle" /\ req'[h].stage = "checked"
          /\ req'[h].op = "delete"
      BY <2>2, DeleteEffect DEF Delete
    <3>2. \A p \in Places : ~Claims(h, p)'
      BY <3>1 DEF Claims
    <3>3. UNCHANGED <<index, apps, contested>>
      BY <2>2 DEF Delete, memory
    <3>4. Owned!Claim(h)
      BY <3>1, <3>2, <3>3, ClaimMaps
    <3>5. QED
      BY <3>4
  <2>3. ASSUME NEW h \in Handlers, CheckConflicts(h)
        PROVE  Owned!Next \/ UNCHANGED Owned!ownershipVars
    <3>1. req[h].stage = "known" /\ UNCHANGED <<index, apps>>
      BY <2>3 DEF CheckConflicts, memory
    <3>2. CASE Conflicts(h) # {} /\ Ends(h) /\ UNCHANGED contested
      BY <3>1, <3>2, EndsEffect, ClaimStays
    <3>3. CASE /\ Conflicts(h) = {} /\ Enter(h, req[h])
               /\ contested' = contested \cup
                    {p \in req[h].spec : \E g \in Handlers \ {h} :
                                            Claims(g, p) /\ req[g].app # req[h].app}
      <4>1. req[h] \in Request
        BY DEF Shape, TypeOK
      <4>2. /\ Others(h) /\ req'[h].stage = "checked" /\ req'[h].app = req[h].app
            /\ req'[h].op = req[h].op /\ req'[h].spec = req[h].spec
        BY <3>3, <4>1, EnterEffect
      <4>3. \A p \in Places : Claims(h, p)' => p \in req[h].spec
        BY <4>2 DEF Claims
      <4>4. \A p \in Places : Claims(h, p)' => index[p] \in {Absent, req'[h].app}
        BY <3>3, <4>2, <4>3 DEF Conflicts
      <4>5. req[h].op = "put" /\ req[h].spec \in SUBSET Places
        <5>1. req[h].op \in {"put", "delete"}
          BY <4>1 DEF Request
        <5>2. req[h].op = "put"
          BY <3>1 DEF KnownPuts
        <5>3. QED
          BY <4>1, <5>2 DEF Request
      <4>6. QED
        BY <3>1, <3>3, <4>2, <4>4, <4>5, ClaimMaps DEF Claims
    <3>4. QED
      BY <2>3, <3>2, <3>3 DEF CheckConflicts
  <2>4. ASSUME NEW h \in Handlers, GetCrd(h) PROVE UNCHANGED Owned!ownershipVars
    <3>1. /\ Others(h) /\ req[h].stage = "checked" /\ req'[h].stage = "found"
          /\ req'[h].app = req[h].app /\ req'[h].op = req[h].op
          /\ req'[h].spec = req[h].spec
      BY <2>4, GetEffect DEF GetCrd
    <3>2. QED
      BY <2>4, <3>1, ClaimStays DEF GetCrd, memory
  <2>5. ASSUME NEW h \in Handlers, UpsertCrd(h) \/ DeleteCrd(h)
        PROVE  Owned!Next \/ UNCHANGED Owned!ownershipVars
    <3> DEFINE v == IF req[h].op = "put" THEN req[h].spec ELSE NoSpec
    <3>1. /\ req[h].app \in Apps /\ NameFor(h) \in Names /\ req[h].stage \in {"checked", "found"}
          /\ v \in Values /\ Writes(h, NameFor(h), v)
      BY <2>5, WriterEffect
    <3> HIDE DEF v
    <3>2. /\ UNCHANGED <<index, apps, contested>> /\ Others(h)
          /\ \/ req'[h].stage = "written" /\ req'[h].app = req[h].app
                /\ req'[h].op = req[h].op /\ req'[h].spec = req[h].spec
             \/ req'[h].stage = "idle"
      BY <3>1, WritesEffect DEF memory
    <3>3. QED
      BY <3>1, <3>2, ClaimStays, EndsMaps
  <2>6. ASSUME NEW h \in Handlers, Fails(h) \/ Trigger(h) PROVE Owned!Next
    <3>1. UNCHANGED <<index, apps, contested>> /\ Ends(h)
      BY <2>6 DEF Fails, Trigger, memory
    <3>2. QED
      BY <3>1, EndsEffect, EndsMaps
  <2>7. ASSUME NEW h \in Handlers, Store(h) \/ Remove(h) PROVE Owned!Next
    BY <2>7, SettleMaps
  <2>8. CASE Wake \/ Ensure \/ UNCHANGED vars
    BY <2>8 DEF Wake, Ensure, vars, memory, Owned!ownershipVars, Claimed, ClaimOf
  <2>9. CASE Restart
    BY <2>9, ReloadMaps
  <2>10. QED
    BY <2>1, <2>2, <2>3, <2>4, <2>5, <2>6, <2>7, <2>8, <2>9 DEF Next
<1>3. Spec => [](Shape /\ Windows /\ KnownPuts)
  <2>1. Init => Shape /\ Windows /\ IndexIsRight /\ KnownPuts
    <3> SUFFICES ASSUME Init PROVE Windows /\ IndexIsRight /\ KnownPuts
      BY ShapeInit
    <3>1. \A h \in Handlers : req[h].stage = "idle"
      BY DEF Init, Idle
    <3>2. QED
      BY <3>1 DEF Init, Windows, IndexIsRight, KnownPuts, Claims, InWindow, Registered
  <2>2. Shape /\ Windows /\ IndexIsRight /\ KnownPuts /\ [Next]_vars
          => (Shape /\ Windows /\ IndexIsRight /\ KnownPuts)'
    BY ShapeStep, IndexStep, KnownPutsStep
  <2>3. QED
    BY <2>1, <2>2, PTL DEF Spec
<1>4. QED
  BY <1>1, <1>2, <1>3, PTL DEF Spec, OwnershipSpec, Owned!Spec
==============================================================================
