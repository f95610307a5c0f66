------------------------ MODULE ClusterWatcherProofs ------------------------
(* The hash store keeps the latest hash, the handlers miss no rollout, and a  *)
(* clean stop persists everything: for any clusters, deployments, namespaces, *)
(* configurations and bounds.                                                 *)
EXTENDS ClusterWatcher, TLAPS

\* What a step of the specification does to the variables of the hash store.
HashStep ==
    \/ UNCHANGED hashVars
    \/ \E d \in Deployments, h \in Hash : Buffer(d, h)
    \/ FlushStep
    \/ cancelled' = TRUE /\ UNCHANGED <<pendingHashes, batch, stage, persisted, loop, lossy, latest>>
    \/ HashCrash

----------------------------------------------------------------------------
(* Types *)

\* A step of the hash store preserves the types of its variables.
LEMMA HashTypes ==
  ASSUME HashTypeOK, HashStep
  PROVE  HashTypeOK'
<1> USE DEF HashTypeOK, Update, Hash
<1>1. CASE UNCHANGED hashVars
  BY <1>1 DEF hashVars
<1>2. ASSUME NEW d \in Deployments, NEW h \in Hash, Buffer(d, h) PROVE HashTypeOK'
  BY <1>2 DEF Buffer
<1>3. CASE FlushStep
  <2>1. ASSUME Drain PROVE
          /\ batch' \in [Deployments -> Update]
          /\ pendingHashes' \in [Deployments -> Update]
          /\ stage' \in [Clusters -> {"idle", "queued", "applied"}]
    BY <2>1 DEF Drain
  <2>2. CASE Flush
    BY <2>1, <2>2 DEF Flush
  <2>3. CASE FinalFlush
    BY <2>1, <2>3 DEF FinalFlush
  <2>4. CASE FlushLoopReturns
    BY <2>4 DEF FlushLoopReturns
  <2>5. ASSUME NEW c \in Clusters, UpsertApplies(c) PROVE HashTypeOK'
    BY <2>5 DEF UpsertApplies
  <2>6. ASSUME NEW c \in Clusters, UpsertReturns(c) PROVE HashTypeOK'
    BY <2>6 DEF UpsertReturns
  <2>7. ASSUME NEW c \in Clusters, UpsertFails(c) PROVE HashTypeOK'
    BY <2>7 DEF UpsertFails, Requeue
  <2>8. QED
    BY <1>3, <2>2, <2>3, <2>4, <2>5, <2>6, <2>7 DEF FlushStep
<1>4. CASE cancelled' = TRUE /\ UNCHANGED <<pendingHashes, batch, stage, persisted, loop, lossy, latest>>
  BY <1>4
<1>5. CASE HashCrash
  BY <1>5 DEF HashCrash
<1>6. QED
  BY <1>1, <1>2, <1>3, <1>4, <1>5 DEF HashStep

\* What a handler does to the variables of the hash store.
LEMMA HandlerHashes ==
  ASSUME NEW i \in Watchers, NEW d \in Deployments, Handler(i, d)
  PROVE  HashStep
<1>0. None \in Hash
  BY DEF Hash
<1>1. ASSUME NEW h \in Hash, Filtered(i, d, h) PROVE HashStep
  BY <1>1 DEF Filtered, HashStep
<1>2. ASSUME NEW h \in Hash, OnAdd(i, d, h) \/ OnUpdate(i, d, h) PROVE HashStep
  BY <1>2 DEF OnAdd, OnUpdate, Observe, HashStep
<1>3. CASE OnDelete(i, d)
  BY <1>0, <1>3 DEF OnDelete, Observe, HashStep
<1>4. QED
  BY <1>1, <1>2, <1>3 DEF Handler

\* Every step of the specification is such a step.
LEMMA HashEffect ==
  ASSUME [Next]_vars
  PROVE  HashStep
<1>1. ASSUME NEW i \in Watchers, NEW d \in Deployments, Handler(i, d) PROVE HashStep
  BY <1>1, HandlerHashes
<1>2. ASSUME NEW i \in Watchers,
             StartWatcher(i) \/ StartFails(i) \/ Recycle(i) \/ StopWatcher(i) \/ Submit(i)
      PROVE  UNCHANGED hashVars
  BY <1>2 DEF StartWatcher, StartFails, Create, Recycle, StopWatcher, WatcherStops, Submit
<1>3. ASSUME NEW s \in Configs, ApplyConfig(s) PROVE UNCHANGED hashVars
  BY <1>3 DEF ApplyConfig
<1>4. QED
  BY <1>1, <1>2, <1>3 DEF Next, vars, HashStep, Signal, ManagerStopped, Cancel, Crash

\* The part of TypeOK that is about the watchers.
WatcherTypeOK ==
    /\ watcher \in [Watchers -> {"down", "up", "late", "orphan"}]
    /\ known \in [Watchers -> [Deployments -> Hash]]
    /\ templateCache \in [Watchers -> [Deployments -> Hash]]
    /\ handler \in [Watchers -> Event \cup {Idle}]
    /\ filter \in Configs
    /\ main \in {"running", "stopping", "stopped"}
    /\ changes \in 0 .. MaxChanges
    /\ edits \in 0 .. MaxEdits
    /\ restarts \in 0 .. MaxRestarts
    /\ stray \in SUBSET Deployments
    /\ muted \in [Watchers -> [Deployments -> BOOLEAN]]
    /\ told \in [Watchers -> [Deployments -> Hash]]

\* A value for one deployment of one watcher.
LEMMA Nested ==
  ASSUME NEW S, NEW f \in [Watchers -> [Deployments -> S]],
         NEW i \in Watchers, NEW d \in Deployments, NEW v \in S
  PROVE  [f EXCEPT ![i][d] = v] \in [Watchers -> [Deployments -> S]]
<1>1. [f[i] EXCEPT ![d] = v] \in [Deployments -> S]
  OBVIOUS
<1>2. QED
  BY <1>1

\* What the handlers do to the types.
LEMMA HandlerTypes ==
  ASSUME WatcherTypeOK, NEW i \in Watchers, NEW d \in Deployments, Handler(i, d)
  PROVE  WatcherTypeOK'
<1> USE WatcherAssumption
<1>0. None \in Hash /\ \A h \in Hash : h # None => h \in Hashes
  BY DEF Hash
<1>1. PICK h \in Hash : \/ Filtered(i, d, h) \/ OnAdd(i, d, h) \/ OnUpdate(i, d, h)
                        \/ h = None /\ OnDelete(i, d)
  BY <1>0 DEF Handler
<1>2. /\ known' = [known EXCEPT ![i][d] = h]
      /\ changes' \in 0 .. MaxChanges
      /\ UNCHANGED <<watcher, filter, main, edits, restarts>>
  BY <1>1 DEF Filtered, OnAdd, OnUpdate, OnDelete, Deliver, WatcherTypeOK
<1>3. stray' \in SUBSET Deployments
  BY <1>1 DEF Filtered, OnAdd, OnUpdate, OnDelete, Observe, WatcherTypeOK
<1>4. templateCache' \in {templateCache, [templateCache EXCEPT ![i][d] = h]}
  BY <1>1 DEF Filtered, OnAdd, OnUpdate, OnDelete
<1>5. told' \in {told, [told EXCEPT ![i][d] = h]}
  BY <1>1 DEF Filtered, OnAdd, OnUpdate, OnDelete
<1>6. muted' \in {muted, [muted EXCEPT ![i][d] = TRUE], [muted EXCEPT ![i][d] = FALSE]}
  BY <1>1 DEF Filtered, OnAdd, OnUpdate, OnDelete
<1>7. handler' \in [Watchers -> Event \cup {Idle}]
  <2>1. CASE OnUpdate(i, d, h)
    <3>1. h # None /\ templateCache[i][d] \in Hash
      BY <2>1 DEF OnUpdate, WatcherTypeOK
    <3>2. templateCache[i][d] \notin {None, h} =>
            [dep |-> d, old |-> templateCache[i][d], new |-> h] \in Event
      BY <1>0, <3>1 DEF Event
    <3>3. QED
      BY <2>1, <3>2 DEF OnUpdate, WatcherTypeOK
  <2>2. CASE ~OnUpdate(i, d, h)
    BY <1>1, <2>2 DEF Filtered, OnAdd, OnDelete, WatcherTypeOK
  <2>3. QED
    BY <2>1, <2>2
<1>8. known' \in [Watchers -> [Deployments -> Hash]]
  BY <1>2, Nested DEF WatcherTypeOK
<1>9. templateCache' \in [Watchers -> [Deployments -> Hash]]
  <2>1. [templateCache EXCEPT ![i][d] = h] \in [Watchers -> [Deployments -> Hash]]
    BY Nested DEF WatcherTypeOK
  <2>2. QED
    BY <1>4, <2>1 DEF WatcherTypeOK
<1>10. told' \in [Watchers -> [Deployments -> Hash]]
  <2>1. [told EXCEPT ![i][d] = h] \in [Watchers -> [Deployments -> Hash]]
    BY Nested DEF WatcherTypeOK
  <2>2. QED
    BY <1>5, <2>1 DEF WatcherTypeOK
<1>11. muted' \in [Watchers -> [Deployments -> BOOLEAN]]
  <2>1. ASSUME NEW b \in BOOLEAN
        PROVE  [muted EXCEPT ![i][d] = b] \in [Watchers -> [Deployments -> BOOLEAN]]
    BY Nested DEF WatcherTypeOK
  <2>2. QED
    BY <1>6, <2>1 DEF WatcherTypeOK
<1>12. QED
  BY <1>2, <1>3, <1>7, <1>8, <1>9, <1>10, <1>11 DEF WatcherTypeOK

\* What the starts and the end of a watcher do to the types.
LEMMA WatcherTypes ==
  ASSUME HashTypeOK, WatcherTypeOK, NEW i \in Watchers,
         StartWatcher(i) \/ StartFails(i) \/ Recycle(i) \/ StopWatcher(i)
  PROVE  WatcherTypeOK'
<1> USE WatcherAssumption
<1>0. None \in Hash
  BY DEF Hash
<1>1. ASSUME Create(i)
      PROVE  /\ templateCache' \in [Watchers -> [Deployments -> Hash]]
             /\ UNCHANGED <<known, handler, filter, main, changes, edits, stray, muted, told>>
  <2>1. PICK loaded \in BOOLEAN : templateCache' = [templateCache EXCEPT ![i] =
              [d \in Deployments |-> IF loaded /\ ClusterOf[d] = HomeOf[i]
                                     THEN persisted[d] ELSE None]]
    BY <1>1 DEF Create
  <2>2. [d \in Deployments |-> IF loaded /\ ClusterOf[d] = HomeOf[i]
                               THEN persisted[d] ELSE None] \in [Deployments -> Hash]
    BY <1>0 DEF HashTypeOK
  <2>3. QED
    BY <1>1, <2>1, <2>2 DEF Create, WatcherTypeOK
<1>2. CASE StartWatcher(i)
  <2>1. watcher' \in [Watchers -> {"down", "up", "late", "orphan"}]
    BY <1>2 DEF StartWatcher, WatcherTypeOK
  <2>2. restarts' \in 0 .. MaxRestarts
    BY <1>2 DEF StartWatcher, WatcherTypeOK
  <2>3. QED
    BY <1>1, <1>2, <2>1, <2>2 DEF StartWatcher, WatcherTypeOK
<1>3. CASE StartFails(i)
  BY <1>1, <1>3 DEF StartFails, WatcherTypeOK
<1>4. CASE Recycle(i) \/ StopWatcher(i)
  <2>1. restarts' \in 0 .. MaxRestarts /\ WatcherStops(i)
    BY <1>4 DEF Recycle, StopWatcher, WatcherTypeOK
  <2>2. PerDeployment(None) \in [Deployments -> Hash]
        /\ PerDeployment(FALSE) \in [Deployments -> BOOLEAN]
    BY <1>0 DEF PerDeployment
  <2>3. QED
    BY <2>1, <2>2 DEF WatcherStops, WatcherTypeOK
<1>5. QED
  BY <1>2, <1>3, <1>4

\* Type correctness: the caches, buffers and histories keep their shape; an
\* event always carries two hashes, never "no hash".
THEOREM TypeCorrect == Spec => []TypeOK
<1> USE WatcherAssumption
<1>0. (TypeOK <=> HashTypeOK /\ WatcherTypeOK) /\ None \in Hash
  BY DEF TypeOK, WatcherTypeOK, Hash
<1>1. Init => TypeOK
  <2>1. Init => HashTypeOK
    BY DEF Init, HashInit, HashTypeOK, Hash, Update
  <2>2. Init => WatcherTypeOK
    <3> SUFFICES ASSUME Init PROVE WatcherTypeOK
      OBVIOUS
    <3>1. /\ watcher \in [Watchers -> {"down", "up", "late", "orphan"}]
          /\ handler \in [Watchers -> Event \cup {Idle}]
      BY DEF Init, PerWatcher
    <3>2. {known, templateCache, told} \subseteq [Watchers -> [Deployments -> Hash]]
      BY <1>0 DEF Init, PerWatcher, PerDeployment
    <3>3. muted \in [Watchers -> [Deployments -> BOOLEAN]]
      BY DEF Init, PerWatcher, PerDeployment
    <3>4. /\ filter \in Configs /\ main = "running" /\ stray = {}
          /\ changes = 0 /\ edits = 0 /\ restarts = 0
      BY DEF Init
    <3>5. QED
      BY <3>1, <3>2, <3>3, <3>4 DEF WatcherTypeOK
  <2>3. QED
    BY <1>0, <2>1, <2>2
<1>2. TypeOK /\ [Next]_vars => TypeOK'
  <2> SUFFICES ASSUME TypeOK, [Next]_vars PROVE TypeOK'
    OBVIOUS
  <2>1. HashTypeOK /\ WatcherTypeOK
    BY <1>0
  <2>2. HashTypeOK'
    BY <2>1, HashEffect, HashTypes
  <2> SUFFICES WatcherTypeOK'
    BY <2>2 DEF TypeOK, WatcherTypeOK
  <2>3. ASSUME NEW s \in Configs, ApplyConfig(s) PROVE WatcherTypeOK'
    BY <2>1, <2>3 DEF ApplyConfig, WatcherTypeOK, ownVars
  <2>4. ASSUME NEW i \in Watchers,
               StartWatcher(i) \/ StartFails(i) \/ Recycle(i) \/ StopWatcher(i)
        PROVE  WatcherTypeOK'
    BY <2>1, <2>4, WatcherTypes
  <2>5. ASSUME NEW i \in Watchers, Submit(i) PROVE WatcherTypeOK'
    <3>1. handler[i] \in Event
      BY <2>1, <2>5 DEF Submit, WatcherTypeOK
    <3>2. handler[i].dep \in Deployments /\ handler[i].new \in Hash
      BY <3>1 DEF Event, Hash
    <3>3. told' \in [Watchers -> [Deployments -> Hash]]
      BY <2>1, <2>5, <3>2, Nested DEF Submit, WatcherTypeOK
    <3>4. QED
      BY <2>1, <2>5, <3>3 DEF Submit, WatcherTypeOK
  <2>6. CASE Signal \/ ManagerStopped \/ Cancel
    BY <2>1, <2>6 DEF Signal, ManagerStopped, Cancel, WatcherTypeOK, watcherVars, ownVars
  <2>7. CASE Crash
    <3>1. /\ watcher' \in [Watchers -> {"down", "up", "late", "orphan"}]
          /\ handler' \in [Watchers -> Event \cup {Idle}]
      BY <2>7 DEF Crash, PerWatcher
    <3>2. {known', templateCache', told'} \subseteq [Watchers -> [Deployments -> Hash]]
      BY <1>0, <2>7 DEF Crash, PerWatcher, PerDeployment
    <3>3. muted' \in [Watchers -> [Deployments -> BOOLEAN]]
      BY <2>7 DEF Crash, PerWatcher, PerDeployment
    <3>4. /\ filter' \in Configs /\ main' = "running" /\ stray' = {}
          /\ restarts' \in 0 .. MaxRestarts /\ UNCHANGED <<changes, edits>>
      BY <2>1, <2>7 DEF Crash, WatcherTypeOK
    <3>5. QED
      BY <2>1, <3>1, <3>2, <3>3, <3>4 DEF WatcherTypeOK
  <2>8. ASSUME NEW i \in Watchers, NEW d \in Deployments, Handler(i, d) PROVE WatcherTypeOK'
    BY <2>1, <2>8, HandlerTypes
  <2>9. CASE UNCHANGED watcherVars
    BY <2>1, <2>9 DEF watcherVars, ownVars, WatcherTypeOK
  <2>10. QED
    BY <2>3, <2>4, <2>5, <2>6, <2>7, <2>8, <2>9 DEF Next, vars
<1>3. QED
  BY <1>1, <1>2, PTL DEF Spec
----------------------------------------------------------------------------
(* The buffer, the flush in progress and the objects *)

\* A drained update belongs to a write that has not returned; if the write has
\* taken effect, the update is what the object holds.
Batched ==
    \A d \in Deployments : batch[d] # Nothing =>
        /\ stage[ClusterOf[d]] # "idle"
        /\ stage[ClusterOf[d]] = "applied" => persisted[d] = batch[d]

\* The buffer, the batch and the objects after a step, deployment by deployment.
LEMMA KeptStep ==
  ASSUME HashTypeOK, LatestIsKept /\ Batched, HashStep
  PROVE  (LatestIsKept /\ Batched)'
<1> USE HashStoreAssumption
<1> SUFFICES ASSUME NEW d \in Deployments
             PROVE  /\ latest'[d] = Owed(d)'
                    /\ batch'[d] # Nothing =>
                         /\ stage'[ClusterOf[d]] # "idle"
                         /\ stage'[ClusterOf[d]] = "applied" => persisted'[d] = batch'[d]
  BY DEF LatestIsKept, Batched
<1>0. /\ ClusterOf[d] \in Clusters
      /\ latest[d] = Owed(d)
      /\ batch[d] # Nothing =>
           /\ stage[ClusterOf[d]] # "idle"
           /\ stage[ClusterOf[d]] = "applied" => persisted[d] = batch[d]
  BY DEF LatestIsKept, Batched
<1>1. CASE UNCHANGED hashVars
  BY <1>0, <1>1 DEF hashVars, Owed
<1>2. ASSUME NEW e \in Deployments, NEW h \in Hash, Buffer(e, h)
      PROVE  /\ latest'[d] = Owed(d)'
             /\ batch'[d] # Nothing =>
                  /\ stage'[ClusterOf[d]] # "idle"
                  /\ stage'[ClusterOf[d]] = "applied" => persisted'[d] = batch'[d]
  <2>1. /\ pendingHashes'[d] = IF d = e THEN h ELSE pendingHashes[d]
        /\ latest'[d] = IF d = e THEN h ELSE latest[d]
        /\ h # Nothing
    BY <1>2 DEF Buffer, HashTypeOK, Hash
  <2>2. QED
    BY <1>0, <1>2, <2>1 DEF Buffer, Owed
<1>3. CASE Flush \/ FinalFlush
  <2>1. batch[d] = Nothing
    BY <1>0, <1>3 DEF Flush, FinalFlush, Drain, FlushDone
  <2>2. /\ batch'[d] = pendingHashes[d] /\ pendingHashes'[d] = Nothing
        /\ UNCHANGED <<persisted, latest>>
        /\ stage'[ClusterOf[d]] \in {"queued", "idle"}
        /\ pendingHashes[d] # Nothing => stage'[ClusterOf[d]] = "queued"
    BY <1>0, <1>3 DEF Flush, FinalFlush, Drain, DeploymentsOf
  <2>3. QED
    BY <1>0, <2>1, <2>2 DEF Owed
<1>4. CASE FlushLoopReturns
  BY <1>0, <1>4 DEF FlushLoopReturns, Owed
<1>5. ASSUME NEW c \in Clusters, UpsertApplies(c)
      PROVE  /\ latest'[d] = Owed(d)'
             /\ batch'[d] # Nothing =>
                  /\ stage'[ClusterOf[d]] # "idle"
                  /\ stage'[ClusterOf[d]] = "applied" => persisted'[d] = batch'[d]
  <2>1. /\ persisted'[d] = IF ClusterOf[d] = c /\ batch[d] # Nothing
                           THEN batch[d] ELSE persisted[d]
        /\ stage'[ClusterOf[d]] = IF ClusterOf[d] = c THEN "applied" ELSE stage[ClusterOf[d]]
        /\ UNCHANGED <<pendingHashes, batch, latest>>
    BY <1>0, <1>5 DEF UpsertApplies, HashTypeOK
  <2>2. QED
    BY <1>0, <2>1 DEF Owed
<1>6. ASSUME NEW c \in Clusters, UpsertReturns(c)
      PROVE  /\ latest'[d] = Owed(d)'
             /\ batch'[d] # Nothing =>
                  /\ stage'[ClusterOf[d]] # "idle"
                  /\ stage'[ClusterOf[d]] = "applied" => persisted'[d] = batch'[d]
  <2>1. /\ stage[c] = "applied"
        /\ stage'[ClusterOf[d]] = IF ClusterOf[d] = c THEN "idle" ELSE stage[ClusterOf[d]]
        /\ batch'[d] = IF ClusterOf[d] = c THEN Nothing ELSE batch[d]
        /\ UNCHANGED <<pendingHashes, persisted, latest>>
    BY <1>0, <1>6 DEF UpsertReturns, HashTypeOK
  <2>2. QED
    BY <1>0, <2>1 DEF Owed
<1>7. ASSUME NEW c \in Clusters, UpsertFails(c)
      PROVE  /\ latest'[d] = Owed(d)'
             /\ batch'[d] # Nothing =>
                  /\ stage'[ClusterOf[d]] # "idle"
                  /\ stage'[ClusterOf[d]] = "applied" => persisted'[d] = batch'[d]
  <2>1. /\ pendingHashes'[d] = IF ClusterOf[d] = c /\ pendingHashes[d] = Nothing
                               THEN batch[d] ELSE pendingHashes[d]
        /\ stage'[ClusterOf[d]] = IF ClusterOf[d] = c THEN "idle" ELSE stage[ClusterOf[d]]
        /\ batch'[d] = IF ClusterOf[d] = c THEN Nothing ELSE batch[d]
        /\ UNCHANGED <<persisted, latest>>
    BY <1>0, <1>7 DEF UpsertFails, Requeue, HashTypeOK
  <2>2. QED
    BY <1>0, <2>1 DEF Owed
<1>8. CASE cancelled' = TRUE /\ UNCHANGED <<pendingHashes, batch, stage, persisted, loop, lossy, latest>>
  BY <1>0, <1>8 DEF Owed
<1>9. CASE HashCrash
  BY <1>9 DEF HashCrash, Owed
<1>10. QED
  BY <1>1, <1>2, <1>3, <1>4, <1>5, <1>6, <1>7, <1>8, <1>9 DEF HashStep, FlushStep

\* Through failing writes, lost replies, updates that overtake a flush, and the
\* final flush, the last reported hash of every deployment remains.
THEOREM LatestSurvives == Spec => []LatestIsKept
<1>1. Init => LatestIsKept /\ Batched
  BY DEF Init, HashInit, LatestIsKept, Batched, Owed
<1>2. TypeOK /\ LatestIsKept /\ Batched /\ [Next]_vars => (LatestIsKept /\ Batched)'
  <2>1. TypeOK => HashTypeOK
    BY DEF TypeOK
  <2>2. QED
    BY <2>1, HashEffect, KeptStep
<1>3. QED
  BY <1>1, <1>2, TypeCorrect, PTL DEF Spec

----------------------------------------------------------------------------
(* The refinement *)

\* A deployment that waits has its latest hash in the buffer; so has one that
\* the flush in progress carries, unless it waits again.
LEMMA Waiting ==
  ASSUME LatestIsKept, NEW d \in Deployments
  PROVE  /\ d \in Dirty => pendingHashes[d] = latest[d]
         /\ d \notin Dirty => pendingHashes[d] = Nothing
         /\ d \notin Dirty /\ batch[d] # Nothing => batch[d] = latest[d]
BY DEF LatestIsKept, Owed, Dirty

\* A step of the hash store is one of the cache, or not seen there.
LEMMA BehindStep ==
  ASSUME HashTypeOK, LatestIsKept, Batched, HashStep
  PROVE  Behind!Next \/ UNCHANGED Behind!behindVars
<1> USE HashStoreAssumption
<1>1. CASE UNCHANGED hashVars
  BY <1>1 DEF hashVars, Behind!behindVars, Dirty
<1>2. ASSUME NEW d \in Deployments, NEW h \in Hash, Buffer(d, h) PROVE Behind!Next
  <2>1. \A e \in Deployments : pendingHashes'[e] = IF e = d THEN h ELSE pendingHashes[e]
    BY <1>2 DEF Buffer, HashTypeOK
  <2>2. h # Nothing
    BY DEF Hash
  <2>3. Dirty' = Dirty \cup {d}
    BY <2>1, <2>2 DEF Dirty
  <2>4. Behind!Say(d, h)
    BY <1>2, <2>3 DEF Behind!Say, Buffer
  <2>5. QED
    BY <2>4 DEF Behind!Next
<1>3. CASE Flush \/ FinalFlush
  <2>1. Drain /\ UNCHANGED <<persisted, latest>>
    BY <1>3 DEF Flush, FinalFlush
  <2>2. Behind!Offered(Deployments) = {}
    BY <2>1 DEF Drain, FlushDone, Batched, Behind!Offered
  <2>3. batch' = [d \in Deployments |-> IF d \in Dirty THEN latest[d] ELSE Nothing]
    BY <2>1, Waiting DEF Drain, HashTypeOK
  <2>4. Dirty' = {}
    BY <2>1 DEF Drain, Dirty
  <2>5. Behind!Offer
    BY <2>1, <2>2, <2>3, <2>4 DEF Behind!Offer
  <2>6. QED
    BY <2>5 DEF Behind!Next
<1>4. CASE FlushLoopReturns
  BY <1>4 DEF FlushLoopReturns, Behind!behindVars, Dirty
<1>5. ASSUME NEW c \in Clusters, UpsertApplies(c) PROVE Behind!Next
  <2>1. PICK D \in SUBSET Deployments : D = DeploymentsOf(c)
    BY DEF DeploymentsOf
  <2>2. \A d \in Deployments : d \in Behind!Offered(D) <=> ClusterOf[d] = c /\ batch[d] # Nothing
    BY <2>1 DEF Behind!Offered, DeploymentsOf
  <2>3. Behind!Save(D)
    BY <1>5, <2>2 DEF UpsertApplies, Behind!Save, Dirty
  <2>4. QED
    BY <2>3 DEF Behind!Next
<1>6. ASSUME NEW c \in Clusters, UpsertReturns(c) PROVE Behind!Next
  <2>1. PICK D \in SUBSET Deployments : D = DeploymentsOf(c)
    BY DEF DeploymentsOf
  <2>2. \A d \in Deployments : d \in D <=> ClusterOf[d] = c
    BY <2>1 DEF DeploymentsOf
  <2>3. \A d \in Behind!Offered(D) : persisted[d] = batch[d]
    BY <1>6, <2>2 DEF UpsertReturns, Batched, Behind!Offered
  <2>4. Behind!Done(D)
    BY <1>6, <2>2, <2>3 DEF UpsertReturns, Behind!Done, Behind!Clear, Dirty
  <2>5. QED
    BY <2>4 DEF Behind!Next
<1>7. ASSUME NEW c \in Clusters, UpsertFails(c) PROVE Behind!Next
  <2>1. PICK D \in SUBSET Deployments : D = DeploymentsOf(c)
    BY DEF DeploymentsOf
  <2>2. \A d \in Deployments : d \in D <=> ClusterOf[d] = c
    BY <2>1 DEF DeploymentsOf
  <2>3. Dirty' = Dirty \cup Behind!Offered(D)
    <3>1. \A d \in Deployments : pendingHashes'[d] =
            IF ClusterOf[d] = c /\ pendingHashes[d] = Nothing THEN batch[d] ELSE pendingHashes[d]
      BY <1>7 DEF UpsertFails, Requeue
    <3>2. QED
      BY <2>1, <2>2, <3>1 DEF Dirty, Behind!Offered
  <2>4. Behind!Retry(D)
    BY <1>7, <2>2, <2>3 DEF UpsertFails, Behind!Retry, Behind!Clear
  <2>5. QED
    BY <2>4 DEF Behind!Next
<1>8. CASE cancelled' = TRUE /\ UNCHANGED <<pendingHashes, batch, stage, persisted, loop, lossy, latest>>
  BY <1>8 DEF Behind!behindVars, Dirty
<1>9. CASE HashCrash
  <2>1. Dirty' = {}
    BY <1>9 DEF HashCrash, Dirty
  <2>2. QED
    BY <1>9, <2>1 DEF HashCrash, Behind!Crash, Behind!Next
<1>10. QED
  BY <1>1, <1>2, <1>3, <1>4, <1>5, <1>6, <1>7, <1>8, <1>9 DEF HashStep, FlushStep

\* The hash store implements the write-behind cache: through failed writes, lost
\* replies, merged buffers, the final flush and crashes, a flush carries the
\* hashes that were the last ones when it began (WriteBehindSpec).
THEOREM ImplementsWriteBehind == Spec => WriteBehindSpec
<1>1. Init => Behind!Init
  BY DEF Init, HashInit, Behind!Init, Dirty
<1>2. TypeOK /\ LatestIsKept /\ Batched /\ [Next]_vars => [Behind!Next]_(Behind!behindVars)
  <2>1. TypeOK => HashTypeOK
    BY DEF TypeOK
  <2>2. QED
    BY <2>1, HashEffect, BehindStep
<1>3. Init => LatestIsKept /\ Batched
  BY DEF Init, HashInit, LatestIsKept, Batched, Owed
<1>4. TypeOK /\ LatestIsKept /\ Batched /\ [Next]_vars => (LatestIsKept /\ Batched)'
  <2>1. TypeOK => HashTypeOK
    BY DEF TypeOK
  <2>2. QED
    BY <2>1, HashEffect, KeptStep
<1>5. QED
  BY <1>1, <1>2, <1>3, <1>4, TypeCorrect, PTL DEF Spec, WriteBehindSpec, Behind!Spec

----------------------------------------------------------------------------
(* The shutdown *)

\* After Manager.Stop no watcher runs but those nobody stops; the final flush
\* begins after the cancel, and from then on what is buffered is what it failed
\* to write or what such a watcher reported.
Stopped ==
    /\ main = "stopped" => \A i \in Watchers : watcher[i] # "up"
    /\ cancelled => main = "stopped"
    /\ loop # "ticking" => cancelled
    /\ loop # "ticking" /\ ~lossy =>
          \A d \in Deployments \ stray : pendingHashes[d] = Nothing
    /\ loop = "ended" => \A d \in Deployments : batch[d] = Nothing

\* Handlers of the watchers the manager held are over when the flush is final.
LEMMA HandlerStopped ==
  ASSUME TypeOK, Stopped, NEW i \in Watchers, NEW d \in Deployments, Handler(i, d)
  PROVE  Stopped'
<1>1. PICK h \in Hash : \/ Filtered(i, d, h) \/ OnAdd(i, d, h) \/ OnUpdate(i, d, h)
                        \/ h = None /\ OnDelete(i, d)
  BY DEF Handler, Hash
<1>2. Deliver(i, d, h) /\ (Observe(i, d, h) \/ UNCHANGED <<hashVars, stray>>)
  BY <1>1 DEF Filtered, OnAdd, OnUpdate, OnDelete
<1>3. watcher[i] # "down" /\ UNCHANGED <<main, watcher, cancelled, loop, lossy, batch>>
  BY <1>2 DEF Deliver, Observe, Buffer, hashVars
<1>4. CASE UNCHANGED <<hashVars, stray>>
  BY <1>3, <1>4 DEF Stopped, hashVars
<1>5. CASE Observe(i, d, h) /\ loop = "ticking"
  BY <1>3, <1>5 DEF Stopped
<1>6. CASE Observe(i, d, h) /\ loop # "ticking"
  <2>1. cancelled /\ i \in Unstopped
    BY <1>3, <1>6 DEF Stopped, Unstopped, TypeOK
  <2>2. stray' = stray \cup {d}
    BY <1>6, <2>1 DEF Observe
  <2>3. \A e \in Deployments : e # d => pendingHashes'[e] = pendingHashes[e]
    BY <1>6 DEF Observe, Buffer, TypeOK, HashTypeOK
  <2>4. QED
    BY <1>3, <2>2, <2>3 DEF Stopped
<1>7. QED
  BY <1>2, <1>4, <1>5, <1>6

\* So they are after a step of the flush goroutine.
LEMMA FlushStopped ==
  ASSUME TypeOK, Batched, Stopped, FlushStep, UNCHANGED watcherVars
  PROVE  Stopped'
<1> USE HashStoreAssumption
<1>0. UNCHANGED <<main, watcher, cancelled, stray>>
  BY DEF FlushStep, Flush, FinalFlush, FlushLoopReturns, UpsertApplies,
         UpsertReturns, UpsertFails, watcherVars
<1>1. CASE Flush
  BY <1>0, <1>1 DEF Flush, Stopped
<1>2. CASE FinalFlush
  BY <1>0, <1>2 DEF FinalFlush, Drain, Stopped
<1>3. CASE FlushLoopReturns
  <2>1. \A d \in Deployments : batch[d] = Nothing
    BY <1>3 DEF FlushLoopReturns, FlushDone, Batched
  <2>2. QED
    BY <1>0, <1>3, <2>1 DEF FlushLoopReturns, Stopped
<1>4. ASSUME NEW c \in Clusters, UpsertApplies(c) PROVE Stopped'
  BY <1>0, <1>4 DEF UpsertApplies, Stopped
<1>5. ASSUME NEW c \in Clusters, UpsertReturns(c) PROVE Stopped'
  BY <1>0, <1>5 DEF UpsertReturns, Stopped
<1>6. ASSUME NEW c \in Clusters, UpsertFails(c) PROVE Stopped'
  <2>1. /\ UNCHANGED loop
        /\ lossy' = (lossy \/ loop = "final")
        /\ \A d \in Deployments : batch[d] = Nothing => batch'[d] = Nothing
    BY <1>6 DEF UpsertFails
  <2>2. loop = "ended" => \A d \in Deployments :
           pendingHashes[d] = Nothing => pendingHashes'[d] = Nothing
    BY <1>6 DEF UpsertFails, Requeue, Stopped
  <2>3. loop \in {"ticking", "final", "ended"}
    BY DEF TypeOK, HashTypeOK
  <2>4. QED
    BY <1>0, <2>1, <2>2, <2>3 DEF Stopped
<1>7. QED
  BY <1>1, <1>2, <1>3, <1>4, <1>5, <1>6 DEF FlushStep

\* When the final flush has ended and none of its writes failed, the objects
\* hold every last hash, but those that watchers out of Manager.Stop's reach
\* reported after the cancel.
THEOREM CleanStops == Spec => []CleanStopPersists
<1>1. Init => Stopped
  BY DEF Init, HashInit, Stopped
<1>2. TypeOK /\ Batched /\ Stopped /\ [Next]_vars => Stopped'
  <2> SUFFICES ASSUME TypeOK, Batched, Stopped, [Next]_vars PROVE Stopped'
    OBVIOUS
  <2>1. ASSUME NEW i \in Watchers, NEW d \in Deployments, Handler(i, d) PROVE Stopped'
    BY <2>1, HandlerStopped
  <2>2. ASSUME NEW i \in Watchers, StartWatcher(i) \/ StartFails(i) PROVE Stopped'
    <3>1. UNCHANGED <<hashVars, main, stray>>
      BY <2>2 DEF StartWatcher, StartFails, Create
    <3>2. main = "stopped" => \A j \in Watchers : watcher'[j] = "up" => watcher[j] = "up"
      BY <2>2 DEF StartWatcher, StartFails, TypeOK
    <3>3. QED
      BY <3>1, <3>2 DEF hashVars, Stopped
  <2>3. ASSUME NEW i \in Watchers, Recycle(i) \/ StopWatcher(i) PROVE Stopped'
    <3>1. \A j \in Watchers : watcher'[j] = "up" => watcher[j] = "up"
      BY <2>3 DEF Recycle, StopWatcher, WatcherStops, TypeOK
    <3>2. UNCHANGED <<hashVars, main, stray>>
      BY <2>3 DEF Recycle, StopWatcher, WatcherStops
    <3>3. QED
      BY <3>1, <3>2 DEF hashVars, Stopped
  <2>4. CASE Signal
    BY <2>4 DEF Signal, hashVars, Stopped
  <2>5. CASE ManagerStopped
    BY <2>5 DEF ManagerStopped, hashVars, Stopped
  <2>6. CASE Cancel
    BY <2>6 DEF Cancel, watcherVars, Stopped
  <2>7. CASE Crash
    BY <2>7 DEF Crash, HashCrash, Stopped, PerWatcher
  <2>8. CASE FlushStep /\ UNCHANGED watcherVars
    BY <2>8, FlushStopped
  <2>9. CASE \/ \E s \in Configs : ApplyConfig(s)
             \/ \E i \in Watchers : Submit(i)
             \/ UNCHANGED vars
    <3>1. UNCHANGED <<hashVars, main, watcher, stray>>
      BY <2>9 DEF ApplyConfig, Submit, vars, watcherVars
    <3>2. QED
      BY <3>1 DEF hashVars, Stopped
  <2>10. QED
    BY <2>1, <2>2, <2>3, <2>4, <2>5, <2>6, <2>7, <2>8, <2>9 DEF Next
<1>3. Init => LatestIsKept /\ Batched
  BY DEF Init, HashInit, LatestIsKept, Batched, Owed
<1>4. TypeOK /\ LatestIsKept /\ Batched /\ [Next]_vars => (LatestIsKept /\ Batched)'
  <2>1. TypeOK => HashTypeOK
    BY DEF TypeOK
  <2>2. QED
    BY <2>1, HashEffect, KeptStep
<1>5. LatestIsKept /\ Stopped => CleanStopPersists
  BY DEF CleanStopPersists, LatestIsKept, Owed, Stopped
<1>6. QED
  BY <1>1, <1>2, <1>3, <1>4, <1>5, TypeCorrect, PTL DEF Spec

----------------------------------------------------------------------------
(* The handlers *)

\* A watcher that is gone has delivered nothing.  Of one that runs, a deployment
\* that has not been filtered out is in the cache as it was delivered, and told
\* as it is cached, or about to be.
Followed(i, d) ==
    /\ watcher[i] = "down" => known[i][d] = None
    /\ known[i][d] # None /\ ~muted[i][d] =>
          /\ templateCache[i][d] = known[i][d]
          /\ LET e == handler[i]
             IN  IF e # Idle /\ e.dep = d
                 THEN e.old = told[i][d] /\ e.new = known[i][d] /\ e.old # e.new
                 ELSE told[i][d] = known[i][d]

\* A handler works for one informer and one deployment.
LEMMA HandlerFollows ==
  ASSUME TypeOK, NEW o \in Watchers, NEW e \in Deployments, Handler(o, e),
         NEW i \in Watchers, NEW d \in Deployments, Followed(i, d)
  PROVE  Followed(i, d)'
<1> USE WatcherAssumption
<1>1. PICK h \in Hash : \/ Filtered(o, e, h) \/ OnAdd(o, e, h) \/ OnUpdate(o, e, h)
                        \/ h = None /\ OnDelete(o, e)
  BY DEF Handler, Hash
<1>2. /\ watcher[o] # "down" /\ handler[o] = Idle /\ UNCHANGED watcher
      /\ known' = [known EXCEPT ![o][e] = h]
  BY <1>1 DEF Filtered, OnAdd, OnUpdate, OnDelete, Deliver
<1>3. i # o => handler'[i] = handler[i]
  BY <1>1 DEF Filtered, OnAdd, OnUpdate, OnDelete, TypeOK
<1>4. handler'[o] = Idle \/ (handler'[o] # Idle /\ handler'[o].dep = e)
  <2>1. CASE OnUpdate(o, e, h) /\ templateCache[o][e] \notin {None, h}
    <3>1. handler'[o] = [dep |-> e, old |-> templateCache[o][e], new |-> h]
      BY <2>1 DEF OnUpdate, TypeOK
    <3>2. QED
      BY <3>1, <2>1 DEF OnUpdate, Event, Hash, TypeOK
  <2>2. CASE ~(OnUpdate(o, e, h) /\ templateCache[o][e] \notin {None, h})
    BY <1>1, <1>2, <2>2 DEF Filtered, OnAdd, OnUpdate, OnDelete, TypeOK
  <2>3. QED
    BY <2>1, <2>2
<1>5. CASE i # o \/ d # e
  <2>1. /\ known'[i][d] = known[i][d]
        /\ templateCache'[i][d] = templateCache[i][d]
        /\ told'[i][d] = told[i][d]
        /\ muted'[i][d] = muted[i][d]
    BY <1>1, <1>2, <1>5 DEF Filtered, OnAdd, OnUpdate, OnDelete, TypeOK
  <2>2. CASE i # o
    BY <1>2, <1>3, <2>1, <2>2 DEF Followed
  <2>3. CASE i = o
    BY <1>2, <1>4, <1>5, <2>1, <2>3 DEF Followed
  <2>4. QED
    BY <2>2, <2>3
<1>6. CASE i = o /\ d = e
  <2>0. known'[i][d] = h /\ watcher'[i] # "down"
    BY <1>2, <1>6 DEF TypeOK
  <2>1. CASE Filtered(o, e, h)
    <3>1. muted'[i][d] = TRUE
      BY <1>6, <2>1 DEF Filtered, TypeOK
    <3>2. QED
      BY <2>0, <3>1 DEF Followed
  <2>2. CASE OnAdd(o, e, h)
    <3>1. templateCache'[i][d] = h /\ told'[i][d] = h /\ handler'[i] = Idle
      BY <1>2, <1>6, <2>2 DEF OnAdd, TypeOK
    <3>2. QED
      BY <2>0, <3>1 DEF Followed
  <2>3. CASE OnUpdate(o, e, h)
    <3>1. /\ templateCache'[i][d] = h /\ told'[i][d] = told[i][d]
          /\ muted'[i][d] = muted[i][d] /\ known[i][d] # None /\ h # None
          /\ handler'[i] = IF templateCache[i][d] \in {None, h} THEN Idle
                           ELSE [dep |-> d, old |-> templateCache[i][d], new |-> h]
      BY <1>6, <2>3 DEF OnUpdate, TypeOK
    <3>2. ~muted[i][d] => templateCache[i][d] = known[i][d] /\ told[i][d] = known[i][d]
      BY <1>2, <1>6, <3>1 DEF Followed
    <3>3. CASE templateCache[i][d] \in {None, h}
      BY <2>0, <3>1, <3>2, <3>3 DEF Followed
    <3>4. CASE templateCache[i][d] \notin {None, h}
      <4>1. handler'[i] = [dep |-> d, old |-> templateCache[i][d], new |-> h]
        BY <3>1, <3>4
      <4>2. handler'[i] \in Event
        BY <4>1, <3>1, <3>4 DEF Event, TypeOK, Hash
      <4>3. /\ handler'[i] # Idle /\ handler'[i].dep = d
            /\ handler'[i].old = templateCache[i][d] /\ handler'[i].new = h
        BY <4>1, <4>2 DEF Event
      <4>4. QED
        BY <2>0, <3>1, <3>2, <3>4, <4>3 DEF Followed
    <3>5. QED
      BY <3>3, <3>4
  <2>4. CASE h = None /\ OnDelete(o, e)
    BY <2>0, <2>4 DEF Followed
  <2>5. QED
    BY <1>1, <2>1, <2>2, <2>3, <2>4
<1>7. QED
  BY <1>5, <1>6

\* Every change of a template that an informer delivers is told once by it,
\* unless its namespace is filtered out.
THEOREM NothingIsMissed == Spec => []NothingMissed
<1> USE WatcherAssumption
<1> DEFINE IInv == \A i \in Watchers, d \in Deployments : Followed(i, d)
<1>1. Init => IInv
  BY DEF Init, Followed, PerWatcher, PerDeployment
<1>2. TypeOK /\ IInv /\ [Next]_vars => IInv'
  <2> SUFFICES ASSUME TypeOK, [Next]_vars,
                      NEW i \in Watchers, NEW d \in Deployments, Followed(i, d)
               PROVE  Followed(i, d)'
    OBVIOUS
  <2>1. ASSUME NEW o \in Watchers, NEW e \in Deployments, Handler(o, e)
        PROVE  Followed(i, d)'
    BY <2>1, HandlerFollows
  <2>2. ASSUME NEW o \in Watchers, StartWatcher(o) \/ StartFails(o) PROVE Followed(i, d)'
    <3>1. /\ UNCHANGED <<known, handler, told, muted>>
          /\ watcher[o] = "down"
          /\ i # o => templateCache'[i] = templateCache[i]
          /\ watcher'[i] = "down" => watcher[i] = "down"
      BY <2>2 DEF StartWatcher, StartFails, Create, Displaced, TypeOK
    <3>2. CASE i = o
      BY <3>1, <3>2 DEF Followed
    <3>3. CASE i # o
      BY <3>1, <3>3 DEF Followed
    <3>4. QED
      BY <3>2, <3>3
  <2>3. ASSUME NEW o \in Watchers, Recycle(o) \/ StopWatcher(o) PROVE Followed(i, d)'
    <3>1. WatcherStops(o)
      BY <2>3 DEF Recycle, StopWatcher
    <3>2. CASE i = o
      <4>1. known'[i][d] = None
        BY <3>1, <3>2 DEF WatcherStops, PerDeployment, TypeOK
      <4>2. QED
        BY <4>1 DEF Followed
    <3>3. CASE i # o
      BY <3>1, <3>3 DEF WatcherStops, Followed, TypeOK
    <3>4. QED
      BY <3>2, <3>3
  <2>4. ASSUME NEW o \in Watchers, Submit(o) PROVE Followed(i, d)'
    <3>1. handler[o] # Idle /\ handler[o].dep \in Deployments
      BY <2>4 DEF Submit, TypeOK, Event
    <3>2. /\ UNCHANGED <<watcher, known, muted, templateCache>>
          /\ told'[i][d] = IF i = o /\ d = handler[o].dep
                           THEN handler[o].new ELSE told[i][d]
          /\ handler'[i] = IF i = o THEN Idle ELSE handler[i]
      BY <2>4, <3>1 DEF Submit, TypeOK
    <3>3. QED
      BY <3>1, <3>2 DEF Followed
  <2>5. CASE Crash
    BY <2>5 DEF Crash, Followed, PerWatcher, PerDeployment
  <2>6. CASE \/ Signal \/ ManagerStopped \/ Cancel
             \/ \E s \in Configs : ApplyConfig(s)
             \/ UNCHANGED watcherVars
    <3>1. UNCHANGED <<watcher, known, muted, templateCache, handler, told>>
      BY <2>6 DEF ApplyConfig, Signal, ManagerStopped, Cancel, watcherVars, ownVars
    <3>2. QED
      BY <3>1 DEF Followed
  <2>7. QED
    BY <2>1, <2>2, <2>3, <2>4, <2>5, <2>6 DEF Next, vars
<1>3. IInv => NothingMissed
  BY DEF NothingMissed, Followed
<1>4. QED
  BY <1>1, <1>2, <1>3, TypeCorrect, PTL DEF Spec
============================================================================
