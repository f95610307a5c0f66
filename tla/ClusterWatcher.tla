---------------------------- MODULE ClusterWatcher ----------------------------
(* From the informers to the debouncer and the hash store: the handlers of     *)
(* internal/watcher/informer.go, the namespace filter that MonitorConfig        *)
(* changes at run time, and the life of a watcher as far as its cache and its   *)
(* handlers are concerned.  The handlers of one informer run one after another; *)
(* those of different informers, also of one cluster, the flush goroutine and   *)
(* the config watcher run beside them.                                          *)
EXTENDS HashStore

CONSTANTS
    Watchers,       \* ClusterWatcher objects, each with its informer
    HomeOf,         \* the cluster of a watcher
    NamespaceOf,    \* the namespace of a deployment
    Namespaces,
    Configs,        \* filter settings: records [allow, deny] of namespace sets
    DefaultConfig,  \* the one of the environment variables
    Idle,           \* no handler on its way to Submit
    MaxChanges,     \* bound: template changes, creations and deletions seen
    MaxEdits,       \* bound: settings the config watcher applies
    MaxRestarts     \* bound: crashes, watchers recycled or left behind

ASSUME WatcherAssumption ==
    /\ HomeOf \in [Watchers -> Clusters]
    /\ NamespaceOf \in [Deployments -> Namespaces]
    /\ Configs \subseteq [allow : SUBSET Namespaces, deny : SUBSET Namespaces]
    /\ DefaultConfig \in Configs
    /\ Idle \notin [dep : Deployments, old : Hashes, new : Hashes]
    /\ MaxChanges \in Nat /\ MaxEdits \in Nat /\ MaxRestarts \in Nat

VARIABLES
    watcher,        \* is its informer running, and will anybody stop it?
    known,          \* what it has delivered last
    templateCache,
    handler,        \* the event its handler is about to submit
    filter,         \* the lists of the NamespaceFilter
    main,           \* running, in Manager.Stop, after it
    changes, edits, restarts,
    stray,          \* history: buffered after the cancel by a watcher nobody stopped
    muted,          \* history: a notification was filtered since the baseline
    told            \* history: the template the receiver of its events believes in

ownVars == <<known, templateCache, handler, muted, told>>
watcherVars == <<watcher, ownVars, filter, main, changes, edits, restarts, stray>>
vars == <<hashVars, watcherVars>>

Event == [dep : Deployments, old : Hashes, new : Hashes]
Allowed(ns) == IF filter.allow # {} THEN ns \in filter.allow ELSE ns \notin filter.deny

\* "up": in m.watchers.  "late": so too, but since Manager.Stop has returned.
\* "orphan": not there, because its start failed or another took its place.
Held == {i \in Watchers : watcher[i] \in {"up", "late"}}
Unstopped == {i \in Watchers : watcher[i] \in {"late", "orphan"}}

PerDeployment(v) == [d \in Deployments |-> v]
PerWatcher(v) == [i \in Watchers |-> v]

TypeOK ==
    /\ HashTypeOK
    /\ watcher \in [Watchers -> {"down", "up", "late", "orphan"}]
    /\ known \in [Watchers -> [Deployments -> Hash]]
    /\ templateCache \in [Watchers -> [Deployments -> Hash]]
    /\ handler \in [Watchers -> Event \cup {Idle}]
    /\ filter \in Configs
    /\ main \in {"running", "stopping", "stopped"}
    /\ changes \in 0 .. MaxChanges
    /\ edits \in 0 .. MaxEdits
    /\ restarts \in 0 .. MaxRestarts
    /\ stray \in SUBSET Deployments
    /\ muted \in [Watchers -> [Deployments -> BOOLEAN]]
    /\ told \in [Watchers -> [Deployments -> Hash]]

Init ==
    /\ HashInit
    /\ watcher = PerWatcher("down")
    /\ known = PerWatcher(PerDeployment(None))
    /\ templateCache = PerWatcher(PerDeployment(None))
    /\ handler = PerWatcher(Idle)
    /\ muted = PerWatcher(PerDeployment(FALSE))
    /\ told = PerWatcher(PerDeployment(None))
    /\ filter = DefaultConfig
    /\ main = "running"
    /\ changes = 0 /\ edits = 0 /\ restarts = 0
    /\ stray = {}

------------------------------------------------------------------------------
(* The config watcher *)

\* initialSync or handleConfigChange: Filter.Update with the lists of whatever
\* MonitorConfig "default" the goroutine sees; it may be late and may skip
\* versions.  There is no handler for a deletion.  (The status it writes is not
\* part of the model.)
ApplyConfig(s) ==
    /\ edits < MaxEdits
    /\ filter # s
    /\ filter' = s
    /\ edits' = edits + 1
    /\ UNCHANGED <<hashVars, watcher, ownVars, main, changes, restarts, stray>>

------------------------------------------------------------------------------
(* The life of a watcher *)

\* startWatcherLocked: a new watcher with an empty cache, seeded with the
\* persisted hashes if they can be loaded; then its informer starts.  The
\* reconcile loop waits for Manager.Stop to release the mutex, and may go on
\* starting watchers until the context is cancelled.
Create(i) ==
    /\ watcher[i] = "down"
    /\ main # "stopping" /\ ~cancelled
    /\ \E loaded \in BOOLEAN :
          templateCache' = [templateCache EXCEPT ![i] =
              [d \in Deployments |-> IF loaded /\ ClusterOf[d] = HomeOf[i]
                                     THEN persisted[d] ELSE None]]
    /\ UNCHANGED <<hashVars, known, handler, filter, main, changes, edits,
                   stray, muted, told>>

\* The informers that m.watchers[cluster.ID] = w drops without a Stop.
Displaced(i) == {j \in Held : HomeOf[j] = HomeOf[i]}

StartWatcher(i) ==
    /\ Create(i)
    /\ IF Displaced(i) = {} THEN UNCHANGED restarts
       ELSE restarts < MaxRestarts /\ restarts' = restarts + 1
    /\ watcher' = [j \in Watchers |->
          IF j = i THEN IF main = "running" THEN "up" ELSE "late"
          ELSE IF j \in Displaced(i) THEN "orphan" ELSE watcher[j]]

\* The cache does not sync in time: the start fails, but its informer and
\* handlers go on, and nobody holds them.
StartFails(i) ==
    /\ Create(i)
    /\ restarts < MaxRestarts
    /\ restarts' = restarts + 1
    /\ watcher' = [watcher EXCEPT ![i] = "orphan"]

\* The informer and its handler have come to their end, and the watcher with them.
WatcherStops(i) ==
    /\ handler[i] = Idle
    /\ watcher' = [watcher EXCEPT ![i] = "down"]
    /\ known' = [known EXCEPT ![i] = PerDeployment(None)]
    /\ templateCache' = [templateCache EXCEPT ![i] = PerDeployment(None)]
    /\ muted' = [muted EXCEPT ![i] = PerDeployment(FALSE)]
    /\ told' = [told EXCEPT ![i] = PerDeployment(None)]
    /\ UNCHANGED <<hashVars, handler, filter, main, changes, edits, stray>>

\* The manager recycles a sick watcher: cancel, and wait for the informer.
Recycle(i) ==
    /\ i \in Held
    /\ main # "stopping"
    /\ restarts < MaxRestarts
    /\ restarts' = restarts + 1
    /\ WatcherStops(i)

\* Manager.Stop stops what it holds; the end of the context ends all informers.
StopWatcher(i) ==
    /\ \/ watcher[i] = "up" /\ main = "stopping"
       \/ watcher[i] # "down" /\ cancelled
    /\ WatcherStops(i)
    /\ UNCHANGED restarts

\* Manager.Stop has the mutex.
Signal ==
    /\ main = "running"
    /\ main' = "stopping"
    /\ UNCHANGED <<hashVars, watcher, ownVars, filter, changes, edits, restarts, stray>>

ManagerStopped ==
    /\ main = "stopping"
    /\ \A i \in Watchers : watcher[i] # "up"
    /\ main' = "stopped"
    /\ UNCHANGED <<hashVars, watcher, ownVars, filter, changes, edits, restarts, stray>>

\* Mutant of Cancel: main cancels the context first and then stops the manager.
CancelFirst ==
    /\ main # "running"
    /\ ~cancelled
    /\ cancelled' = TRUE
    /\ UNCHANGED <<pendingHashes, batch, stage, persisted, loop, lossy, latest, watcherVars>>

\* The cancel() at the end of main.
Cancel ==
    /\ main = "stopped"
    /\ ~cancelled
    /\ cancelled' = TRUE
    /\ UNCHANGED <<pendingHashes, batch, stage, persisted, loop, lossy, latest, watcherVars>>

\* The process dies at any moment, or main returns; it is started again.
Crash ==
    /\ restarts < MaxRestarts
    /\ restarts' = restarts + 1
    /\ HashCrash
    /\ watcher' = PerWatcher("down")
    /\ known' = PerWatcher(PerDeployment(None))
    /\ templateCache' = PerWatcher(PerDeployment(None))
    /\ handler' = PerWatcher(Idle)
    /\ muted' = PerWatcher(PerDeployment(FALSE))
    /\ told' = PerWatcher(PerDeployment(None))
    /\ filter' = DefaultConfig
    /\ main' = "running"
    /\ stray' = {}
    /\ UNCHANGED <<changes, edits>>

------------------------------------------------------------------------------
(* The handlers of the informers *)

\* The informer hands a state of the deployment to its handler.  It may be late
\* and may have skipped states (relist), each informer in its own way: any
\* sequences of hashes are what informers see of one history that is long
\* enough, so that any hash may come.
Deliver(i, d, h) ==
    /\ watcher[i] # "down"
    /\ HomeOf[i] = ClusterOf[d]
    /\ handler[i] = Idle
    /\ IF h = known[i][d] THEN UNCHANGED changes
       ELSE changes < MaxChanges /\ changes' = changes + 1
    /\ known' = [known EXCEPT ![i][d] = h]
    /\ UNCHANGED <<watcher, filter, main, edits, restarts>>

\* The handler tells the hash observer, which calls BufferHash or RemoveHash.
Observe(i, d, h) ==
    /\ Buffer(d, h)
    /\ stray' = IF cancelled /\ i \in Unstopped THEN stray \cup {d} ELSE stray

\* The filter rejects the namespace: the handler returns at once.
Filtered(i, d, h) ==
    /\ h # None
    /\ ~Allowed(NamespaceOf[d])
    /\ Deliver(i, d, h)
    /\ muted' = [muted EXCEPT ![i][d] = TRUE]
    /\ UNCHANGED <<hashVars, templateCache, handler, stray, told>>

\* Mutant of OnAdd: a seeded deployment is taken for one already seen.
OnAddKeepsSeed(i, d, h) ==
    /\ known[i][d] = None /\ h # None
    /\ Allowed(NamespaceOf[d])
    /\ Deliver(i, d, h)
    /\ templateCache' = [templateCache EXCEPT ![i][d] = IF @ = None THEN h ELSE @]
    /\ Observe(i, d, h)
    /\ told' = [told EXCEPT ![i][d] = h]
    /\ muted' = [muted EXCEPT ![i][d] = FALSE]
    /\ UNCHANGED handler

\* onAdd: the baseline.  It replaces what was seeded, and reports no rollout.
OnAdd(i, d, h) ==
    /\ known[i][d] = None /\ h # None
    /\ Allowed(NamespaceOf[d])
    /\ Deliver(i, d, h)
    /\ templateCache' = [templateCache EXCEPT ![i][d] = h]
    /\ Observe(i, d, h)
    /\ told' = [told EXCEPT ![i][d] = h]
    /\ muted' = [muted EXCEPT ![i][d] = FALSE]
    /\ UNCHANGED handler

\* onUpdate up to its Submit: the cache and the hash buffer take the new hash;
\* a deployment that was seen with another hash is a rollout.  An update of
\* anything else but the template arrives here too, with the hash unchanged.
OnUpdate(i, d, h) ==
    /\ known[i][d] # None /\ h # None
    /\ Allowed(NamespaceOf[d])
    /\ Deliver(i, d, h)
    /\ templateCache' = [templateCache EXCEPT ![i][d] = h]
    /\ Observe(i, d, h)
    /\ handler' = [handler EXCEPT ![i] =
          IF templateCache[i][d] \in {None, h} THEN Idle
          ELSE [dep |-> d, old |-> templateCache[i][d], new |-> h]]
    /\ UNCHANGED <<told, muted>>

\* onDelete, also of a namespace that is not allowed.
OnDelete(i, d) ==
    /\ known[i][d] # None
    /\ Deliver(i, d, None)
    /\ templateCache' = [templateCache EXCEPT ![i][d] = None]
    /\ Observe(i, d, None)
    /\ told' = [told EXCEPT ![i][d] = None]
    /\ muted' = [muted EXCEPT ![i][d] = FALSE]
    /\ UNCHANGED handler

\* debouncer.Submit with the event.
Submit(i) ==
    /\ handler[i] # Idle
    /\ told' = [told EXCEPT ![i][handler[i].dep] = handler[i].new]
    /\ handler' = [handler EXCEPT ![i] = Idle]
    /\ UNCHANGED <<hashVars, watcher, known, templateCache, filter, main,
                   changes, edits, restarts, stray, muted>>

------------------------------------------------------------------------------
Handler(i, d) ==
    \/ \E h \in Hash : Filtered(i, d, h) \/ OnAdd(i, d, h) \/ OnUpdate(i, d, h)
    \/ OnDelete(i, d)

Next ==
    \/ \E s \in Configs : ApplyConfig(s)
    \/ \E i \in Watchers :
          \/ StartWatcher(i) \/ StartFails(i)
          \/ Recycle(i) \/ StopWatcher(i) \/ Submit(i)
    \/ Signal \/ ManagerStopped \/ Cancel \/ Crash
    \/ \E i \in Watchers, d \in Deployments : Handler(i, d)
    \/ FlushStep /\ UNCHANGED watcherVars

Spec == Init /\ [][Next]_vars

\* The flush goroutine runs, and the API server does not fail every write of a
\* cluster for ever.
Fairness ==
    /\ WF_vars(FlushStep /\ UNCHANGED watcherVars)
    /\ \A c \in Clusters : SF_vars(UpsertApplies(c) /\ UNCHANGED watcherVars)

FairSpec == Spec /\ Fairness

------------------------------------------------------------------------------
(* Properties *)

(* An informer misses no rollout and tells none twice.  A deployment whose      *)
(* namespace has not been filtered out since this watcher took its baseline:    *)
(* when no handler runs, the receiver of its events knows the template it       *)
(* delivered last; an event about to be submitted leads from the template the   *)
(* receiver knows to that one.  This goes through deletion, re-creation,        *)
(* recycled watchers, stale seeds and changes of the filter.  (A second         *)
(* informer of the cluster tells the same changes once more.)                   *)
NothingMissed ==
    \A i \in Watchers, d \in Deployments :
        watcher[i] # "down" /\ known[i][d] # None /\ ~muted[i][d] =>
            LET e == handler[i]
            IN  IF e # Idle /\ e.dep = d
                THEN e.old = told[i][d] /\ e.new = known[i][d] /\ e.old # e.new
                ELSE told[i][d] = known[i][d]

(* A clean stop persists everything: when the flush goroutine has returned and *)
(* no write of its final flush failed, the objects hold the last hashes of all *)
(* deployments but those that a watcher which Manager.Stop does not reach       *)
(* reported after the cancel.  It takes main's order: the watchers the manager  *)
(* holds are down before the context is cancelled.                              *)
CleanStopPersists ==
    loop = "ended" /\ ~lossy =>
        \A d \in Deployments \ stray : persisted[d] = latest[d]

(* The persisted hashes catch up with what the handlers reported, however many *)
(* writes fail or lose their reply on the way, unless the monitor is stopped.  *)
PersistedCatchesUp ==
    \A d \in Deployments, h \in Hash :
        latest[d] = h ~> persisted[d] = h \/ latest[d] # h \/ main # "running"

(* What docs/architecture.md:46 promises: a deployment whose listed hash       *)
(* differs from the persisted one the watcher was seeded with is reported.     *)
GapIsReported ==
    [][\A i \in Watchers, d \in Deployments :
          known[i][d] = None /\ known'[i][d] # None /\ ~muted'[i][d]
          /\ templateCache[i][d] \notin {None, known'[i][d]}
          => handler'[i] # Idle]_vars
==============================================================================
