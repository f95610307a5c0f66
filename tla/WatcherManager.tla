--------------------------- MODULE WatcherManager ---------------------------
(***************************************************************************)
(* Which cluster watchers run: internal/watcher/manager.go.  The manager   *)
(* starts one informer per kubeconfig file, then one goroutine reconciles  *)
(* its maps with the directory, the watchlist, the informers' health and   *)
(* the clock, one phase after the other, until main() stops it.            *)
(*                                                                         *)
(* A kubeconfig is a version number, 0 where there is no file, so that the *)
(* content hash of a file and the config built from it are its version.    *)
(* An informer is the one m.watchers knows, or an orphan: still running,   *)
(* but out of the manager's reach.                                         *)
(***************************************************************************)
EXTENDS Naturals, FiniteSets

CONSTANTS
  Clusters,    \* cluster IDs (file name stems)
  MaxVersion,  \* bound: distinct contents of a kubeconfig file
  MaxEdits,    \* bound: changes of the directory
  MaxFaults,   \* bound: failed starts and unreadable periods of the directory
  MaxSick,     \* bound: informers that turn unhealthy
  MaxOrphans,  \* bound: orphaned informers per cluster
  Watchlist,   \* clusters the watchlist desires (DesiredClusters)
  MayRemove,   \* may a kubeconfig file be removed?
  MayRevert    \* may a file get a content it had before?

ASSUME ManagerAssumption ==
  /\ IsFiniteSet(Clusters)
  /\ {MaxVersion, MaxEdits, MaxFaults, MaxSick, MaxOrphans} \subseteq Nat
  /\ MaxVersion >= 1
  /\ Watchlist \subseteq Clusters
  /\ {MayRemove, MayRevert} \subseteq BOOLEAN

VARIABLES
  file,       \* [Clusters -> version in KUBECONFIG_DIR, 0 if absent]
  edits,      \* changes of the directory so far
  readable,   \* does LoadDirectorySnapshot succeed now?
  current,    \* m.watchers: [Clusters -> version it was started with, 0 if none]
  orphans,    \* [Clusters -> running informers that m.watchers does not hold]
  sick,       \* clusters whose current informer reports unhealthy
  known,      \* m.fileHashes: [Clusters -> version, 0 if none]
  pending,    \* clusters in m.pendingRetry
  due,        \* those whose nextRetry has passed
  retryConf,  \* [Clusters -> version in the entry, 0 for a nil RestConfig]
  snap,       \* the directory snapshot the goroutine works on
  pc,         \* its phase
  todo,       \* the clusters this phase has not processed yet
  main,       \* "running", "stopped" (Manager.Stop rolledBack), "cancelled"
  faults,     \* failed starts and unreadable periods so far
  sickness,   \* informers that turned unhealthy so far
  removed,    \* history: clusters whose file was removed
  raced,      \* history: clusters whose file changed before Start's snapshot
  rolledBack, \* history: clusters whose file was removed or got an older content
  failed,     \* history: clusters of which a start failed
  blind       \* history: Start could not read the directory for its snapshot

environment == <<file, edits, readable>>
entries == <<pending, due, retryConf>>
vars == <<file, edits, readable, current, orphans, sick, known, pending, due,
          retryConf, snap, pc, todo, main, faults, sickness, removed, raced, rolledBack,
          failed, blind>>
edited == <<removed, raced, rolledBack>>
history == <<edited, blind>>
trouble == <<faults, failed>>

Versions == 0..MaxVersion
Phases == {"boot", "hashes", "sleep", "ensure", "rescan", "health", "retry"}

TypeOK ==
  /\ file \in [Clusters -> Versions] /\ edits \in 0..MaxEdits
  /\ readable \in BOOLEAN
  /\ current \in [Clusters -> Versions]
  /\ orphans \in [Clusters -> 0..MaxOrphans]
  /\ sick \subseteq Clusters
  /\ known \in [Clusters -> Versions]
  /\ pending \subseteq Clusters /\ due \subseteq pending
  /\ retryConf \in [Clusters -> Versions]
  /\ snap \in [Clusters -> Versions]
  /\ pc \in Phases /\ todo \subseteq Clusters
  /\ main \in {"running", "stopped", "cancelled"}
  /\ faults \in 0..MaxFaults /\ sickness \in 0..MaxSick
  /\ removed \subseteq Clusters /\ raced \subseteq Clusters /\ rolledBack \subseteq Clusters
  /\ failed \subseteq Clusters /\ blind \in BOOLEAN

\* main() has loaded the clusters of the directory and calls Manager.Start.
Init ==
  /\ file \in {f \in [Clusters -> 0..1] : \E c \in Clusters : f[c] # 0}
  /\ edits = 0 /\ readable = TRUE
  /\ current = [c \in Clusters |-> 0]
  /\ orphans = [c \in Clusters |-> 0]
  /\ sick = {}
  /\ known = [c \in Clusters |-> 0]
  /\ pending = {} /\ due = {}
  /\ retryConf = [c \in Clusters |-> 0]
  /\ snap = file
  /\ pc = "boot" /\ todo = {c \in Clusters : file[c] # 0}
  /\ main = "running" /\ faults = 0 /\ sickness = 0
  /\ removed = {} /\ raced = {} /\ rolledBack = {} /\ failed = {} /\ blind = FALSE

----------------------------------------------------------------------------
\* startWatcherLocked succeeds: the new watcher replaces the entry of c, and a
\* watcher that was still there is not stopped.
StartOK(c, before, v) ==
  /\ before # 0 => orphans[c] < MaxOrphans
  /\ current' = [current EXCEPT ![c] = v]
  /\ orphans' = [orphans EXCEPT ![c] = orphans[c] + IF before # 0 THEN 1 ELSE 0]
  /\ sick' = sick \ {c}
  /\ UNCHANGED trouble

\* It fails, in the clientset factory or because the cache does not sync in
\* time.  In the second case the informer was started and nobody cancels it.
StartFails(c, before) ==
  /\ faults < MaxFaults
  /\ faults' = faults + 1
  /\ failed' = failed \cup {c}
  /\ current' = [current EXCEPT ![c] = before]
  /\ sick' = IF before = 0 THEN sick \ {c} ELSE sick
  /\ \/ UNCHANGED orphans
     \/ /\ orphans[c] < MaxOrphans
        /\ orphans' = [orphans EXCEPT ![c] = orphans[c] + 1]

\* A new retry entry for c, to be tried after the first backoff.
Queue(c, v) ==
  /\ pending' = pending \cup {c}
  /\ due' = due \ {c}
  /\ retryConf' = [retryConf EXCEPT ![c] = v]

Unqueue(c) ==
  /\ pending' = pending \ {c}
  /\ due' = due \ {c}
  /\ UNCHANGED retryConf

\* The phase has processed c; after the last cluster the next phase begins.
Processed(c, next) ==
  /\ todo' = IF todo = {c} THEN Clusters ELSE todo \ {c}
  /\ pc' = IF todo = {c} THEN next ELSE pc

SkipStart == UNCHANGED <<current, orphans, sick, trouble>>

----------------------------------------------------------------------------
\* Manager.Start, its loop over the clusters.
BootStart(c) ==
  /\ pc = "boot" /\ c \in todo
  /\ \/ StartOK(c, 0, snap[c]) /\ UNCHANGED entries
     \/ StartFails(c, 0) /\ Queue(c, snap[c])
  /\ Processed(c, "hashes")
  /\ UNCHANGED <<environment, history, known, snap, main, sickness>>

\* Manager.Start, after the loop: fileHashes is a snapshot taken now (or stays
\* empty when the directory cannot be read), and the reconcile loop starts.
BootHashes ==
  /\ pc = "hashes"
  /\ known' = IF readable THEN file ELSE known
  /\ blind' = ~readable
  /\ pc' = "sleep"
  /\ UNCHANGED <<environment, edited, current, orphans, sick, entries, snap, todo, main,
                 trouble, sickness>>

\* The ticker or the watchlist's trigger wakes the loop.
Wake ==
  /\ pc = "sleep"
  /\ pc' = "ensure"
  /\ UNCHANGED <<environment, history, current, orphans, sick, known, entries, snap,
                 todo, main, trouble, sickness>>

\* Phase 0, ensureWatchlistClusters: a desired cluster that neither runs nor
\* is pending is started from its file; fileHashes does not learn of it.
EnsureCluster(c) ==
  /\ pc = "ensure" /\ c \in todo
  /\ IF /\ c \in Watchlist /\ current[c] = 0 /\ c \notin pending
        /\ readable /\ file[c] # 0
       THEN \/ StartOK(c, 0, file[c]) /\ UNCHANGED entries
            \/ StartFails(c, 0) /\ Queue(c, file[c])
       ELSE SkipStart /\ UNCHANGED entries
  /\ IF todo = {c}
       THEN \* phase 1, if it is time and the directory gives a snapshot
            \/ readable /\ pc' = "rescan" /\ todo' = Clusters /\ snap' = file
            \/ pc' = "health" /\ todo' = Clusters /\ UNCHANGED snap
       ELSE todo' = todo \ {c} /\ UNCHANGED <<pc, snap>>
  /\ UNCHANGED <<environment, history, known, main, sickness>>

\* Mutant of RescanRemoved: the hash of the removed file stays.
RescanRemovedKeepsHash(c) ==
  /\ snap[c] = 0
  /\ current' = [current EXCEPT ![c] = 0]
  /\ sick' = sick \ {c}
  /\ Unqueue(c)
  /\ UNCHANGED <<known, orphans, trouble>>

\* Phase 1, rescanDirectory, on a cluster that the snapshot lacks: stop and
\* forget its watcher; without a watcher only the retry entry goes.
RescanRemoved(c) ==
  /\ snap[c] = 0
  /\ current' = [current EXCEPT ![c] = 0]
  /\ sick' = sick \ {c}
  /\ known' = IF current[c] # 0 THEN [known EXCEPT ![c] = 0] ELSE known
  /\ Unqueue(c)
  /\ UNCHANGED <<orphans, trouble>>

\* ... on a file fileHashes does not know: hand it to the retry entry if there
\* is one, else start a watcher.
RescanNew(c) ==
  /\ snap[c] # 0 /\ known[c] = 0
  /\ \/ /\ c \in pending
        /\ retryConf' = [retryConf EXCEPT ![c] = snap[c]]
        /\ known' = [known EXCEPT ![c] = snap[c]]
        /\ SkipStart /\ UNCHANGED <<pending, due>>
     \/ /\ c \notin pending
        /\ StartOK(c, current[c], snap[c])
        /\ known' = [known EXCEPT ![c] = snap[c]]
        /\ UNCHANGED entries
     \/ /\ c \notin pending
        /\ StartFails(c, current[c])
        /\ Queue(c, snap[c])
        /\ UNCHANGED known

\* Mutant of RescanChanged: the old watcher is not stopped first.
RescanChangedNoStop(c) ==
  /\ snap[c] # 0 /\ known[c] # 0 /\ snap[c] # known[c]
  /\ \/ /\ StartOK(c, current[c], snap[c])
        /\ known' = [known EXCEPT ![c] = snap[c]]
        /\ Unqueue(c)
     \/ /\ StartFails(c, current[c])
        /\ known' = [known EXCEPT ![c] = 0]
        /\ Queue(c, snap[c])

\* Mutant of RescanChanged: the watcher is started with the config it had.
RescanChangedOldConfig(c) ==
  /\ snap[c] # 0 /\ known[c] # 0 /\ snap[c] # known[c]
  /\ \/ /\ StartOK(c, 0, known[c])
        /\ known' = [known EXCEPT ![c] = snap[c]]
        /\ Unqueue(c)
     \/ /\ StartFails(c, 0)
        /\ known' = [known EXCEPT ![c] = 0]
        /\ Queue(c, snap[c])

\* ... on a file with another hash: stop the watcher, drop the retry entry and
\* start afresh; a failure makes fileHashes forget the file.
RescanChanged(c) ==
  /\ snap[c] # 0 /\ known[c] # 0 /\ snap[c] # known[c]
  /\ \/ /\ StartOK(c, 0, snap[c])
        /\ known' = [known EXCEPT ![c] = snap[c]]
        /\ Unqueue(c)
     \/ /\ StartFails(c, 0)
        /\ known' = [known EXCEPT ![c] = 0]
        /\ Queue(c, snap[c])

\* ... on a file it has seen: nothing.
RescanSame(c) ==
  /\ snap[c] # 0 /\ snap[c] = known[c]
  /\ SkipStart /\ UNCHANGED <<known, entries>>

RescanCluster(c) ==
  /\ pc = "rescan" /\ c \in todo
  /\ RescanRemoved(c) \/ RescanNew(c) \/ RescanChanged(c) \/ RescanSame(c)
  /\ Processed(c, "health")
  /\ UNCHANGED <<environment, history, snap, main, sickness>>

\* Mutant of HealthCheck: the unhealthy watcher is stopped, and that is all.
HealthCheckNoRetry(c) ==
  /\ pc = "health" /\ c \in todo
  /\ IF current[c] # 0 /\ c \in sick
       THEN current' = [current EXCEPT ![c] = 0] /\ sick' = sick \ {c}
       ELSE UNCHANGED <<current, sick>>
  /\ Processed(c, "retry")
  /\ UNCHANGED <<environment, history, orphans, known, entries, snap, main, trouble,
                 sickness>>

\* Phase 2: an unhealthy watcher is stopped and queued with a nil RestConfig,
\* unless an entry is there already.
HealthCheck(c) ==
  /\ pc = "health" /\ c \in todo
  /\ IF current[c] # 0 /\ c \in sick
       THEN /\ current' = [current EXCEPT ![c] = 0]
            /\ sick' = sick \ {c}
            /\ IF c \in pending THEN UNCHANGED entries ELSE Queue(c, 0)
       ELSE UNCHANGED <<current, sick, entries>>
  /\ Processed(c, "retry")
  /\ UNCHANGED <<environment, history, orphans, known, snap, main, trouble, sickness>>

\* Mutant of RetryVersion: the entry's config only.
RetryFromEntry(c) == retryConf[c]

\* Phase 3, the config a retry uses: the file's if the directory can be read
\* and has one, else the entry's.
RetryVersion(c) == IF readable /\ file[c] # 0 THEN file[c] ELSE retryConf[c]

\* Phase 3: an entry that is due is tried; success removes the entry and says
\* nothing to fileHashes.
RetryCluster(c) ==
  /\ pc = "retry" /\ c \in todo
  /\ IF c \in due /\ RetryVersion(c) # 0
       THEN \/ StartOK(c, current[c], RetryVersion(c)) /\ Unqueue(c)
            \/ StartFails(c, current[c]) /\ due' = due \ {c}
               /\ UNCHANGED <<pending, retryConf>>
       ELSE due' = due \ {c} /\ SkipStart /\ UNCHANGED <<pending, retryConf>>
  /\ Processed(c, "sleep")
  /\ UNCHANGED <<environment, history, known, snap, main, sickness>>

----------------------------------------------------------------------------
\* Somebody writes, replaces or removes a kubeconfig file.
EditFile(c, v) ==
  /\ edits < MaxEdits
  /\ v # file[c]
  /\ v = 0 => MayRemove
  /\ v # 0 => MayRevert \/ v = edits + 2
  /\ file' = [file EXCEPT ![c] = v]
  /\ edits' = edits + 1
  /\ removed' = IF v = 0 THEN removed \cup {c} ELSE removed
  /\ rolledBack' = IF v < file[c] THEN rolledBack \cup {c} ELSE rolledBack
  /\ raced' = IF pc \in {"boot", "hashes"} THEN raced \cup {c} ELSE raced
  /\ UNCHANGED <<readable, blind, current, orphans, sick, known, entries, snap, pc,
                 todo, main, trouble, sickness>>

\* The directory cannot be read for a while.
DirectoryFails ==
  /\ readable
  /\ faults < MaxFaults
  /\ readable' = FALSE
  /\ faults' = faults + 1
  /\ UNCHANGED <<file, edits, history, current, orphans, sick, known, entries, snap, pc,
                 todo, main, failed, sickness>>

DirectoryMended ==
  /\ ~readable
  /\ readable' = TRUE
  /\ UNCHANGED <<file, edits, history, current, orphans, sick, known, entries, snap, pc,
                 todo, main, trouble, sickness>>

\* Five watch errors or a permanent one (ClusterWatcher.HealthStatus).
Sicken(c) ==
  /\ current[c] # 0 /\ c \notin sick
  /\ sickness < MaxSick
  /\ sickness' = sickness + 1
  /\ sick' = sick \cup {c}
  /\ UNCHANGED <<environment, history, current, orphans, known, entries, snap, pc, todo,
                 main, trouble>>

\* An event reaches a handler, which resets the error counter.
Heal(c) ==
  /\ c \in sick
  /\ sick' = sick \ {c}
  /\ UNCHANGED <<environment, history, current, orphans, known, entries, snap, pc, todo,
                 main, trouble, sickness>>

\* A backoff ends.  Phase 3 reads the clock once, before its loop.
BackoffEnds(c) ==
  /\ c \in pending \ due
  /\ pc # "retry"
  /\ due' = due \cup {c}
  /\ UNCHANGED <<environment, history, current, orphans, sick, known, pending, retryConf,
                 snap, pc, todo, main, trouble, sickness>>

\* m.mu is free while the loop sleeps and before a phase locks it; phases 2 and
\* 3 share one critical section.
MutexFree ==
  \/ pc = "sleep"
  \/ pc \in {"ensure", "rescan", "health"} /\ todo = Clusters

\* Manager.Stop, called by main(); the reconcile loop goes on.
Stop ==
  /\ main = "running"
  /\ MutexFree
  /\ main' = "stopped"
  /\ current' = [c \in Clusters |-> 0]
  /\ sick' = {}
  /\ UNCHANGED <<environment, history, orphans, known, entries, snap, pc, todo, trouble,
                 sickness>>

\* main() cancels the root context: every informer and the loop end with it.
Cancel ==
  /\ main = "stopped"
  /\ main' = "cancelled"
  /\ current' = [c \in Clusters |-> 0]
  /\ orphans' = [c \in Clusters |-> 0]
  /\ sick' = {}
  /\ UNCHANGED <<environment, history, known, entries, snap, pc, todo, trouble, sickness>>

Reconcile ==
  \/ \E c \in Clusters : BootStart(c)
  \/ BootHashes
  \/ Wake
  \/ \E c \in Clusters : EnsureCluster(c)
  \/ \E c \in Clusters : RescanCluster(c)
  \/ \E c \in Clusters : HealthCheck(c)
  \/ \E c \in Clusters : RetryCluster(c)

Next ==
  /\ main # "cancelled"
  /\ \/ Reconcile
     \/ \E c \in Clusters : \E v \in Versions : EditFile(c, v)
     \/ DirectoryFails
     \/ DirectoryMended
     \/ \E c \in Clusters : Sicken(c) \/ Heal(c) \/ BackoffEnds(c)
     \/ Stop
     \/ Cancel

Spec == Init /\ [][Next]_vars

(***************************************************************************)
(* Fairness: the loop runs (a ticker wakes it), it rescans again and again *)
(* (rescanInterval > 0), a backoff ends, an unreadable directory becomes   *)
(* readable, and a start that is tried again and again succeeds in the end *)
(* (MaxFaults).                                                            *)
(***************************************************************************)
Fairness ==
  /\ WF_vars(Reconcile)
  /\ WF_vars(DirectoryMended)
  /\ SF_vars((\E c \in Clusters : EnsureCluster(c)) /\ pc' = "rescan")
  /\ \A c \in Clusters : SF_vars(BackoffEnds(c))

FairSpec == Spec /\ Fairness

----------------------------------------------------------------------------
\* A file that fileHashes says is known is watched or queued for retry.  It is
\* what makes skipping an unchanged file right: a cluster that is neither would
\* never be started again (manager.go:490-541 against 301-335 and 338-389).  A
\* cluster whose file was removed meanwhile, or changed while Start ran, may be
\* forgotten; it takes no other cluster with it.
NotForgotten ==
  main = "running" =>
    \A c \in Clusters \ (removed \cup raced) :
      known[c] # 0 => current[c] # 0 \/ c \in pending

\* A file that a rescan skips, because its hash is the one fileHashes has, is not
\* watched with another content: neither an older one from a retry entry or a
\* snapshot, nor the one before a change that failed (manager.go:344-387, 490-541).
\* A retry may run ahead of fileHashes, so that a content that comes back can be
\* skipped wrongly; a removed cluster or one changed while Start ran as well.
SkipsAreRight ==
  \A c \in Clusters \ (raced \cup rolledBack) :
    current[c] # 0 /\ c \notin pending /\ known[c] = file[c] => current[c] = file[c]

\* "starts watchers for new files, recycles watchers for changed files, stops
\* watchers for removed files" (docs/architecture.md:67): once the directory
\* stays as it is, the watchers become those of the directory, but of clusters
\* whose file changed while Start ran.
Converges ==
  \A c \in Clusters :
    [](main = "running" /\ c \notin raced) => <>[](current[c] = file[c])

\* "starts watchers for new files" (docs/architecture.md:67), "detect new ...
\* clusters without a restart" (README.md:132): a file that stays is watched.
NewFilesAreWatched ==
  [](main = "running") =>
    <>[](\A c \in Clusters : file[c] # 0 => current[c] # 0)

\* No informer runs that m.watchers does not hold, so that recycling, removing or
\* stopping a cluster's watcher really ends its events (manager.go:472-541,
\* 301-310), whatever fails for other clusters: unless a start of this cluster
\* failed, its file changed while Start ran, or Start could not read the
\* directory.  A cluster of the watchlist is no part of it: EnsureCluster does
\* not tell fileHashes, so that the next rescan starts a second informer for it.
NoOrphans ==
  ~blind => \A c \in Clusters \ (Watchlist \cup raced \cup failed) : orphans[c] = 0

\* Manager "owns all per-cluster watchers" (docs/architecture.md:77): every
\* informer that runs is one m.watchers holds.
OwnsAllWatchers == \A c \in Clusters : orphans[c] = 0
=============================================================================
