------------------------ MODULE WatcherManagerProofs ------------------------
(***************************************************************************)
(* The manager of the cluster watchers for any clusters, watchlist and     *)
(* number of edits and failures: its types, and the invariants that keep   *)
(* m.watchers, m.fileHashes and m.pendingRetry consistent with each other. *)
(***************************************************************************)
EXTENDS WatcherManager, TLAPS

ProcessState ==
  /\ current \in [Clusters -> Versions]
  /\ orphans \in [Clusters -> 0..MaxOrphans]
  /\ sick \subseteq Clusters
  /\ faults \in 0..MaxFaults
  /\ failed \subseteq Clusters

EntryState ==
  /\ pending \subseteq Clusters /\ due \subseteq pending
  /\ retryConf \in [Clusters -> Versions]

LEMMA BoundsAreNat ==
  /\ MaxVersion \in Nat /\ MaxVersion >= 1 /\ MaxEdits \in Nat
  /\ MaxFaults \in Nat /\ MaxSick \in Nat /\ MaxOrphans \in Nat
BY ManagerAssumption

\* A start, successful or not, keeps the types of what it writes.
LEMMA StartTypes ==
  ASSUME TypeOK, NEW c \in Clusters, NEW before \in Versions, NEW v \in Versions,
         StartOK(c, before, v) \/ StartFails(c, before)
  PROVE  ProcessState'
<1> USE BoundsAreNat DEF TypeOK, Versions
<1>1. CASE StartOK(c, before, v)
  <2>1. current' \in [Clusters -> Versions] /\ sick' \subseteq Clusters
    BY <1>1 DEF StartOK
  <2>2. orphans' \in [Clusters -> 0..MaxOrphans]
    BY <1>1 DEF StartOK
  <2>3. faults' \in 0..MaxFaults /\ failed' \subseteq Clusters
    BY <1>1 DEF StartOK, trouble
  <2>4. QED
    BY <2>1, <2>2, <2>3 DEF ProcessState
<1>2. CASE StartFails(c, before)
  <2>1. current' \in [Clusters -> Versions] /\ sick' \subseteq Clusters
    BY <1>2 DEF StartFails
  <2>2. orphans' \in [Clusters -> 0..MaxOrphans]
    BY <1>2 DEF StartFails
  <2>3. faults' \in 0..MaxFaults /\ failed' \subseteq Clusters
    BY <1>2 DEF StartFails
  <2>4. QED
    BY <2>1, <2>2, <2>3 DEF ProcessState
<1>3. QED
  BY <1>1, <1>2

LEMMA EntryTypes ==
  ASSUME TypeOK, NEW c \in Clusters, NEW v \in Versions,
         Queue(c, v) \/ Unqueue(c) \/ UNCHANGED entries
  PROVE  EntryState'
BY DEF TypeOK, Queue, Unqueue, entries, EntryState

LEMMA PhaseTypes ==
  ASSUME TypeOK, NEW c \in Clusters, NEW next \in Phases, Processed(c, next)
  PROVE  pc' \in Phases /\ todo' \subseteq Clusters
BY DEF TypeOK, Processed

----------------------------------------------------------------------------
\* Type correctness: the maps, the phase and the environment keep their shape.
THEOREM TypeCorrect == Spec => []TypeOK
<1>1. Init => TypeOK
  <2> SUFFICES ASSUME Init PROVE TypeOK
    OBVIOUS
  <2>1. 0 \in Versions /\ 0..1 \subseteq Versions
    BY BoundsAreNat DEF Versions
  <2>2. file \in [Clusters -> Versions] /\ snap \in [Clusters -> Versions]
    BY <2>1 DEF Init
  <2>3. /\ current \in [Clusters -> Versions] /\ known \in [Clusters -> Versions]
        /\ retryConf \in [Clusters -> Versions]
    BY <2>1 DEF Init
  <2>4. /\ edits \in 0..MaxEdits /\ faults \in 0..MaxFaults
        /\ sickness \in 0..MaxSick /\ orphans \in [Clusters -> 0..MaxOrphans]
    BY BoundsAreNat DEF Init
  <2>5. QED
    BY <2>2, <2>3, <2>4 DEF Init, TypeOK, Phases
<1>2. TypeOK /\ [Next]_vars => TypeOK'
  <2> SUFFICES ASSUME TypeOK, [Next]_vars PROVE TypeOK'
    OBVIOUS
  <2>z. 0 \in Versions
    BY BoundsAreNat DEF Versions
  <2>p. {"sleep", "ensure", "hashes", "rescan", "health", "retry"} \subseteq Phases
    BY DEF Phases
  <2>k. /\ \A c \in Clusters : /\ file[c] \in Versions /\ snap[c] \in Versions
                              /\ current[c] \in Versions
                              /\ retryConf[c] \in Versions
                              /\ RetryVersion(c) \in Versions
        /\ ProcessState /\ EntryState
    BY DEF TypeOK, RetryVersion, ProcessState, EntryState
  <2>e. ASSUME UNCHANGED <<file, edits, readable>>
        PROVE  /\ file' \in [Clusters -> Versions] /\ edits' \in 0..MaxEdits
               /\ readable' \in BOOLEAN
    BY <2>e DEF TypeOK
  <2>q. ASSUME ProcessState', EntryState', pc' \in Phases, todo' \subseteq Clusters,
               known' \in [Clusters -> Versions],
               snap' \in [Clusters -> Versions],
               UNCHANGED environment, UNCHANGED history, UNCHANGED <<main, sickness>>
        PROVE  TypeOK'
    BY <2>q DEF ProcessState, EntryState, environment, edited, history, trouble, TypeOK
  <2>1. ASSUME NEW c \in Clusters, BootStart(c) PROVE TypeOK'
    <3>1. ProcessState'
      BY <2>1, <2>z, <2>k, StartTypes DEF BootStart
    <3>2. EntryState'
      BY <2>1, <2>k, EntryTypes DEF BootStart
    <3>3. pc' \in Phases /\ todo' \subseteq Clusters
      BY <2>1, <2>p, PhaseTypes DEF BootStart
    <3>4. UNCHANGED environment /\ UNCHANGED history /\ UNCHANGED <<known, snap, main, sickness>>
      BY <2>1 DEF BootStart
    <3>5. QED
      BY <2>q, <3>1, <3>2, <3>3, <3>4 DEF TypeOK
  <2>2. CASE BootHashes
    <3>1. known' \in [Clusters -> Versions]
      BY <2>2 DEF BootHashes, TypeOK
    <3>2. QED
      BY <2>2, <2>p, <3>1 DEF BootHashes, TypeOK, environment, edited, history, trouble, entries
  <2>3. CASE Wake
    BY <2>3, <2>p DEF Wake, TypeOK, environment, edited, history, trouble, entries
  <2>4. ASSUME NEW c \in Clusters, EnsureCluster(c) PROVE TypeOK'
    <3>1. ProcessState'
      <4>1. CASE StartOK(c, 0, file[c]) \/ StartFails(c, 0)
        BY <2>z, <2>k, <4>1, StartTypes
      <4>2. CASE SkipStart
        BY <2>k, <4>2 DEF SkipStart, trouble, ProcessState
      <4>3. QED
        BY <2>4, <4>1, <4>2 DEF EnsureCluster
    <3>2. EntryState'
      BY <2>4, <2>k, EntryTypes DEF EnsureCluster
    <3>3. /\ pc' \in Phases /\ todo' \subseteq Clusters
          /\ snap' \in [Clusters -> Versions]
      BY <2>4, <2>p DEF EnsureCluster, TypeOK
    <3>4. UNCHANGED environment /\ UNCHANGED history /\ UNCHANGED <<known, main, sickness>>
      BY <2>4 DEF EnsureCluster
    <3>5. QED
      BY <2>q, <3>1, <3>2, <3>3, <3>4 DEF TypeOK
  <2>5. ASSUME NEW c \in Clusters, RescanCluster(c) PROVE TypeOK'
    <3>1. pc' \in Phases /\ todo' \subseteq Clusters
      BY <2>5, <2>p, PhaseTypes DEF RescanCluster
    <3>2. UNCHANGED environment /\ UNCHANGED history /\ UNCHANGED <<snap, main, sickness>>
      BY <2>5 DEF RescanCluster
    <3>3. ProcessState' /\ EntryState' /\ known' \in [Clusters -> Versions]
      <4>1. CASE RescanRemoved(c)
        <5>1. EntryState'
          BY <2>z, <4>1, EntryTypes DEF RescanRemoved
        <5>2. ProcessState' /\ known' \in [Clusters -> Versions]
          BY <2>z, <4>1 DEF RescanRemoved, trouble, TypeOK, ProcessState
        <5>3. QED
          BY <5>1, <5>2
      <4>2. CASE RescanNew(c)
        <5>1. known' \in [Clusters -> Versions]
          BY <2>k, <4>2 DEF RescanNew, TypeOK
        <5>2. CASE /\ SkipStart /\ UNCHANGED <<pending, due>>
                   /\ retryConf' = [retryConf EXCEPT ![c] = snap[c]]
          BY <2>k, <5>1, <5>2 DEF SkipStart, trouble, ProcessState, EntryState
        <5>3. CASE StartOK(c, current[c], snap[c]) /\ UNCHANGED entries
          BY <2>k, <5>1, <5>3, StartTypes, EntryTypes
        <5>4. CASE StartFails(c, current[c]) /\ Queue(c, snap[c])
          BY <2>k, <5>1, <5>4, StartTypes, EntryTypes
        <5>5. QED
          BY <4>2, <5>2, <5>3, <5>4 DEF RescanNew
      <4>3. CASE RescanChanged(c)
        <5>1. known' \in [Clusters -> Versions]
          BY <2>k, <2>z, <4>3 DEF RescanChanged, TypeOK
        <5>2. StartOK(c, 0, snap[c]) \/ StartFails(c, 0)
          BY <4>3 DEF RescanChanged
        <5>3. Queue(c, snap[c]) \/ Unqueue(c)
          BY <4>3 DEF RescanChanged
        <5>4. QED
          BY <2>z, <2>k, <5>1, <5>2, <5>3, StartTypes, EntryTypes
      <4>4. CASE RescanSame(c)
        BY <2>k, <4>4 DEF RescanSame, SkipStart, trouble, entries, ProcessState, EntryState,
                         TypeOK
      <4>5. QED
        BY <2>5, <4>1, <4>2, <4>3, <4>4 DEF RescanCluster
    <3>4. QED
      BY <2>q, <3>1, <3>2, <3>3 DEF TypeOK
  <2>6. ASSUME NEW c \in Clusters, HealthCheck(c) PROVE TypeOK'
    <3>1. pc' \in Phases /\ todo' \subseteq Clusters
      BY <2>6, <2>p, PhaseTypes DEF HealthCheck
    <3>2. ProcessState'
      BY <2>6, <2>z DEF HealthCheck, trouble, TypeOK, ProcessState
    <3>3. EntryState'
      BY <2>6, <2>z, EntryTypes DEF HealthCheck, entries
    <3>4. UNCHANGED environment /\ UNCHANGED history /\ UNCHANGED <<known, snap, main, sickness>>
      BY <2>6 DEF HealthCheck
    <3>5. QED
      BY <2>q, <3>1, <3>2, <3>3, <3>4 DEF TypeOK
  <2>7. ASSUME NEW c \in Clusters, RetryCluster(c) PROVE TypeOK'
    <3>1. pc' \in Phases /\ todo' \subseteq Clusters
      BY <2>7, <2>p, PhaseTypes DEF RetryCluster
    <3>2. ProcessState'
      <4>1. CASE \/ StartOK(c, current[c], RetryVersion(c))
                 \/ StartFails(c, current[c])
        BY <2>k, <4>1, StartTypes
      <4>2. CASE SkipStart
        BY <2>k, <4>2 DEF SkipStart, trouble, ProcessState
      <4>3. QED
        BY <2>7, <4>1, <4>2 DEF RetryCluster
    <3>3. EntryState'
      <4>1. CASE Unqueue(c)
        BY <2>z, <4>1, EntryTypes
      <4>2. CASE due' = due \ {c} /\ UNCHANGED <<pending, retryConf>>
        BY <2>k, <4>2 DEF EntryState
      <4>3. QED
        BY <2>7, <4>1, <4>2 DEF RetryCluster
    <3>4. UNCHANGED environment /\ UNCHANGED history /\ UNCHANGED <<known, snap, main, sickness>>
      BY <2>7 DEF RetryCluster
    <3>5. QED
      BY <2>q, <3>1, <3>2, <3>3, <3>4 DEF TypeOK
  <2>8. ASSUME NEW c \in Clusters, NEW v \in Versions, EditFile(c, v) PROVE TypeOK'
    <3>1. file' \in [Clusters -> Versions] /\ edits' \in 0..MaxEdits
      BY <2>8, BoundsAreNat DEF EditFile, TypeOK
    <3>2. /\ removed' \subseteq Clusters /\ raced' \subseteq Clusters
          /\ rolledBack' \subseteq Clusters
      BY <2>8 DEF EditFile, TypeOK
    <3>3. QED
      BY <2>8, <3>1, <3>2 DEF EditFile, TypeOK, trouble, entries
  <2>9. CASE DirectoryFails \/ DirectoryMended
    <3>1. faults' = faults \/ (faults < MaxFaults /\ faults' = faults + 1)
      BY <2>9 DEF DirectoryFails, DirectoryMended, trouble
    <3>2. faults' \in 0..MaxFaults
      BY <3>1, BoundsAreNat DEF TypeOK
    <3>3. readable' \in BOOLEAN
      BY <2>9 DEF DirectoryFails, DirectoryMended
    <3>4. QED
      BY <2>9, <3>2, <3>3 DEF DirectoryFails, DirectoryMended, TypeOK, edited, history, trouble, entries
  <2>10. ASSUME NEW c \in Clusters, Sicken(c) \/ Heal(c) PROVE TypeOK'
    <3>1. sick' \subseteq Clusters /\ sickness' \in 0..MaxSick
      BY <2>10, BoundsAreNat DEF Sicken, Heal, TypeOK
    <3>2. QED
      BY <2>10, <3>1 DEF Sicken, Heal, TypeOK, environment, edited, history, trouble, entries
  <2>11. ASSUME NEW c \in Clusters, BackoffEnds(c) PROVE TypeOK'
    BY <2>11 DEF BackoffEnds, TypeOK, environment, edited, history, trouble
  <2>12. CASE Stop \/ Cancel
    <3>1. /\ current' \in [Clusters -> Versions] /\ sick' \subseteq Clusters
          /\ main' \in {"running", "stopped", "cancelled"}
      BY <2>12, <2>z DEF Stop, Cancel
    <3>2. orphans' \in [Clusters -> 0..MaxOrphans]
      BY <2>12, BoundsAreNat DEF Stop, Cancel, TypeOK
    <3>3. QED
      BY <2>12, <3>1, <3>2 DEF Stop, Cancel, TypeOK, environment, edited, history, trouble, entries
  <2>13. CASE UNCHANGED vars
    BY <2>13 DEF vars, TypeOK
  <2>14. QED
    BY <2>1, <2>2, <2>3, <2>4, <2>5, <2>6, <2>7, <2>8, <2>9, <2>10, <2>11,
       <2>12, <2>13 DEF Next, Reconcile
<1>3. QED
  BY <1>1, <1>2, PTL DEF Spec

----------------------------------------------------------------------------
\* What happened to a file or a start stays part of the history.
LEMMA HistoryGrows ==
  ASSUME [Next]_vars
  PROVE  /\ removed \subseteq removed' /\ raced \subseteq raced'
         /\ rolledBack \subseteq rolledBack' /\ failed \subseteq failed'
<1> USE DEF edited, history, trouble
<1>1. ASSUME NEW c \in Clusters, NEW before, NEW v,
             StartOK(c, before, v) \/ StartFails(c, before) \/ SkipStart
      PROVE  failed \subseteq failed'
  BY <1>1 DEF StartOK, StartFails, SkipStart
<1>2. ASSUME NEW c \in Clusters, RescanCluster(c) PROVE failed \subseteq failed'
  BY <1>1, <1>2 DEF RescanCluster, RescanRemoved, RescanNew, RescanChanged, RescanSame
<1>3. ASSUME NEW c \in Clusters, EnsureCluster(c) PROVE failed \subseteq failed'
  BY <1>1, <1>3 DEF EnsureCluster
<1>4. ASSUME NEW c \in Clusters, RetryCluster(c) PROVE failed \subseteq failed'
  BY <1>1, <1>4 DEF RetryCluster
<1>5. ASSUME NEW c \in Clusters, BootStart(c) PROVE failed \subseteq failed'
  BY <1>1, <1>5 DEF BootStart
<1>6. ASSUME NEW c \in Clusters,
             BootStart(c) \/ EnsureCluster(c) \/ RescanCluster(c) \/ RetryCluster(c)
      PROVE  UNCHANGED history
  BY <1>6 DEF BootStart, EnsureCluster, RescanCluster, RetryCluster
<1>7. ASSUME NEW c \in Clusters, HealthCheck(c) \/ Sicken(c) \/ Heal(c) \/ BackoffEnds(c)
      PROVE  UNCHANGED <<edited, failed>>
  BY <1>7 DEF HealthCheck, Sicken, Heal, BackoffEnds
<1>8. ASSUME NEW c \in Clusters, NEW v \in Versions, EditFile(c, v)
      PROVE  /\ removed \subseteq removed' /\ raced \subseteq raced'
             /\ rolledBack \subseteq rolledBack' /\ failed' = failed
  BY <1>8 DEF EditFile
<1>9. CASE \/ BootHashes \/ Wake \/ DirectoryFails \/ DirectoryMended \/ Stop \/ Cancel
           \/ UNCHANGED vars
  BY <1>9 DEF BootHashes, Wake, DirectoryFails, DirectoryMended, Stop, Cancel, vars
<1>10. QED
  BY <1>2, <1>3, <1>4, <1>5, <1>6, <1>7, <1>8, <1>9 DEF Next, Reconcile

Booting == pc \in {"boot", "hashes"}

\* What fileHashes knows is a file, also in the snapshot a rescan works on, and
\* until Start has taken its snapshot nothing is known and no file changes: of
\* a cluster whose file was neither removed nor changed in a hurry.
KeptOf(c) ==
  /\ Booting => snap[c] = file[c] /\ known[c] = 0
  /\ known[c] # 0 => file[c] # 0
  /\ pc = "rescan" /\ known[c] # 0 => snap[c] # 0
  /\ pc = "rescan" /\ snap[c] # 0 => file[c] # 0

Kept == \A c \in Clusters \ (removed \cup raced) : KeptOf(c)

\* The clusters somebody has to watch or to retry.
Due(c) ==
  \/ known[c] # 0
  \/ pc = "boot" /\ c \notin todo /\ snap[c] # 0
  \/ pc = "hashes" /\ snap[c] # 0

Covered ==
  main = "running" =>
    \A c \in Clusters \ (removed \cup raced) : Due(c) => current[c] # 0 \/ c \in pending

LEMMA KeptInductive == Spec => []Kept
<1>1. Init => Kept
  BY DEF Init, Kept, KeptOf, Booting
<1>2. TypeOK /\ Kept /\ [Next]_vars => Kept'
  <2> SUFFICES ASSUME TypeOK, Kept, [Next]_vars,
                      NEW d \in Clusters, d \notin removed' \cup raced'
               PROVE  KeptOf(d)'
    BY DEF Kept
  <2>d. KeptOf(d)
    BY HistoryGrows DEF Kept
  <2>t. known \in [Clusters -> Versions] /\ file \in [Clusters -> Versions]
    BY DEF TypeOK
  <2>1. ASSUME NEW c \in Clusters, BootStart(c) PROVE KeptOf(d)'
    <3>1. pc' \in {"boot", "hashes"} /\ UNCHANGED <<file, known, snap>> /\ Booting
      BY <2>1 DEF BootStart, Processed, environment, Booting
    <3>2. QED
      BY <2>d, <3>1 DEF KeptOf, Booting
  <2>2. CASE BootHashes
    <3>1. known' \in {file, known} /\ pc' = "sleep" /\ file' = file /\ Booting
      BY <2>2 DEF BootHashes, environment, Booting
    <3>2. QED
      BY <2>d, <3>1 DEF KeptOf, Booting
  <2>3. CASE Wake
    BY <2>3, <2>d DEF Wake, environment, KeptOf, Booting
  <2>4. ASSUME NEW c \in Clusters, EnsureCluster(c) PROVE KeptOf(d)'
    <3>1. UNCHANGED <<file, known>> /\ ~Booting'
      BY <2>4 DEF EnsureCluster, environment, Booting
    <3>2. pc' = "rescan" => snap' = file
      BY <2>4 DEF EnsureCluster
    <3>3. QED
      BY <2>d, <3>1, <3>2 DEF KeptOf
  <2>5. ASSUME NEW c \in Clusters, RescanCluster(c) PROVE KeptOf(d)'
    <3>1. /\ UNCHANGED <<file, snap>> /\ pc = "rescan"
          /\ pc' \in {"rescan", "health"}
      BY <2>5 DEF RescanCluster, Processed, environment
    <3>2. known' \in {known, [known EXCEPT ![c] = 0], [known EXCEPT ![c] = snap[c]]}
      BY <2>5 DEF RescanCluster, RescanRemoved, RescanNew, RescanChanged, RescanSame
    <3>3. known'[d] # 0 => known[d] # 0 \/ snap[d] # 0
      BY <2>t, <3>2
    <3>4. QED
      BY <2>d, <3>1, <3>3 DEF KeptOf, Booting
  <2>6. ASSUME NEW c \in Clusters, HealthCheck(c) \/ RetryCluster(c) PROVE KeptOf(d)'
    <3>1. UNCHANGED <<file, known, snap>> /\ pc' \in {"health", "retry", "sleep"}
      BY <2>6 DEF HealthCheck, RetryCluster, Processed, environment
    <3>2. QED
      BY <2>d, <3>1 DEF KeptOf, Booting
  <2>7. ASSUME NEW c \in Clusters, NEW v \in Versions, EditFile(c, v) PROVE KeptOf(d)'
    <3>1. UNCHANGED <<known, snap, pc>> /\ file' = [file EXCEPT ![c] = v]
      BY <2>7 DEF EditFile
    <3>2. CASE c # d
      BY <2>d, <2>t, <3>1, <3>2 DEF KeptOf, Booting
    <3>3. CASE c = d
      <4>1. v # 0 /\ ~Booting
        BY <2>7, <3>3 DEF EditFile, Booting
      <4>2. QED
        BY <2>d, <2>t, <3>1, <3>3, <4>1 DEF KeptOf, Booting
    <3>4. QED
      BY <3>2, <3>3
  <2>8. CASE UNCHANGED <<file, known, snap, pc>>
    BY <2>8, <2>d DEF KeptOf, Booting
  <2>9. ASSUME NEW c \in Clusters, Sicken(c) \/ Heal(c) \/ BackoffEnds(c)
        PROVE  UNCHANGED <<file, known, snap, pc>>
    BY <2>9 DEF Sicken, Heal, BackoffEnds, environment
  <2>10. ASSUME DirectoryFails \/ DirectoryMended \/ Stop \/ Cancel
                  \/ UNCHANGED vars
         PROVE  UNCHANGED <<file, known, snap, pc>>
    BY <2>10 DEF DirectoryFails, DirectoryMended, Stop, Cancel, vars, environment
  <2>11. QED
    BY <2>1, <2>2, <2>3, <2>4, <2>5, <2>6, <2>7, <2>8, <2>9, <2>10
    DEF Next, Reconcile
<1>3. QED
  BY <1>1, <1>2, TypeCorrect, PTL DEF Spec

\* A start leaves its cluster with a watcher, if it succeeds, and never touches
\* the watcher of another cluster.
LEMMA StartEffect ==
  ASSUME TypeOK, NEW c \in Clusters, NEW before, NEW v
  PROVE  /\ StartOK(c, before, v) => /\ current'[c] = v
                                     /\ \A d \in Clusters \ {c} : current'[d] = current[d]
         /\ StartFails(c, before) => /\ current'[c] = before
                                     /\ \A d \in Clusters \ {c} : current'[d] = current[d]
BY DEF TypeOK, StartOK, StartFails

LEMMA CoveredInductive == Spec => []Covered
<1>1. Init => Covered
  BY DEF Init, Covered, Due
<1>2. TypeOK /\ Kept /\ Covered /\ [Next]_vars => Covered'
  <2> SUFFICES ASSUME TypeOK, Kept, Covered, [Next]_vars, main' = "running",
                      NEW d \in Clusters, d \notin removed' \cup raced', Due(d)'
               PROVE  current'[d] # 0 \/ d \in pending'
    BY DEF Covered
  <2> DEFINE Safe == current'[d] # 0 \/ d \in pending'
  <2>r. main = "running"
    <3>1. CASE Stop \/ Cancel
      BY <3>1 DEF Stop, Cancel
    <3>2. CASE Reconcile
      BY <3>2 DEF Reconcile, BootStart, BootHashes, Wake, EnsureCluster,
           RescanCluster, HealthCheck, RetryCluster
    <3>3. ASSUME NEW c \in Clusters,
                 \/ \E v \in Versions : EditFile(c, v)
                 \/ Sicken(c) \/ Heal(c) \/ BackoffEnds(c)
          PROVE  main' = main
      BY <3>3 DEF EditFile, Sicken, Heal, BackoffEnds
    <3>4. CASE DirectoryFails \/ DirectoryMended \/ UNCHANGED vars
      BY <3>4 DEF DirectoryFails, DirectoryMended, vars
    <3>5. QED
      BY <3>1, <3>2, <3>3, <3>4 DEF Next
  <2>d. d \notin removed \cup raced /\ KeptOf(d)
    BY HistoryGrows DEF Kept
  <2>c. Due(d) => current[d] # 0 \/ d \in pending
    BY <2>d, <2>r DEF Covered
  <2>t. /\ current \in [Clusters -> Versions] /\ known \in [Clusters -> Versions]
        /\ pending \subseteq Clusters
    BY DEF TypeOK
  <2>o. ASSUME NEW c \in Clusters, c # d,
               current'[d] = current[d], d \in pending => d \in pending', Due(d)
        PROVE  Safe
    BY <2>c, <2>o
  <2>s. ASSUME NEW c \in Clusters, NEW v, Queue(c, v)
        PROVE  c \in pending' /\ \A x \in pending : x \in pending'
    BY <2>s DEF Queue
  <2>u. ASSUME NEW c \in Clusters, Unqueue(c)
        PROVE  \A x \in pending \ {c} : x \in pending'
    BY <2>u DEF Unqueue
  <2>1. ASSUME NEW c \in Clusters, BootStart(c) PROVE Safe
    <3>1. UNCHANGED <<known, snap>> /\ pc = "boot" /\ c \in todo
      BY <2>1 DEF BootStart
    <3>2. CASE d = c
      <4>1. snap[d] # 0
        BY <2>d, <3>1 DEF Due, KeptOf, Booting
      <4>2. CASE StartOK(c, 0, snap[c])
        BY <3>2, <4>1, <4>2, StartEffect
      <4>3. CASE Queue(c, snap[c])
        BY <2>s, <3>2, <4>3
      <4>4. QED
        BY <2>1, <4>2, <4>3 DEF BootStart
    <3>3. CASE d # c
      <4>1. Due(d)
        BY <2>1, <3>1, <3>3 DEF BootStart, Processed, Due
      <4>2. current'[d] = current[d]
        BY <2>1, <3>3, StartEffect DEF BootStart
      <4>3. d \in pending => d \in pending'
        BY <2>1, <2>s DEF BootStart, entries
      <4>4. QED
        BY <2>o, <3>3, <4>1, <4>2, <4>3
    <3>4. QED
      BY <3>2, <3>3
  <2>2. CASE BootHashes
    <3>1. UNCHANGED <<current, pending>> /\ pc = "hashes" /\ pc' = "sleep"
      BY <2>2 DEF BootHashes, entries
    <3>2. known'[d] # 0
      BY <3>1 DEF Due
    <3>3. Due(d)
      BY <2>2, <2>d, <3>1, <3>2 DEF BootHashes, Due, KeptOf, Booting
    <3>4. QED
      BY <2>c, <3>1, <3>3
  <2>3. CASE Wake
    BY <2>3, <2>c DEF Wake, Due, entries
  <2>4. ASSUME NEW c \in Clusters, EnsureCluster(c) PROVE Safe
    <3>1. Due(d)
      BY <2>4 DEF EnsureCluster, Due
    <3>2. CASE SkipStart /\ UNCHANGED entries
      BY <2>c, <3>1, <3>2 DEF SkipStart, entries
    <3>3. CASE /\ file[c] # 0 /\ StartOK(c, 0, file[c]) /\ UNCHANGED entries
      BY <2>c, <3>1, <3>3, StartEffect DEF entries
    <3>4. CASE StartFails(c, 0) /\ Queue(c, file[c])
      <4>1. c \in pending' /\ \A x \in pending : x \in pending'
        BY <2>s, <3>4
      <4>2. CASE d = c
        BY <4>1, <4>2
      <4>3. CASE d # c
        BY <2>c, <3>1, <3>4, <4>1, <4>3, StartEffect
      <4>4. QED
        BY <4>2, <4>3
    <3>5. QED
      BY <2>4, <3>2, <3>3, <3>4 DEF EnsureCluster
  <2>5. ASSUME NEW c \in Clusters, RescanCluster(c) PROVE Safe
    <3>1. /\ pc = "rescan" /\ pc' \in {"rescan", "health"}
          /\ known'[d] # 0
      BY <2>5 DEF RescanCluster, Processed, Due
    <3>2. CASE d = c
      <4>1. CASE RescanRemoved(c)
        <5>1. known[c] = 0
          BY <2>d, <3>1, <3>2, <4>1 DEF RescanRemoved, KeptOf
        <5>2. known'[c] = 0
          BY <2>t, <4>1, <5>1 DEF RescanRemoved
        <5>3. QED
          BY <3>1, <3>2, <5>2
      <4>2. CASE RescanNew(c)
        <5>1. CASE c \in pending /\ UNCHANGED <<pending, due>>
          BY <3>2, <5>1
        <5>2. CASE StartOK(c, current[c], snap[c])
          BY <3>2, <4>2, <5>2, StartEffect DEF RescanNew
        <5>3. CASE UNCHANGED known
          BY <3>1, <3>2, <4>2, <5>3 DEF RescanNew
        <5>4. QED
          BY <4>2, <5>1, <5>2, <5>3 DEF RescanNew
      <4>3. CASE RescanChanged(c)
        <5>1. CASE StartOK(c, 0, snap[c])
          BY <3>2, <4>3, <5>1, StartEffect DEF RescanChanged
        <5>2. CASE Queue(c, snap[c])
          BY <2>s, <3>2, <5>2
        <5>3. QED
          BY <4>3, <5>1, <5>2 DEF RescanChanged
      <4>4. CASE RescanSame(c)
        <5>1. UNCHANGED <<known, current, pending>>
          BY <4>4 DEF RescanSame, SkipStart, entries
        <5>2. QED
          BY <2>c, <3>1, <5>1 DEF Due
      <4>5. QED
        BY <2>5, <4>1, <4>2, <4>3, <4>4 DEF RescanCluster
    <3>3. CASE d # c
      <4>1. /\ known'[d] = known[d] /\ current'[d] = current[d]
            /\ d \in pending => d \in pending'
        <5>1. CASE RescanRemoved(c)
          BY <2>t, <2>u, <3>3, <5>1 DEF RescanRemoved
        <5>2. CASE RescanNew(c)
          <6>1. known'[d] = known[d]
            BY <2>t, <3>3, <5>2 DEF RescanNew
          <6>2. current'[d] = current[d]
            BY <3>3, <5>2, StartEffect DEF RescanNew, SkipStart
          <6>3. d \in pending => d \in pending'
            BY <2>s, <5>2 DEF RescanNew, entries
          <6>4. QED
            BY <6>1, <6>2, <6>3
        <5>3. CASE RescanChanged(c)
          <6>1. known'[d] = known[d]
            BY <2>t, <3>3, <5>3 DEF RescanChanged
          <6>2. current'[d] = current[d]
            BY <3>3, <5>3, StartEffect DEF RescanChanged
          <6>3. d \in pending => d \in pending'
            BY <2>s, <2>u, <3>3, <5>3 DEF RescanChanged
          <6>4. QED
            BY <6>1, <6>2, <6>3
        <5>4. CASE RescanSame(c)
          BY <5>4 DEF RescanSame, SkipStart, entries
        <5>5. QED
          BY <2>5, <5>1, <5>2, <5>3, <5>4 DEF RescanCluster
      <4>2. QED
        BY <2>o, <3>1, <3>3, <4>1 DEF Due
    <3>4. QED
      BY <3>2, <3>3
  <2>6. ASSUME NEW c \in Clusters, HealthCheck(c) PROVE Safe
    <3>1. Due(d)
      BY <2>6 DEF HealthCheck, Processed, Due
    <3>2. \A x \in pending : x \in pending'
      BY <2>6, <2>s DEF HealthCheck, entries
    <3>3. CASE current'[d] = current[d]
      BY <2>c, <3>1, <3>2, <3>3
    <3>4. CASE current'[d] # current[d]
      <4>1. d = c /\ current' = [current EXCEPT ![c] = 0]
        BY <2>6, <2>t, <3>4 DEF HealthCheck
      <4>2. c \in pending \/ Queue(c, 0)
        BY <2>6, <3>4 DEF HealthCheck
      <4>3. QED
        BY <2>s, <3>2, <4>1, <4>2
    <3>5. QED
      BY <3>3, <3>4
  <2>7. ASSUME NEW c \in Clusters, RetryCluster(c) PROVE Safe
    <3>1. Due(d)
      BY <2>7 DEF RetryCluster, Processed, Due
    <3>2. CASE /\ RetryVersion(c) # 0 /\ StartOK(c, current[c], RetryVersion(c))
               /\ Unqueue(c)
      BY <2>c, <2>u, <3>1, <3>2, StartEffect
    <3>3. CASE StartFails(c, current[c]) /\ UNCHANGED <<pending, retryConf>>
      BY <2>c, <3>1, <3>3, StartEffect
    <3>4. CASE SkipStart /\ UNCHANGED <<pending, retryConf>>
      BY <2>c, <3>1, <3>4 DEF SkipStart
    <3>5. QED
      BY <2>7, <3>2, <3>3, <3>4 DEF RetryCluster
  <2>8. CASE UNCHANGED <<current, known, pending, snap, pc, todo>>
    BY <2>c, <2>8 DEF Due
  <2>9. ASSUME NEW c \in Clusters,
               \/ \E v \in Versions : EditFile(c, v)
               \/ Sicken(c) \/ Heal(c) \/ BackoffEnds(c)
        PROVE  UNCHANGED <<current, known, pending, snap, pc, todo>>
    BY <2>9 DEF EditFile, Sicken, Heal, BackoffEnds, entries
  <2>10. ASSUME DirectoryFails \/ DirectoryMended \/ UNCHANGED vars
         PROVE  UNCHANGED <<current, known, pending, snap, pc, todo>>
    BY <2>10 DEF DirectoryFails, DirectoryMended, vars, entries
  <2>11. ~Stop /\ ~Cancel
    BY DEF Stop, Cancel
  <2>12. QED
    BY <2>1, <2>2, <2>3, <2>4, <2>5, <2>6, <2>7, <2>8, <2>9, <2>10, <2>11
    DEF Next, Reconcile
<1>3. QED
  BY <1>1, <1>2, TypeCorrect, KeptInductive, PTL DEF Spec

\* Whatever fails, and whatever is edited elsewhere, a file fileHashes knows is
\* watched or queued for retry, so that a rescan may skip it, unless it was
\* removed meanwhile or changed while Start ran.
THEOREM KnownIsWatched == Spec => []NotForgotten
<1>1. Covered => NotForgotten
  BY DEF Covered, Due, NotForgotten
<1>2. QED
  BY <1>1, CoveredInductive, PTL

----------------------------------------------------------------------------
\* Of a cluster whose file only ever got newer contents: what is known, watched or
\* queued is no newer than the file, and what is watched, or will be by a retry
\* that has to do without the directory, is no older than what is known.
VersionedOf(c) ==
  /\ snap[c] <= file[c] /\ known[c] <= file[c]
  /\ current[c] <= file[c] /\ retryConf[c] <= file[c]
  /\ Booting => known[c] = 0 /\ snap[c] = file[c]
  /\ Booting /\ current[c] # 0 => current[c] = file[c]
  /\ Booting /\ c \in pending => retryConf[c] = file[c]
  /\ current[c] # 0 /\ c \notin pending => known[c] <= current[c]
  /\ c \in pending /\ retryConf[c] # 0 => known[c] <= retryConf[c]

Versioned == \A c \in Clusters \ (raced \cup rolledBack) : VersionedOf(c)

\* What a step does to the map entries of a cluster other than its own.
LEMMA OtherEntries ==
  ASSUME TypeOK, NEW c \in Clusters, NEW d \in Clusters, c # d, NEW v,
         Queue(c, v) \/ Unqueue(c) \/ UNCHANGED entries
  PROVE  (d \in pending' <=> d \in pending) /\ retryConf'[d] = retryConf[d]
BY DEF TypeOK, Queue, Unqueue, entries

LEMMA VersionedInductive == Spec => []Versioned
<1>1. Init => Versioned
  <2> SUFFICES ASSUME Init, NEW c \in Clusters PROVE VersionedOf(c)
    BY DEF Versioned
  <2>1. file[c] \in 0..1
    BY DEF Init
  <2>2. QED
    BY <2>1 DEF Init, VersionedOf, Booting
<1>2. TypeOK /\ Versioned /\ [Next]_vars => Versioned'
  <2> SUFFICES ASSUME TypeOK, Versioned, [Next]_vars,
                      NEW d \in Clusters, d \notin raced' \cup rolledBack'
               PROVE  VersionedOf(d)'
    BY DEF Versioned
  <2>d. VersionedOf(d)
    BY HistoryGrows DEF Versioned
  <2>t. /\ current \in [Clusters -> Versions] /\ known \in [Clusters -> Versions]
        /\ file \in [Clusters -> Versions] /\ snap \in [Clusters -> Versions]
        /\ retryConf \in [Clusters -> Versions]
        /\ pending \subseteq Clusters /\ due \subseteq pending
    BY DEF TypeOK
  <2>n. /\ current[d] \in Nat /\ known[d] \in Nat /\ file[d] \in Nat /\ snap[d] \in Nat
        /\ retryConf[d] \in Nat
    BY <2>t, BoundsAreNat DEF Versions
  \* A step after Start has ended, that leaves the file of d alone.
  <2>q. ASSUME ~Booting', file'[d] = file[d], snap'[d] \in {snap[d], file[d]},
               known'[d] <= file[d], current'[d] <= file[d], retryConf'[d] <= file[d],
               current'[d] # 0 /\ d \notin pending' => known'[d] <= current'[d],
               d \in pending' /\ retryConf'[d] # 0 => known'[d] <= retryConf'[d]
        PROVE  VersionedOf(d)'
    BY <2>q, <2>d, <2>n DEF VersionedOf, Booting
  \* A step of another cluster.
  <2>k. ASSUME ~Booting', file'[d] = file[d], snap'[d] \in {snap[d], file[d]},
               known'[d] = known[d], current'[d] = current[d],
               retryConf'[d] = retryConf[d], d \in pending' <=> d \in pending
        PROVE  VersionedOf(d)'
    BY <2>k, <2>d, <2>q DEF VersionedOf
  <2>1. ASSUME NEW c \in Clusters, BootStart(c) PROVE VersionedOf(d)'
    <3>1. UNCHANGED <<file, snap, known>> /\ Booting /\ Booting'
      BY <2>1 DEF BootStart, Processed, Booting, environment
    <3>2. CASE c # d
      <4>1. current'[d] = current[d]
        BY <2>1, <3>2, StartEffect DEF BootStart
      <4>2. (d \in pending' <=> d \in pending) /\ retryConf'[d] = retryConf[d]
        BY <2>1, <3>2, OtherEntries DEF BootStart
      <4>3. QED
        BY <2>d, <3>1, <4>1, <4>2 DEF VersionedOf
    <3>3. CASE c = d
      <4>1. CASE StartOK(d, 0, snap[d]) /\ UNCHANGED entries
        <5>1. current'[d] = snap[d] /\ UNCHANGED <<pending, retryConf>>
          BY <4>1, StartEffect DEF entries
        <5>2. QED
          BY <2>d, <2>n, <3>1, <5>1 DEF VersionedOf
      <4>2. CASE StartFails(d, 0) /\ Queue(d, snap[d])
        <5>1. current'[d] = 0 /\ d \in pending' /\ retryConf'[d] = snap[d]
          BY <2>t, <4>2, StartEffect DEF Queue
        <5>2. QED
          BY <2>d, <2>n, <3>1, <5>1 DEF VersionedOf
      <4>3. QED
        BY <2>1, <3>3, <4>1, <4>2 DEF BootStart
    <3>4. QED
      BY <3>2, <3>3
  <2>2. CASE BootHashes
    <3>1. /\ known' \in {file, known} /\ UNCHANGED <<file, snap, current, pending, retryConf>>
          /\ Booting /\ ~Booting'
      BY <2>2 DEF BootHashes, entries, environment, Booting
    <3>2. QED
      BY <2>q, <2>d, <2>n, <3>1 DEF VersionedOf
  <2>3. CASE Wake
    <3>1. UNCHANGED <<file, snap, known, current, pending, retryConf>> /\ ~Booting'
      BY <2>3 DEF Wake, entries, environment, Booting
    <3>2. QED
      BY <2>k, <3>1
  <2>4. ASSUME NEW c \in Clusters, EnsureCluster(c) PROVE VersionedOf(d)'
    <3>1. UNCHANGED <<file, known>> /\ snap' \in {snap, file} /\ ~Booting'
      BY <2>4 DEF EnsureCluster, environment, Booting
    <3>2. snap'[d] \in {snap[d], file[d]}
      BY <3>1
    <3>3. CASE SkipStart /\ UNCHANGED entries
      BY <2>k, <3>1, <3>2, <3>3 DEF SkipStart, entries
    <3>4. CASE StartOK(c, 0, file[c]) /\ UNCHANGED entries
      <4>1. CASE c = d
        <5>1. current'[d] = file[d] /\ UNCHANGED <<pending, retryConf>>
          BY <3>4, <4>1, StartEffect DEF entries
        <5>2. QED
          BY <2>q, <2>d, <2>n, <3>1, <3>2, <5>1 DEF VersionedOf
      <4>2. CASE c # d
        BY <2>k, <3>1, <3>2, <3>4, <4>2, StartEffect, OtherEntries
      <4>3. QED
        BY <4>1, <4>2
    <3>5. CASE StartFails(c, 0) /\ Queue(c, file[c])
      <4>1. CASE c = d
        <5>1. current'[d] = 0 /\ d \in pending' /\ retryConf'[d] = file[d]
          BY <2>t, <3>5, <4>1, StartEffect DEF Queue
        <5>2. QED
          BY <2>q, <2>d, <2>n, <3>1, <3>2, <5>1 DEF VersionedOf
      <4>2. CASE c # d
        BY <2>k, <3>1, <3>2, <3>5, <4>2, StartEffect, OtherEntries
      <4>3. QED
        BY <4>1, <4>2
    <3>6. QED
      BY <2>4, <3>3, <3>4, <3>5 DEF EnsureCluster
  <2>5. ASSUME NEW c \in Clusters, RescanCluster(c) PROVE VersionedOf(d)'
    <3>1. UNCHANGED <<file, snap>> /\ ~Booting'
      BY <2>5 DEF RescanCluster, Processed, environment, Booting
    <3>2. CASE c # d
      <4>1. CASE RescanRemoved(c)
        BY <2>k, <2>t, <3>1, <3>2, <4>1, OtherEntries DEF RescanRemoved
      <4>2. CASE RescanNew(c)
        <5>1. known'[d] = known[d]
          BY <2>t, <3>2, <4>2 DEF RescanNew
        <5>2. current'[d] = current[d]
          BY <3>2, <4>2, StartEffect DEF RescanNew, SkipStart
        <5>3. (d \in pending' <=> d \in pending) /\ retryConf'[d] = retryConf[d]
          BY <2>t, <3>2, <4>2, OtherEntries DEF RescanNew
        <5>4. QED
          BY <2>k, <3>1, <5>1, <5>2, <5>3
      <4>3. CASE RescanChanged(c)
        <5>1. known'[d] = known[d]
          BY <2>t, <3>2, <4>3 DEF RescanChanged
        <5>2. current'[d] = current[d]
          BY <3>2, <4>3, StartEffect DEF RescanChanged
        <5>3. (d \in pending' <=> d \in pending) /\ retryConf'[d] = retryConf[d]
          BY <3>2, <4>3, OtherEntries DEF RescanChanged
        <5>4. QED
          BY <2>k, <3>1, <5>1, <5>2, <5>3
      <4>4. CASE RescanSame(c)
        BY <2>k, <3>1, <4>4 DEF RescanSame, SkipStart, entries
      <4>5. QED
        BY <2>5, <4>1, <4>2, <4>3, <4>4 DEF RescanCluster
    <3>3. CASE c = d
      \* Whatever the start does, cluster and entry are left with the snapshot's.
      <4>f. ASSUME NEW before, StartFails(d, before), Queue(d, snap[d]),
                   known'[d] = 0, before \in {0, current[d]}
            PROVE  VersionedOf(d)'
        <5>1. current'[d] = before /\ d \in pending' /\ retryConf'[d] = snap[d]
          BY <2>t, <4>f, StartEffect DEF Queue
        <5>2. QED
          BY <2>q, <2>d, <2>n, <3>1, <4>f, <5>1 DEF VersionedOf
      <4>g. ASSUME NEW before, StartOK(d, before, snap[d]), known'[d] = snap[d],
                   d \notin pending', UNCHANGED retryConf
            PROVE  VersionedOf(d)'
        <5>1. current'[d] = snap[d]
          BY <4>g, StartEffect
        <5>2. QED
          BY <2>q, <2>d, <2>n, <3>1, <4>g, <5>1 DEF VersionedOf
      <4>1. CASE RescanRemoved(c)
        <5>1. /\ current'[d] = 0 /\ known'[d] \in {0, known[d]}
              /\ d \notin pending' /\ retryConf' = retryConf
          BY <2>t, <3>3, <4>1 DEF RescanRemoved, Unqueue
        <5>2. QED
          BY <2>q, <2>d, <2>n, <3>1, <5>1 DEF VersionedOf
      <4>2. CASE RescanNew(c)
        <5>1. CASE /\ c \in pending /\ retryConf' = [retryConf EXCEPT ![c] = snap[c]]
                   /\ known' = [known EXCEPT ![c] = snap[c]]
                   /\ SkipStart /\ UNCHANGED <<pending, due>>
          <6>1. /\ retryConf'[d] = snap[d] /\ known'[d] = snap[d] /\ d \in pending'
                /\ current'[d] = current[d]
            BY <2>t, <3>3, <5>1 DEF SkipStart
          <6>2. QED
            BY <2>q, <2>d, <2>n, <3>1, <6>1 DEF VersionedOf
        <5>2. CASE /\ c \notin pending /\ StartOK(c, current[c], snap[c])
                   /\ known' = [known EXCEPT ![c] = snap[c]] /\ UNCHANGED entries
          <6>1. known'[d] = snap[d] /\ d \notin pending' /\ UNCHANGED retryConf
            BY <2>t, <3>3, <5>2 DEF entries
          <6>2. QED
            BY <4>g, <3>3, <5>2, <6>1
        <5>3. CASE StartFails(c, current[c]) /\ Queue(c, snap[c]) /\ UNCHANGED known
          <6>1. known'[d] = 0
            BY <3>3, <4>2, <5>3 DEF RescanNew
          <6>2. QED
            BY <4>f, <3>3, <5>3, <6>1
        <5>4. QED
          BY <4>2, <5>1, <5>2, <5>3 DEF RescanNew
      <4>3. CASE RescanChanged(c)
        <5>1. CASE /\ StartOK(c, 0, snap[c]) /\ Unqueue(c)
                   /\ known' = [known EXCEPT ![c] = snap[c]]
          <6>1. known'[d] = snap[d] /\ d \notin pending' /\ UNCHANGED retryConf
            BY <2>t, <3>3, <5>1 DEF Unqueue
          <6>2. QED
            BY <4>g, <3>3, <5>1, <6>1
        <5>2. CASE /\ StartFails(c, 0) /\ Queue(c, snap[c])
                   /\ known' = [known EXCEPT ![c] = 0]
          <6>1. known'[d] = 0
            BY <2>t, <3>3, <5>2
          <6>2. QED
            BY <4>f, <3>3, <5>2, <6>1
        <5>3. QED
          BY <4>3, <5>1, <5>2 DEF RescanChanged
      <4>4. CASE RescanSame(c)
        BY <2>k, <3>1, <4>4 DEF RescanSame, SkipStart, entries
      <4>5. QED
        BY <2>5, <4>1, <4>2, <4>3, <4>4 DEF RescanCluster
    <3>4. QED
      BY <3>2, <3>3
  <2>6. ASSUME NEW c \in Clusters, HealthCheck(c) PROVE VersionedOf(d)'
    <3>1. UNCHANGED <<file, snap, known>> /\ ~Booting'
      BY <2>6 DEF HealthCheck, Processed, environment, Booting
    <3>2. CASE UNCHANGED <<current, sick, entries>>
      BY <2>k, <3>1, <3>2 DEF entries
    <3>3. CASE /\ current' = [current EXCEPT ![c] = 0]
               /\ IF c \in pending THEN UNCHANGED entries ELSE Queue(c, 0)
      <4>1. CASE c = d
        <5>1. current'[d] = 0 /\ retryConf'[d] \in {0, retryConf[d]}
          BY <2>t, <3>3, <4>1 DEF Queue, entries
        <5>2. \/ d \in pending /\ retryConf'[d] = retryConf[d]
              \/ retryConf'[d] = 0
          BY <2>t, <3>3, <4>1 DEF Queue, entries
        <5>3. QED
          BY <2>q, <2>d, <2>n, <3>1, <5>1, <5>2 DEF VersionedOf
      <4>2. CASE c # d
        BY <2>k, <2>t, <3>1, <3>3, <4>2, OtherEntries
      <4>3. QED
        BY <4>1, <4>2
    <3>4. QED
      BY <2>6, <3>2, <3>3 DEF HealthCheck
  <2>7. ASSUME NEW c \in Clusters, RetryCluster(c) PROVE VersionedOf(d)'
    <3>1. UNCHANGED <<file, snap, known>> /\ ~Booting'
      BY <2>7 DEF RetryCluster, Processed, environment, Booting
    <3>2. CASE SkipStart /\ UNCHANGED <<pending, retryConf>>
      BY <2>k, <3>1, <3>2 DEF SkipStart
    <3>3. CASE StartFails(c, current[c]) /\ UNCHANGED <<pending, retryConf>>
      <4>1. current'[d] = current[d]
        BY <3>3, StartEffect
      <4>2. QED
        BY <2>k, <3>1, <3>3, <4>1
    <3>4. CASE /\ c \in due /\ RetryVersion(c) # 0
               /\ StartOK(c, current[c], RetryVersion(c)) /\ Unqueue(c)
      <4>1. CASE c = d
        <5>1. current'[d] = RetryVersion(d) /\ UNCHANGED retryConf /\ d \notin pending'
          BY <3>4, <4>1, StartEffect DEF Unqueue
        <5>2. \/ RetryVersion(d) = file[d]
              \/ RetryVersion(d) = retryConf[d] /\ retryConf[d] # 0
          BY <3>4, <4>1 DEF RetryVersion
        <5>3. d \in pending
          BY <2>t, <3>4, <4>1
        <5>4. QED
          BY <2>q, <2>d, <2>n, <3>1, <5>1, <5>2, <5>3 DEF VersionedOf
      <4>2. CASE c # d
        BY <2>k, <3>1, <3>4, <4>2, StartEffect, OtherEntries
      <4>3. QED
        BY <4>1, <4>2
    <3>5. QED
      BY <2>7, <3>2, <3>3, <3>4 DEF RetryCluster
  <2>8. ASSUME NEW c \in Clusters, NEW v \in Versions, EditFile(c, v) PROVE VersionedOf(d)'
    <3>1. /\ UNCHANGED <<known, snap, pc, current, pending, retryConf>>
          /\ file' = [file EXCEPT ![c] = v]
      BY <2>8 DEF EditFile, entries
    <3>2. CASE c # d
      BY <2>d, <2>t, <3>1, <3>2 DEF VersionedOf, Booting
    <3>3. CASE c = d
      <4>1. ~Booting /\ v \in Nat /\ ~(v < file[d]) /\ file'[d] = v
        BY <2>8, <2>t, <3>1, <3>3, BoundsAreNat DEF EditFile, Booting, Versions
      <4>2. QED
        BY <2>d, <2>n, <3>1, <4>1 DEF VersionedOf, Booting
    <3>4. QED
      BY <3>2, <3>3
  <2>9. CASE Stop \/ Cancel
    <3>1. /\ UNCHANGED <<file, known, snap, pc, pending, retryConf>>
          /\ current' = [c \in Clusters |-> 0]
      BY <2>9 DEF Stop, Cancel, entries, environment
    <3>2. current'[d] = 0
      BY <3>1
    <3>3. QED
      BY <2>d, <2>n, <3>1, <3>2 DEF VersionedOf, Booting
  <2>10. CASE UNCHANGED <<file, known, snap, pc, current, pending, retryConf>>
    BY <2>d, <2>10 DEF VersionedOf, Booting
  <2>11. ASSUME NEW c \in Clusters, Sicken(c) \/ Heal(c) \/ BackoffEnds(c)
         PROVE  UNCHANGED <<file, known, snap, pc, current, pending, retryConf>>
    BY <2>11 DEF Sicken, Heal, BackoffEnds, entries, environment
  <2>12. ASSUME DirectoryFails \/ DirectoryMended \/ UNCHANGED vars
         PROVE  UNCHANGED <<file, known, snap, pc, current, pending, retryConf>>
    BY <2>12 DEF DirectoryFails, DirectoryMended, vars, entries
  <2>13. QED
    BY <2>1, <2>2, <2>3, <2>4, <2>5, <2>6, <2>7, <2>8, <2>9, <2>10, <2>11, <2>12
    DEF Next, Reconcile
<1>3. QED
  BY <1>1, <1>2, TypeCorrect, PTL DEF Spec

\* However often starts fail, informers turn unhealthy, the directory cannot be
\* read and files change: where fileHashes agrees with the directory, so does the
\* watcher, be it started by Start, a rescan, a retry or the watchlist.
THEOREM SkipsArePermitted == Spec => []SkipsAreRight
<1>1. TypeOK /\ Versioned => SkipsAreRight
  <2> SUFFICES ASSUME TypeOK, Versioned,
                      NEW c \in Clusters, c \notin raced \cup rolledBack,
                      current[c] # 0, c \notin pending, known[c] = file[c]
               PROVE  current[c] = file[c]
    BY DEF SkipsAreRight
  <2>1. current[c] \in Nat /\ file[c] \in Nat
    BY BoundsAreNat DEF TypeOK, Versions
  <2>2. known[c] <= current[c] /\ current[c] <= file[c]
    BY DEF Versioned, VersionedOf
  <2>3. QED
    BY <2>1, <2>2
<1>2. QED
  BY <1>1, VersionedInductive, TypeCorrect, PTL

----------------------------------------------------------------------------
\* A cluster that is no watchlist cluster, had no failing start and a quiet
\* boot: if it has a watcher, fileHashes knows it (so that no rescan takes its
\* file for a new one), and if it waits for a retry, it is known and has no
\* watcher (so that the retry starts no second one).
Plain == Clusters \ (Watchlist \cup raced \cup failed)

OwnedOf(c) ==
  /\ orphans[c] = 0
  /\ Booting => snap[c] = file[c] /\ c \notin pending
  /\ Booting /\ current[c] # 0 => snap[c] # 0
  /\ ~Booting /\ current[c] # 0 => known[c] # 0
  /\ c \in pending => known[c] # 0 /\ current[c] = 0
  /\ pc = "boot" /\ c \in todo => snap[c] # 0

Owned == ~blind => \A c \in Plain : OwnedOf(c)

\* What a start does: to its own cluster an orphan, if it fails or a watcher is in
\* place, and nothing to another cluster.
LEMMA StartOrphans ==
  ASSUME TypeOK, NEW c \in Clusters, NEW before, NEW v,
         StartOK(c, before, v) \/ StartFails(c, before)
  PROVE  /\ StartOK(c, before, v) /\ before = 0 => orphans'[c] = orphans[c]
         /\ StartFails(c, before) => c \in failed'
         /\ \A d \in Clusters \ {c} : orphans'[d] = orphans[d] /\ current'[d] = current[d]
BY BoundsAreNat DEF TypeOK, StartOK, StartFails

\* While Start runs, it has not yet tried to take its snapshot.
LEMMA BootSees == Spec => [](Booting => ~blind)
<1> DEFINE Sees == Booting => ~blind
<1>1. Init => Sees
  BY DEF Init
<1>2. Sees /\ [Next]_vars => Sees'
  <2> SUFFICES ASSUME Sees, [Next]_vars, Booting' PROVE ~blind'
    OBVIOUS
  <2> USE DEF history, Booting
  <2>1. ASSUME NEW c \in Clusters, BootStart(c) PROVE ~blind'
    BY <2>1 DEF BootStart
  <2>2. ASSUME NEW c \in Clusters,
               EnsureCluster(c) \/ RescanCluster(c) \/ HealthCheck(c) \/ RetryCluster(c)
        PROVE  ~Booting'
    BY <2>2 DEF EnsureCluster, RescanCluster, HealthCheck, RetryCluster, Processed
  <2>3. ASSUME BootHashes \/ Wake PROVE ~Booting'
    BY <2>3 DEF BootHashes, Wake
  <2>4. ASSUME NEW c \in Clusters,
               \/ \E v \in Versions : EditFile(c, v)
               \/ Sicken(c) \/ Heal(c) \/ BackoffEnds(c)
        PROVE  UNCHANGED <<pc, blind>>
    BY <2>4 DEF EditFile, Sicken, Heal, BackoffEnds
  <2>5. ASSUME DirectoryFails \/ DirectoryMended \/ Stop \/ Cancel \/ UNCHANGED vars
        PROVE  UNCHANGED <<pc, blind>>
    BY <2>5 DEF DirectoryFails, DirectoryMended, Stop, Cancel, vars
  <2>6. QED
    BY <2>1, <2>2, <2>3, <2>4, <2>5 DEF Next, Reconcile
<1>3. QED
  BY <1>1, <1>2, PTL DEF Spec

LEMMA OwnedInductive == Spec => []Owned
<1>1. Init => Owned
  BY DEF Init, Owned, OwnedOf, Plain, Booting
<1>2. TypeOK /\ (Booting => ~blind) /\ Owned /\ [Next]_vars => Owned'
  <2> SUFFICES ASSUME TypeOK, Booting => ~blind, Owned, [Next]_vars, ~blind',
                      NEW d \in Plain'
               PROVE  OwnedOf(d)'
    BY DEF Owned
  <2>t. /\ current \in [Clusters -> Versions] /\ known \in [Clusters -> Versions]
        /\ file \in [Clusters -> Versions] /\ orphans \in [Clusters -> 0..MaxOrphans]
        /\ pending \subseteq Clusters /\ due \subseteq pending
    BY DEF TypeOK
  <2>h. /\ d \in Plain /\ d \in Clusters /\ d \notin Watchlist
        /\ d \notin failed' /\ d \notin raced'
    BY HistoryGrows DEF Plain
  <2>b. ASSUME ~blind PROVE OwnedOf(d)
    BY <2>b, <2>h DEF Owned
  \* A step after Start has ended, by what it leaves d with.
  <2>q. ASSUME ~Booting', orphans'[d] = 0, current'[d] # 0 => known'[d] # 0,
               d \in pending' => known'[d] # 0 /\ current'[d] = 0
        PROVE  OwnedOf(d)'
    BY <2>q DEF OwnedOf, Booting
  <2>k. ASSUME ~Booting', OwnedOf(d), ~Booting,
               orphans'[d] = orphans[d], current'[d] = current[d],
               known'[d] = known[d], d \in pending' <=> d \in pending
        PROVE  OwnedOf(d)'
    BY <2>k, <2>q DEF OwnedOf
  <2>s. ASSUME NEW c \in Clusters, c # d, NEW v,
               Queue(c, v) \/ Unqueue(c) \/ UNCHANGED entries
        PROVE  d \in pending' <=> d \in pending
    BY <2>s DEF Queue, Unqueue, entries
  <2>f. ASSUME NEW c \in Clusters, NEW before, StartFails(c, before) PROVE c # d
    BY <2>f, <2>h DEF StartFails
  <2>1. ASSUME NEW c \in Clusters, BootStart(c) PROVE OwnedOf(d)'
    <3>1. /\ UNCHANGED <<file, snap, known, blind>> /\ Booting /\ pc = "boot"
          /\ Booting' /\ (pc' = "boot" => todo' \subseteq todo) /\ c \in todo
      BY <2>1 DEF BootStart, Processed, Booting, environment, history
    <3>2. OwnedOf(d)
      BY <2>b, <3>1
    <3>3. CASE c # d
      <4>1. orphans'[d] = orphans[d] /\ current'[d] = current[d]
        BY <2>1, <2>h, <3>3, StartOrphans DEF BootStart
      <4>2. d \in pending' <=> d \in pending
        BY <2>1, <2>s, <3>3 DEF BootStart
      <4>3. QED
        BY <3>1, <3>2, <4>1, <4>2 DEF OwnedOf
    <3>4. CASE c = d
      <4>1. StartOK(d, 0, snap[d]) /\ UNCHANGED entries
        BY <2>1, <2>f, <3>4 DEF BootStart
      <4>2. orphans'[d] = orphans[d] /\ pending' = pending
        BY <2>h, <4>1, StartOrphans DEF entries
      <4>3. snap[d] # 0
        BY <3>1, <3>2, <3>4 DEF OwnedOf
      <4>4. QED
        BY <3>1, <3>2, <4>2, <4>3 DEF OwnedOf
    <3>5. QED
      BY <3>3, <3>4
  <2>2. CASE BootHashes
    <3>1. /\ readable /\ known' = file /\ UNCHANGED <<current, orphans, pending>>
          /\ pc = "hashes" /\ pc' = "sleep"
      BY <2>2 DEF BootHashes, entries
    <3>2. OwnedOf(d)
      BY <2>b, <3>1 DEF Booting
    <3>3. QED
      BY <2>q, <3>1, <3>2 DEF OwnedOf, Booting
  <2>3. CASE Wake
    <3>1. UNCHANGED <<orphans, current, known, pending, blind>> /\ ~Booting /\ ~Booting'
      BY <2>3 DEF Wake, entries, history, Booting
    <3>2. QED
      BY <2>b, <2>k, <3>1
  <2>4. ASSUME NEW c \in Clusters, EnsureCluster(c) PROVE OwnedOf(d)'
    <3>1. /\ UNCHANGED <<known, blind>> /\ ~Booting /\ ~Booting'
      BY <2>4 DEF EnsureCluster, history, Booting
    <3>2. OwnedOf(d)
      BY <2>b, <3>1
    <3>3. CASE SkipStart /\ UNCHANGED entries
      BY <2>k, <3>1, <3>2, <3>3 DEF SkipStart, entries
    <3>4. CASE /\ c \in Watchlist
               /\ \/ StartOK(c, 0, file[c]) /\ UNCHANGED entries
                  \/ StartFails(c, 0) /\ Queue(c, file[c])
      <4>1. c # d
        BY <2>h, <3>4
      <4>2. orphans'[d] = orphans[d] /\ current'[d] = current[d]
        BY <2>h, <3>4, <4>1, StartOrphans
      <4>3. d \in pending' <=> d \in pending
        BY <2>s, <3>4, <4>1
      <4>4. QED
        BY <2>k, <3>1, <3>2, <4>2, <4>3
    <3>5. QED
      BY <2>4, <3>3, <3>4 DEF EnsureCluster
  <2>5. ASSUME NEW c \in Clusters, RescanCluster(c) PROVE OwnedOf(d)'
    <3>1. UNCHANGED blind /\ ~Booting /\ ~Booting'
      BY <2>5 DEF RescanCluster, Processed, history, Booting
    <3>2. OwnedOf(d)
      BY <2>b, <3>1
    <3>3. CASE RescanRemoved(c)
      <4>1. /\ UNCHANGED orphans /\ current' = [current EXCEPT ![c] = 0]
            /\ known' = IF current[c] # 0 THEN [known EXCEPT ![c] = 0] ELSE known
            /\ pending' = pending \ {c}
        BY <3>3 DEF RescanRemoved, Unqueue
      <4>2. CASE c = d
        BY <2>q, <2>t, <2>h, <3>1, <3>2, <4>1, <4>2 DEF OwnedOf
      <4>3. CASE c # d
        BY <2>k, <2>t, <2>h, <3>1, <3>2, <4>1, <4>3
      <4>4. QED
        BY <4>2, <4>3
    <3>4. CASE RescanNew(c)
      <4>1. CASE /\ c \in pending /\ SkipStart /\ UNCHANGED <<pending, due>>
                 /\ known' = [known EXCEPT ![c] = snap[c]]
        <5>1. UNCHANGED <<orphans, current, pending>>
          BY <4>1 DEF SkipStart
        <5>2. CASE c = d
          BY <3>2, <3>4, <4>1, <5>2 DEF RescanNew, OwnedOf
        <5>3. CASE c # d
          BY <2>k, <2>t, <2>h, <3>1, <3>2, <4>1, <5>1, <5>3
        <5>4. QED
          BY <5>2, <5>3
      <4>2. CASE /\ StartOK(c, current[c], snap[c]) /\ UNCHANGED entries
                 /\ known' = [known EXCEPT ![c] = snap[c]] /\ c \notin pending
        <5>1. CASE c = d
          <6>1. current[c] = 0 /\ known'[d] # 0 /\ d \notin pending'
            BY <2>t, <3>1, <3>2, <3>4, <4>2, <5>1 DEF RescanNew, OwnedOf, entries
          <6>2. orphans'[d] = 0
            BY <3>2, <4>2, <5>1, <6>1, StartOrphans DEF OwnedOf
          <6>3. QED
            BY <2>q, <3>1, <6>1, <6>2
        <5>2. CASE c # d
          <6>1. orphans'[d] = orphans[d] /\ current'[d] = current[d]
            BY <2>h, <4>2, <5>2, StartOrphans
          <6>2. known'[d] = known[d] /\ pending' = pending
            BY <2>t, <2>h, <4>2, <5>2 DEF entries
          <6>3. QED
            BY <2>k, <3>1, <3>2, <6>1, <6>2
        <5>3. QED
          BY <5>1, <5>2
      <4>3. CASE StartFails(c, current[c]) /\ Queue(c, snap[c]) /\ UNCHANGED known
        <5>1. c # d
          BY <2>f, <4>3
        <5>2. orphans'[d] = orphans[d] /\ current'[d] = current[d]
          BY <2>h, <4>3, <5>1, StartOrphans
        <5>3. d \in pending' <=> d \in pending
          BY <2>s, <4>3, <5>1
        <5>4. QED
          BY <2>k, <3>1, <3>2, <4>3, <5>2, <5>3
      <4>4. QED
        BY <3>4, <4>1, <4>2, <4>3 DEF RescanNew
    <3>5. CASE RescanChanged(c)
      <4>1. CASE c = d
        <5>1. /\ StartOK(c, 0, snap[c]) /\ Unqueue(c) /\ snap[c] # 0
              /\ known' = [known EXCEPT ![c] = snap[c]]
          BY <2>f, <3>5, <4>1 DEF RescanChanged
        <5>2. orphans'[d] = orphans[d]
          BY <4>1, <5>1, StartOrphans
        <5>3. known'[d] # 0 /\ d \notin pending'
          BY <2>t, <4>1, <5>1 DEF Unqueue
        <5>4. QED
          BY <2>q, <3>1, <3>2, <5>2, <5>3 DEF OwnedOf
      <4>2. CASE c # d
        <5>1. orphans'[d] = orphans[d] /\ current'[d] = current[d]
          BY <2>h, <3>5, <4>2, StartOrphans DEF RescanChanged
        <5>2. known'[d] = known[d]
          BY <2>t, <2>h, <3>5, <4>2 DEF RescanChanged
        <5>3. d \in pending' <=> d \in pending
          BY <2>s, <3>5, <4>2 DEF RescanChanged
        <5>4. QED
          BY <2>k, <3>1, <3>2, <5>1, <5>2, <5>3
      <4>3. QED
        BY <4>1, <4>2
    <3>6. CASE RescanSame(c)
      BY <2>k, <3>1, <3>2, <3>6 DEF RescanSame, SkipStart, entries
    <3>7. QED
      BY <2>5, <3>3, <3>4, <3>5, <3>6 DEF RescanCluster
  <2>6. ASSUME NEW c \in Clusters, HealthCheck(c) PROVE OwnedOf(d)'
    <3>1. UNCHANGED <<orphans, known, blind>> /\ ~Booting /\ ~Booting'
      BY <2>6 DEF HealthCheck, Processed, history, Booting
    <3>2. OwnedOf(d)
      BY <2>b, <3>1
    <3>3. CASE UNCHANGED <<current, sick, entries>>
      BY <2>k, <3>1, <3>2, <3>3 DEF entries
    <3>4. CASE /\ current[c] # 0 /\ current' = [current EXCEPT ![c] = 0]
               /\ IF c \in pending THEN UNCHANGED entries ELSE Queue(c, 0)
      <4>1. CASE c = d
        <5>1. current'[d] = 0 /\ known'[d] # 0
          BY <2>t, <2>h, <3>1, <3>2, <3>4, <4>1 DEF OwnedOf
        <5>2. QED
          BY <2>q, <3>1, <3>2, <5>1 DEF OwnedOf
      <4>2. CASE c # d
        <5>1. d \in pending' <=> d \in pending
          BY <2>s, <3>4, <4>2
        <5>2. QED
          BY <2>k, <2>t, <2>h, <3>1, <3>2, <3>4, <4>2, <5>1
      <4>3. QED
        BY <4>1, <4>2
    <3>5. QED
      BY <2>6, <3>3, <3>4 DEF HealthCheck
  <2>7. ASSUME NEW c \in Clusters, RetryCluster(c) PROVE OwnedOf(d)'
    <3>1. UNCHANGED <<known, blind>> /\ ~Booting /\ ~Booting'
      BY <2>7 DEF RetryCluster, Processed, history, Booting
    <3>2. OwnedOf(d)
      BY <2>b, <3>1
    <3>3. CASE SkipStart /\ UNCHANGED <<pending, retryConf>>
      BY <2>k, <3>1, <3>2, <3>3 DEF SkipStart
    <3>4. CASE c \in due /\ StartOK(c, current[c], RetryVersion(c)) /\ Unqueue(c)
      <4>1. CASE c = d
        <5>1. current[c] = 0 /\ known'[d] # 0 /\ d \notin pending'
          BY <2>t, <3>1, <3>2, <3>4, <4>1 DEF OwnedOf, Unqueue
        <5>2. orphans'[d] = 0
          BY <3>2, <3>4, <4>1, <5>1, StartOrphans DEF OwnedOf
        <5>3. QED
          BY <2>q, <3>1, <5>1, <5>2
      <4>2. CASE c # d
        <5>1. orphans'[d] = orphans[d] /\ current'[d] = current[d]
          BY <2>h, <3>4, <4>2, StartOrphans
        <5>2. d \in pending' <=> d \in pending
          BY <2>s, <3>4, <4>2
        <5>3. QED
          BY <2>k, <3>1, <3>2, <5>1, <5>2
      <4>3. QED
        BY <4>1, <4>2
    <3>5. CASE StartFails(c, current[c]) /\ UNCHANGED <<pending, retryConf>>
      <4>1. c # d
        BY <2>f, <3>5
      <4>2. orphans'[d] = orphans[d] /\ current'[d] = current[d]
        BY <2>h, <3>5, <4>1, StartOrphans
      <4>3. QED
        BY <2>k, <3>1, <3>2, <3>5, <4>2
    <3>6. QED
      BY <2>7, <3>3, <3>4, <3>5 DEF RetryCluster
  <2>8. ASSUME NEW c \in Clusters, NEW v \in Versions, EditFile(c, v) PROVE OwnedOf(d)'
    <3>1. /\ UNCHANGED <<blind, current, orphans, known, pending, snap, pc, todo>>
          /\ file' = [file EXCEPT ![c] = v]
      BY <2>8 DEF EditFile, entries
    <3>2. Booting => c # d
      BY <2>8, <2>h DEF EditFile, Booting
    <3>3. Booting => file'[d] = file[d]
      BY <2>t, <2>h, <3>1, <3>2
    <3>4. QED
      BY <2>b, <3>1, <3>3 DEF OwnedOf, Booting
  <2>9. CASE Stop \/ Cancel
    <3>1. /\ UNCHANGED <<blind, known, pending, snap, pc, todo, file>>
          /\ current' = [c \in Clusters |-> 0]
          /\ orphans' \in {orphans, [c \in Clusters |-> 0]}
      BY <2>9 DEF Stop, Cancel, entries, environment, history
    <3>2. current'[d] = 0 /\ orphans'[d] \in {orphans[d], 0}
      BY <2>h, <3>1
    <3>3. QED
      BY <2>b, <3>1, <3>2 DEF OwnedOf, Booting
  <2>10. CASE UNCHANGED <<blind, current, orphans, known, pending, snap, pc, todo, file>>
    BY <2>b, <2>10 DEF OwnedOf, Booting
  <2>11. ASSUME NEW c \in Clusters, Sicken(c) \/ Heal(c) \/ BackoffEnds(c)
         PROVE  UNCHANGED <<blind, current, orphans, known, pending, snap, pc, todo, file>>
    BY <2>11 DEF Sicken, Heal, BackoffEnds, entries, environment, history
  <2>12. ASSUME DirectoryFails \/ DirectoryMended \/ UNCHANGED vars
         PROVE  UNCHANGED <<blind, current, orphans, known, pending, snap, pc, todo, file>>
    BY <2>12 DEF DirectoryFails, DirectoryMended, vars, entries, history
  <2>13. QED
    BY <2>1, <2>2, <2>3, <2>4, <2>5, <2>6, <2>7, <2>8, <2>9, <2>10, <2>11, <2>12
    DEF Next, Reconcile
<1>3. QED
  BY <1>1, <1>2, TypeCorrect, BootSees, PTL DEF Spec

\* Every informer of such a cluster is one m.watchers holds, whatever fails for
\* the others: a recycled, removed or retried watcher ends before the next starts.
THEOREM NothingOrphaned == Spec => []NoOrphans
<1>1. Owned => NoOrphans
  BY DEF Owned, OwnedOf, NoOrphans, Plain
<1>2. QED
  BY <1>1, OwnedInductive, PTL
=============================================================================
