------------------------------ MODULE HashStore ------------------------------
(* The batched persistence of template hashes (internal/persistence/           *)
(* hash_store.go): handlers write to a buffer, one goroutine drains the buffer  *)
(* every few seconds and writes it to one ClusterRolloutState object per        *)
(* cluster.  A write may fail, or take effect and lose its reply; what it       *)
(* carried then goes back to the buffer unless something newer is there.        *)
EXTENDS Naturals

CONSTANTS
    Clusters,       \* the clusters, one persisted object each
    Deployments,    \* the deployments of all clusters
    ClusterOf,      \* the cluster of a deployment
    Hashes,         \* the hashes a pod template can have
    None,           \* "": the removal in an update, the absence in a map
    Nothing         \* no update of this deployment

ASSUME HashStoreAssumption ==
    /\ ClusterOf \in [Deployments -> Clusters]
    /\ None \notin Hashes
    /\ Nothing \notin Hashes \cup {None}

VARIABLES
    pendingHashes,  \* the buffer: what the next flush will drain
    batch,          \* what the flush in progress has drained
    stage,          \* of the write of each cluster in that flush
    persisted,      \* the hashes in the ClusterRolloutState objects
    loop,           \* the flush goroutine: ticking, final flush, ended
    cancelled,      \* the context of the flush goroutine
    lossy,          \* history: a write of the final flush failed
    latest          \* history: what the handlers said last (since a crash)

hashVars == <<pendingHashes, batch, stage, persisted, loop, cancelled, lossy, latest>>

Hash == Hashes \cup {None}
Update == Hash \cup {Nothing}
DeploymentsOf(c) == {d \in Deployments : ClusterOf[d] = c}
FlushDone == \A c \in Clusters : stage[c] = "idle"

HashTypeOK ==
    /\ pendingHashes \in [Deployments -> Update]
    /\ batch \in [Deployments -> Update]
    /\ stage \in [Clusters -> {"idle", "queued", "applied"}]
    /\ persisted \in [Deployments -> Hash]
    /\ loop \in {"ticking", "final", "ended"}
    /\ cancelled \in BOOLEAN
    /\ lossy \in BOOLEAN
    /\ latest \in [Deployments -> Hash]

HashInit ==
    /\ pendingHashes = [d \in Deployments |-> Nothing]
    /\ batch = [d \in Deployments |-> Nothing]
    /\ stage = [c \in Clusters |-> "idle"]
    /\ persisted = [d \in Deployments |-> None]
    /\ loop = "ticking"
    /\ cancelled = FALSE
    /\ lossy = FALSE
    /\ latest = [d \in Deployments |-> None]

\* BufferHash, and RemoveHash when h is None: the newest value wins.
Buffer(d, h) ==
    /\ pendingHashes' = [pendingHashes EXCEPT ![d] = h]
    /\ latest' = [latest EXCEPT ![d] = h]
    /\ UNCHANGED <<batch, stage, persisted, loop, cancelled, lossy>>

\* The head of flush: swap the buffer for an empty one under the mutex.
Drain ==
    /\ FlushDone
    /\ batch' = pendingHashes
    /\ pendingHashes' = [d \in Deployments |-> Nothing]
    /\ stage' = [c \in Clusters |->
                    IF \E d \in DeploymentsOf(c) : pendingHashes[d] # Nothing
                    THEN "queued" ELSE "idle"]

\* A tick.  The select may also choose it when the context is cancelled.
Flush ==
    /\ loop = "ticking"
    /\ \E d \in Deployments : pendingHashes[d] # Nothing
    /\ Drain
    /\ UNCHANGED <<persisted, loop, cancelled, lossy, latest>>

\* ctx.Done: one more flush, with a context of its own.
FinalFlush ==
    /\ loop = "ticking"
    /\ cancelled
    /\ Drain
    /\ loop' = "final"
    /\ UNCHANGED <<persisted, cancelled, lossy, latest>>

FlushLoopReturns ==
    /\ loop = "final"
    /\ FlushDone
    /\ loop' = "ended"
    /\ UNCHANGED <<pendingHashes, batch, stage, persisted, cancelled, lossy, latest>>

\* upsertClusterState reaches the API server: Get, then Create or Update with
\* the updates applied.  The client refuses a cancelled context.  Nobody else
\* writes the object, so Get and write are one step.
UpsertApplies(c) ==
    /\ stage[c] = "queued"
    /\ \A o \in Clusters : stage[o] # "applied"
    /\ cancelled => loop = "final"
    /\ persisted' = [d \in Deployments |->
                        IF ClusterOf[d] = c /\ batch[d] # Nothing
                        THEN batch[d] ELSE persisted[d]]
    /\ stage' = [stage EXCEPT ![c] = "applied"]
    /\ UNCHANGED <<pendingHashes, batch, loop, cancelled, lossy, latest>>

\* Its reply arrives.  (The status update that follows changes no hash, and a
\* failure of it is only logged.)
UpsertReturns(c) ==
    /\ stage[c] = "applied"
    /\ stage' = [stage EXCEPT ![c] = "idle"]
    /\ batch' = [d \in Deployments |-> IF ClusterOf[d] = c THEN Nothing ELSE batch[d]]
    /\ UNCHANGED <<pendingHashes, persisted, loop, cancelled, lossy, latest>>

\* Mutant of Requeue: the failed update goes back whatever the buffer holds.
RequeueOverNewer(c) ==
    pendingHashes' = [d \in Deployments |->
        IF ClusterOf[d] = c /\ batch[d] # Nothing THEN batch[d] ELSE pendingHashes[d]]

\* Mutant of Requeue: a failed write is only logged.
RequeueNothing(c) == UNCHANGED pendingHashes

\* What a failed write carried goes back, behind newer updates.
Requeue(c) ==
    pendingHashes' = [d \in Deployments |->
        IF ClusterOf[d] = c /\ pendingHashes[d] = Nothing THEN batch[d] ELSE pendingHashes[d]]

\* The write fails, either without effect or after it (the reply is lost).
UpsertFails(c) ==
    /\ stage[c] = "queued" \/ stage[c] = "applied"
    /\ \A o \in Clusters \ {c} : stage[o] # "applied"
    /\ Requeue(c)
    /\ stage' = [stage EXCEPT ![c] = "idle"]
    /\ batch' = [d \in Deployments |-> IF ClusterOf[d] = c THEN Nothing ELSE batch[d]]
    /\ lossy' = (lossy \/ loop = "final")
    /\ UNCHANGED <<persisted, loop, cancelled, latest>>

\* The process dies, or main returns without waiting for the final flush, and
\* a new process starts.  A request that was on its way takes effect or not:
\* either it has (UpsertApplies) or it never will.
HashCrash ==
    /\ pendingHashes' = [d \in Deployments |-> Nothing]
    /\ batch' = [d \in Deployments |-> Nothing]
    /\ stage' = [c \in Clusters |-> "idle"]
    /\ loop' = "ticking"
    /\ cancelled' = FALSE
    /\ lossy' = FALSE
    /\ latest' = persisted
    /\ UNCHANGED persisted

FlushStep ==
    \/ Flush \/ FinalFlush \/ FlushLoopReturns
    \/ \E c \in Clusters : UpsertApplies(c) \/ UpsertReturns(c) \/ UpsertFails(c)

\* The value of d that will be in the object once nothing is on its way.
Owed(d) ==
    IF pendingHashes[d] # Nothing THEN pendingHashes[d]
    ELSE IF batch[d] # Nothing THEN batch[d] ELSE persisted[d]

(* Whatever flushes fail or lose their reply, and whatever is buffered while   *)
(* they are on their way, the last hash the handlers reported of a deployment  *)
(* is the one that remains: it is in the buffer, or in the flush in progress,  *)
(* or persisted, and nothing older will be written after it.                   *)
LatestIsKept == \A d \in Deployments : latest[d] = Owed(d)

(* The deployments whose last hash waits for a flush.                          *)
Dirty == {d \in Deployments : pendingHashes[d] # Nothing}

Behind == INSTANCE WriteBehind WITH
    Values <- Hash,
    NoValue <- None,
    stored <- persisted,
    dirty <- Dirty,
    offered <- batch

(* The store implements a write-behind cache without values in its buffer: a   *)
(* flush writes the hash that is the last one when the flush begins, although   *)
(* it takes it from a buffer into which failed writes put back older batches,   *)
(* and nothing is dropped that has not been stored (hash_store.go:62-130).      *)
WriteBehindSpec == Behind!Spec
==============================================================================
