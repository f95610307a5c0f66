----------------------------- MODULE WriteBehind -----------------------------
(* What the hash store promises (internal/persistence/hash_store.go), without  *)
(* its goroutine, contexts, clusters and stop: it behaves as if it kept, of     *)
(* each deployment, one bit that says whether the last hash still has to be     *)
(* written, and looked up that hash when a flush begins.  What waits in the     *)
(* buffer or comes back from a failed write is never an older one.              *)
CONSTANTS
    Deployments,    \* the deployments of all clusters
    Values,         \* the hashes, and their absence
    NoValue,        \* the absence of a hash
    Nothing         \* no write of this deployment

VARIABLES
    latest,         \* the hash reported last
    stored,         \* the hash a restart will find
    dirty,          \* the deployments whose latest hash waits for a flush
    offered         \* what the flush in progress writes

behindVars == <<latest, stored, dirty, offered>>

Init ==
    /\ latest = [d \in Deployments |-> NoValue]
    /\ stored = [d \in Deployments |-> NoValue]
    /\ dirty = {}
    /\ offered = [d \in Deployments |-> Nothing]

Offered(D) == {d \in D : offered[d] # Nothing}
Clear(D) == offered' = [d \in Deployments |-> IF d \in D THEN Nothing ELSE offered[d]]

Say(d, v) ==
    /\ latest' = [latest EXCEPT ![d] = v]
    /\ dirty' = dirty \cup {d}
    /\ UNCHANGED <<stored, offered>>

\* A flush takes the latest hash of everything that waits, when the one before
\* it is over.
Offer ==
    /\ Offered(Deployments) = {}
    /\ offered' = [d \in Deployments |-> IF d \in dirty THEN latest[d] ELSE Nothing]
    /\ dirty' = {}
    /\ UNCHANGED <<latest, stored>>

Save(D) ==
    /\ stored' = [d \in Deployments |-> IF d \in Offered(D) THEN offered[d] ELSE stored[d]]
    /\ UNCHANGED <<latest, dirty, offered>>

\* Only what has been stored is dropped.
Done(D) ==
    /\ \A d \in Offered(D) : stored[d] = offered[d]
    /\ Clear(D)
    /\ UNCHANGED <<latest, stored, dirty>>

\* The write failed, with or without effect: its deployments wait again.
Retry(D) ==
    /\ dirty' = dirty \cup Offered(D)
    /\ Clear(D)
    /\ UNCHANGED <<latest, stored>>

\* The process is gone, and with it all that was not stored.
Crash ==
    /\ latest' = stored
    /\ dirty' = {}
    /\ offered' = [d \in Deployments |-> Nothing]
    /\ UNCHANGED stored

Next ==
    \/ \E d \in Deployments, v \in Values : Say(d, v)
    \/ \E D \in SUBSET Deployments : Save(D) \/ Done(D) \/ Retry(D)
    \/ Offer \/ Crash

Spec == Init /\ [][Next]_behindVars
==============================================================================
