------------------------------- MODULE JobPool -------------------------------
(* What a target that works in the background promises its callers             *)
(* (internal/investigation/orchestrator.go, internal/diagnostic/target.go),    *)
(* without semaphore, map, contexts or deferred calls: an event is admitted    *)
(* unless Slots jobs hold the pool, only a later call of its deployment        *)
(* revokes a job, a guarded pool shows no result of a job that was revoked     *)
(* before its report, and the pool closes when every job is over.              *)
EXTENDS Naturals, FiniteSets

CONSTANTS
    Keys,           \* the deployments
    MaxEvents,      \* bound: the events of a deployment
    Slots,          \* the jobs the pool may hold
    NoEvent         \* nothing shown

Events == Keys \X (1 .. MaxEvents)

VARIABLES
    guarded,        \* does a report ask whether its job was revoked?
    door,           \* "open", "closing" or "closed"
    job,            \* [Events -> how far an event is]
    revoked,        \* the jobs a later call has cancelled
    shown           \* [Keys -> the event whose result is shown]

poolVars == <<guarded, door, job, revoked, shown>>

Holding == {e \in Events : job[e] \in {"running", "reported", "finishing"}}
Become(e, from, to) == job[e] = from /\ job' = [job EXCEPT ![e] = to]

Init ==
    /\ guarded \in BOOLEAN
    /\ door = "open"
    /\ job = [e \in Events |-> "new"]
    /\ revoked = {}
    /\ shown = [k \in Keys |-> NoEvent]

Ask(e) ==
    /\ door = "open"
    /\ Become(e, "new", "asking")
    /\ UNCHANGED <<guarded, door, revoked, shown>>

\* A call cancels a job of its deployment that was admitted before it decides.
Revoke(e, f) ==
    /\ job[e] = "asking"
    /\ f \in Holding /\ f[1] = e[1]
    /\ revoked' = revoked \cup {f}
    /\ UNCHANGED <<guarded, door, job, shown>>

Admit(e) ==
    /\ Cardinality(Holding) < Slots
    /\ Become(e, "asking", "running")
    /\ UNCHANGED <<guarded, door, revoked, shown>>

Refuse(e) ==
    /\ Cardinality(Holding) = Slots
    /\ Become(e, "asking", "over")
    /\ UNCHANGED <<guarded, door, revoked, shown>>

\* The report is handed to the reporter, which may refuse it for reasons of its
\* own.  A guarded pool does so only while nobody has revoked the job or closed
\* the pool.
Report(e) ==
    /\ guarded => door = "open" /\ e \notin revoked
    /\ Become(e, "running", "reported")
    /\ UNCHANGED <<guarded, door, revoked, shown>>

Show(e) ==
    /\ Become(e, "reported", "finishing")
    /\ shown' = [shown EXCEPT ![e[1]] = e]
    /\ UNCHANGED <<guarded, door, revoked>>

\* A job ends without a report: it failed, was cancelled, or logs its result.
GiveUp(e) ==
    /\ Become(e, "running", "finishing")
    /\ UNCHANGED <<guarded, door, revoked, shown>>

Leave(e) ==
    /\ Become(e, "finishing", "over")
    /\ UNCHANGED <<guarded, door, revoked, shown>>

\* Nobody is asking, and nobody will.
BeginClose ==
    /\ door = "open"
    /\ \A e \in Events : job[e] # "asking"
    /\ door' = "closing"
    /\ UNCHANGED <<guarded, job, revoked, shown>>

EndClose ==
    /\ door = "closing"
    /\ Holding = {}
    /\ door' = "closed"
    /\ UNCHANGED <<guarded, job, revoked, shown>>

Next ==
    \/ \E e \in Events : Ask(e) \/ Admit(e) \/ Refuse(e)
    \/ \E e, f \in Events : Revoke(e, f)
    \/ \E e \in Events : Report(e) \/ Show(e) \/ GiveUp(e) \/ Leave(e)
    \/ BeginClose \/ EndClose

Spec == Init /\ [][Next]_poolVars
==============================================================================
