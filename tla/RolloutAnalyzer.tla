--------------------------- MODULE RolloutAnalyzer ---------------------------
(* The runbook of one rollout (internal/diagnostic/analyzer.go): poll the       *)
(* deployment until a failure, a stall, a timeout or convergence, soak, and     *)
(* gather diagnostics unless it succeeded.  Time counts poll intervals from the *)
(* start; a poll may come late, and sees whatever the cluster shows then.       *)
EXTENDS Integers

CONSTANTS
    InactivityTimeout, AbsoluteTimeout,
    RestartWindow, ConfigErrorWindow,
    Counts,         \* the replica counts a status may show, with those desired
    Zero,           \* the counts of a new progressState
    SignalSets,     \* the signals a status may come with
    MaxLate         \* bound: intervals from a poll to the next

\* What the pods of the new ReplicaSet show: they cannot be read, a container
\* waits before its first start, the restarts have reached the threshold; and
\* the deployment's condition ProgressDeadlineExceeded.
Signals == {"unreadable", "waiting", "restarts", "exceeded"}

ASSUME AnalyzerAssumption ==
    /\ {InactivityTimeout, AbsoluteTimeout, RestartWindow, ConfigErrorWindow, MaxLate} \subseteq Nat
    /\ ConfigErrorWindow > 0
    /\ SignalSets \subseteq SUBSET Signals
    /\ Counts \subseteq [desired : Nat, updated : Nat, available : Nat, unavailable : Nat]
    /\ Zero \in [desired : Nat, updated : {0}, available : {0}, unavailable : {0}]

\* What a poll sees: the call fails, the deployment is gone, its controller lags
\* behind, it is paused, or its status.
Sights ==
    [kind : {"error", "gone", "mismatch", "paused"}, signals : {{}}, counts : {Zero}]
      \cup [kind : {"status"}, signals : SignalSets, counts : Counts]

VARIABLES
    now,            \* the time of the last poll
    progress,       \* progressState.lastProgressAt
    last,           \* progressState.last*: the counts of the last evaluation
    waitingSince,   \* configErrorFirstSeen, 0 when not set
    lastSeenPaused,
    snapshot,       \* did the soak get the restart counts it compares with?
    phase,          \* where Analyze is
    verdict,        \* the result with its reason
    report,         \* the sections of the report that gatherDiagnostics filled
    polls           \* history: what the polls saw, and when

monitoring == <<progress, last, waitingSince, lastSeenPaused>>
vars == <<now, monitoring, snapshot, phase, verdict, report, polls>>

Verdicts == {"none", "deleted", "failed: deadline exceeded", "failed: waiting",
             "failed: restarts", "stalled", "timeout: paused",
             "timeout: inconclusive", "timeout: stalled", "cancelled",
             "soak: unreadable", "soak: unstable", "success"}

TypeOK ==
    /\ now \in Nat /\ progress \in 0 .. now /\ waitingSince \in 0 .. now
    /\ last \in Counts \cup {Zero}
    /\ lastSeenPaused \in BOOLEAN /\ snapshot \in BOOLEAN
    /\ phase \in {"start", "monitor", "soak", "gather", "done"}
    /\ verdict \in Verdicts
    /\ report \subseteq {"events", "pods", "logs"}
    /\ polls \subseteq [at : 1 .. now, sees : Sights]

Init ==
    /\ now = 0 /\ progress = 0 /\ waitingSince = 0
    /\ last = Zero
    /\ lastSeenPaused = FALSE /\ snapshot = FALSE
    /\ phase = "start" /\ verdict = "none"
    /\ report = {} /\ polls = {}

\* recordProgress: forward movement of any count.
Forward(from, to) ==
    \/ to.updated > from.updated
    \/ to.available > from.available
    \/ to.unavailable < from.unavailable

Converged(c) ==
    c.updated = c.desired /\ c.available = c.desired /\ c.unavailable = 0

------------------------------------------------------------------------------
(* Phase 1: monitorRollout *)

\* The cluster's client is there, or the event ends here without a report.
Starts ==
    /\ phase = "start"
    /\ phase' \in {"monitor", "done"}
    /\ UNCHANGED <<now, monitoring, snapshot, verdict, report, polls>>

Ends(v) ==
    /\ verdict' = v
    /\ phase' = IF v = "success" THEN "done" ELSE "gather"

\* A poll after the absolute timeout looks at nothing any more.
TimesOut(t) ==
    /\ t > AbsoluteTimeout
    /\ Ends(IF lastSeenPaused THEN "timeout: paused"
            ELSE IF t - progress < InactivityTimeout THEN "timeout: inconclusive"
            ELSE "timeout: stalled")
    /\ UNCHANGED <<monitoring, snapshot, polls>>

\* The poll gets no status: an error leaves everything, a lag of the controller
\* counts as progress.
NoStatus(t, sees) ==
    \/ /\ sees.kind = "error"
       /\ UNCHANGED <<monitoring, phase, verdict>>
    \/ /\ sees.kind = "gone"
       /\ Ends("deleted")
       /\ UNCHANGED monitoring
    \/ /\ sees.kind = "mismatch"
       /\ progress' = t
       /\ UNCHANGED <<last, waitingSince, lastSeenPaused, phase, verdict>>
    \/ /\ sees.kind = "paused"
       /\ lastSeenPaused' = TRUE
       /\ UNCHANGED <<progress, last, waitingSince, phase, verdict>>

\* checkFailureConditions.  The restarts count while there was progress within
\* the window, that of this poll not included.
Failure(t, signals) ==
    IF "exceeded" \in signals THEN "failed: deadline exceeded"
    ELSE IF "unreadable" \in signals THEN "none"
    ELSE IF "waiting" \in signals /\ waitingSince # 0 /\ t - waitingSince >= ConfigErrorWindow
         THEN "failed: waiting"
    ELSE IF "restarts" \in signals /\ t - progress < RestartWindow
         THEN "failed: restarts"
    ELSE "none"

\* The timer of the containers that wait runs on while the pods are not read.
Timer(t, signals) ==
    IF "exceeded" \in signals \/ "unreadable" \in signals THEN waitingSince
    ELSE IF "waiting" \notin signals THEN 0
    ELSE IF waitingSince = 0 THEN t ELSE waitingSince

\* Without a failure: progress, stall, convergence.  The soak takes its snapshot
\* of the restarts if it can read the pods.
Progresses(t, sees) ==
    /\ last' = sees.counts
    /\ progress' = IF Forward(last, sees.counts) THEN t ELSE progress
    /\ IF t - progress' > InactivityTimeout
       THEN Ends("stalled") /\ UNCHANGED snapshot
       ELSE IF Converged(sees.counts)
            THEN phase' = "soak" /\ snapshot' \in BOOLEAN /\ UNCHANGED verdict
            ELSE UNCHANGED <<phase, verdict, snapshot>>

\* Mutant of Evaluates: a poll that is not paused does not clear lastSeenPaused.
EvaluatesStillPaused(t, sees) ==
    /\ sees.kind = "status"
    /\ UNCHANGED lastSeenPaused
    /\ waitingSince' = Timer(t, sees.signals)
    /\ IF Failure(t, sees.signals) = "none" THEN Progresses(t, sees)
       ELSE /\ Ends(Failure(t, sees.signals))
            /\ UNCHANGED <<progress, last, snapshot>>

Evaluates(t, sees) ==
    /\ sees.kind = "status"
    /\ lastSeenPaused' = FALSE
    /\ waitingSince' = Timer(t, sees.signals)
    /\ IF Failure(t, sees.signals) = "none" THEN Progresses(t, sees)
       ELSE /\ Ends(Failure(t, sees.signals))
            /\ UNCHANGED <<progress, last, snapshot>>

\* One turn of the loop.
Poll(t) ==
    /\ phase = "monitor"
    /\ now' = t
    /\ UNCHANGED report
    /\ \/ TimesOut(t)
       \/ /\ t <= AbsoluteTimeout
          /\ \E sees \in Sights :
                /\ polls' = polls \cup {[at |-> t, sees |-> sees]}
                /\ \/ NoStatus(t, sees) /\ UNCHANGED snapshot
                   \/ Evaluates(t, sees)

------------------------------------------------------------------------------
(* The soak, Phase 2, and cancellation *)

\* After the soak period the deployment is read again.  A restart is one of a
\* container that the snapshot knows.
SoakEnds ==
    /\ phase = "soak"
    /\ \/ Ends("soak: unreadable")
       \/ \E counts \in Counts, restarted, unready, readable \in BOOLEAN :
             Ends(IF ~Converged(counts) \/ (readable /\ (unready \/ (snapshot /\ restarted)))
                  THEN "soak: unstable" ELSE "success")
    /\ UNCHANGED <<now, monitoring, snapshot, report, polls>>

\* Stop, or the timeout of the target, ends a wait.
Cancel ==
    /\ phase \in {"monitor", "soak"}
    /\ Ends("cancelled")
    /\ UNCHANGED <<now, monitoring, snapshot, report, polls>>

\* gatherDiagnostics: each call may fail and leave the rest out; the verdict
\* stands.  Logs come from failing pods only.
GatherDiagnostics ==
    /\ phase = "gather"
    /\ report' \in IF verdict = "cancelled" THEN {{}}
                   ELSE {s \in SUBSET {"events", "pods", "logs"} : "logs" \in s => "pods" \in s}
    /\ phase' = "done"
    /\ UNCHANGED <<now, monitoring, snapshot, verdict, polls>>

Next ==
    \/ Starts
    \/ \E d \in 1 .. MaxLate : Poll(now + d)
    \/ SoakEnds \/ Cancel \/ GatherDiagnostics

Spec == Init /\ [][Next]_vars

------------------------------------------------------------------------------
(* The verdict that the polls justify, whatever variables the analyzer keeps *)

Status(q) == q.sees.kind = "status"
Earlier(q) == {r \in polls : r.at < q.at}
\* The status evaluated before q.
Base(q, r) == r \in Earlier(q) /\ Status(r) /\ \A o \in Earlier(q) : Status(o) => o.at <= r.at

\* The polls that saw progress: against the status before, or against zero.
Moved(q) ==
    \/ q.sees.kind = "mismatch"
    \/ /\ Status(q)
       /\ \/ \E r \in polls : Base(q, r) /\ Forward(r.sees.counts, q.sees.counts)
          \/ (\A r \in Earlier(q) : ~Status(r)) /\ Forward(Zero, q.sees.counts)
MoveTimes == {0} \cup {m \in 1 .. now : \E q \in polls : q.at = m /\ Moved(q)}

Readable(q) == Status(q) /\ "unreadable" \notin q.sees.signals
Waiting(q) == Readable(q) /\ "waiting" \in q.sees.signals
\* A container has been seen waiting since p, by every poll that could tell.
WaitsSince(p, q) ==
    /\ p \in Earlier(q) /\ Waiting(p)
    /\ \A r \in Earlier(q) : r.at > p.at /\ Readable(r) => Waiting(r)

WaitsTooLong(q) ==
    Waiting(q) /\ \E p \in polls : WaitsSince(p, q) /\ q.at - p.at >= ConfigErrorWindow
RestartsTooOften(q) ==
    /\ Readable(q) /\ "restarts" \in q.sees.signals
    /\ \E m \in MoveTimes : m < q.at /\ q.at - m < RestartWindow
HasStalled(q) == \A m \in MoveTimes : m <= q.at => q.at - m > InactivityTimeout

Justified(q) ==
    IF q.sees.kind = "gone" THEN "deleted"
    ELSE IF ~Status(q) THEN "none"
    ELSE IF "exceeded" \in q.sees.signals THEN "failed: deadline exceeded"
    ELSE IF WaitsTooLong(q) THEN "failed: waiting"
    ELSE IF RestartsTooOften(q) THEN "failed: restarts"
    ELSE IF HasStalled(q) THEN "stalled"
    ELSE IF Converged(q.sees.counts) THEN "converged"
    ELSE "none"

\* The last poll that could tell saw a pause.
EndsPaused ==
    \E q \in polls : q.sees.kind = "paused" /\ \A r \in polls : Status(r) => r.at < q.at

JustifiedByTimeout ==
    IF EndsPaused THEN "timeout: paused"
    ELSE IF \E m \in MoveTimes : now - m < InactivityTimeout THEN "timeout: inconclusive"
    ELSE "timeout: stalled"

\* The verdicts of a poll.
PollVerdicts == {"deleted", "failed: deadline exceeded", "failed: waiting",
                 "failed: restarts", "stalled"}
Timeouts == {"timeout: paused", "timeout: inconclusive", "timeout: stalled"}
Soaked == {"soak: unreadable", "soak: unstable", "success"}

(* The verdict is the one its polls justify, and the first of them: a poll that *)
(* justifies a failure, a stall or the soak ends the monitoring with just that, *)
(* whatever errors, pauses, lags and unreadable pods came between, no poll      *)
(* before it did, and a timeout is classified by what the polls saw last.       *)
VerdictIsEarned ==
    /\ \A q \in polls : Justified(q) # "none" => q.at = now /\ phase # "monitor"
    /\ verdict \in PollVerdicts => \E q \in polls : q.at = now /\ Justified(q) = verdict
    /\ phase = "soak" \/ verdict \in Soaked =>
          \E q \in polls : q.at = now /\ Justified(q) = "converged"
    /\ verdict \in Timeouts => now > AbsoluteTimeout /\ verdict = JustifiedByTimeout
    /\ verdict \in {"none", "success"} => report = {}
==============================================================================
