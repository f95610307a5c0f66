----------------------------- MODULE AsyncTargets -----------------------------
(* The targets that work in the background: the investigation orchestrator     *)
(* (internal/investigation/orchestrator.go) or the diagnostic target           *)
(* (internal/diagnostic/target.go), whichever the configuration selects.  The   *)
(* dispatcher's workers call them side by side; each accepted event gets a slot *)
(* and a goroutine.  A new investigation of a deployment cancels the one before *)
(* it through the map `active`.                                                 *)
EXTENDS Naturals, FiniteSets

CONSTANTS
    Workers,        \* the dispatcher's workers
    Keys,           \* the deployments
    MaxEvents,      \* bound: the events of a deployment
    Slots,          \* maxConcurrent
    NoEvent         \* an idle worker; no entry in a map

Events == Keys \X (1 .. MaxEvents)
KeyOf(e) == e[1]

ASSUME AsyncAssumption ==
    /\ IsFiniteSet(Keys) /\ IsFiniteSet(Workers)
    /\ MaxEvents \in Nat
    /\ Slots \in Nat
    /\ NoEvent \notin Events

VARIABLES
    mode,           \* which of the two targets is configured
    reporter,       \* does the reporter ask the context, as HTTP does?
    taken,          \* the events of a deployment the workers have taken
    caller,         \* the event a worker is dispatching
    step,           \* how far its call has come
    slots,          \* the length of the semaphore channel
    active,         \* the investigation whose cancel function the map holds
    stage,          \* of the goroutine of an event
    cancelled,      \* the events whose context has been cancelled
    statusCache,    \* the event whose result the status API shows
    stopping,       \* has Stop been called, has it returned?
    turns,          \* history: how many calls of a deployment came to the lock
    turn            \* history: which of them that of an event was

config == <<mode, reporter>>
vars == <<config, taken, caller, step, slots, active, stage, cancelled,
          statusCache, stopping, turns, turn>>

\* The goroutines that have not released their slot.
Live == {e \in Events : stage[e] \notin {"none", "ended"}}
\* The workers between the semaphore and the start of their goroutine.
Acquired == {w \in Workers : step[w] = "acquired"}

TypeOK ==
    /\ mode \in {"investigation", "diagnostic"}
    /\ reporter \in {"webhook", "direct"}
    /\ taken \in [Keys -> 0 .. MaxEvents]
    /\ caller \in [Workers -> Events \cup {NoEvent}]
    /\ step \in [Workers -> {"idle", "called", "superseded", "checked", "acquired"}]
    /\ slots \in Nat
    /\ active \in [Keys -> Events \cup {NoEvent}]
    /\ stage \in [Events -> {"none", "running", "reporting", "reported",
                             "leaving", "cleaned", "ended"}]
    /\ cancelled \in SUBSET Events
    /\ statusCache \in [Keys -> Events \cup {NoEvent}]
    /\ stopping \in {"no", "waiting", "returned"}
    /\ turns \in [Keys -> Nat]
    /\ turn \in [Events -> Nat]

Init ==
    /\ mode \in {"investigation", "diagnostic"}
    /\ reporter \in {"webhook", "direct"}
    /\ mode = "diagnostic" => reporter = "direct"
    /\ taken = [k \in Keys |-> 0]
    /\ caller = [w \in Workers |-> NoEvent]
    /\ step = [w \in Workers |-> "idle"]
    /\ slots = 0
    /\ active = [k \in Keys |-> NoEvent]
    /\ stage = [e \in Events |-> "none"]
    /\ cancelled = {}
    /\ statusCache = [k \in Keys |-> NoEvent]
    /\ stopping = "no"
    /\ turns = [k \in Keys |-> 0]
    /\ turn = [e \in Events |-> 0]

------------------------------------------------------------------------------
(* The caller: Investigate, or Dispatch of the diagnostic target *)

\* A worker takes the next event of a deployment and comes to this target after
\* the ones before it, which may take any time.
Call(w, k) ==
    /\ step[w] = "idle"
    /\ stopping = "no"
    /\ taken[k] < MaxEvents
    /\ taken' = [taken EXCEPT ![k] = @ + 1]
    /\ caller' = [caller EXCEPT ![w] = <<k, taken[k] + 1>>]
    /\ step' = [step EXCEPT ![w] = IF mode = "investigation" THEN "called" ELSE "superseded"]
    /\ UNCHANGED <<config, slots, active, stage, cancelled, statusCache, stopping, turns, turn>>

\* Under the mutex: cancel the investigation the map knows, and forget it.
Supersede(w) ==
    LET k == KeyOf(caller[w])
    IN  /\ step[w] = "called"
        /\ cancelled' = cancelled \cup ({active[k]} \ {NoEvent})
        /\ active' = [active EXCEPT ![k] = NoEvent]
        /\ turns' = [turns EXCEPT ![k] = @ + 1]
        /\ turn' = [turn EXCEPT ![caller[w]] = turns[k] + 1]
        /\ step' = [step EXCEPT ![w] = "superseded"]
        /\ UNCHANGED <<config, taken, caller, slots, stage, statusCache, stopping>>

\* The target is not shutting down.  The other branch is never taken: main calls
\* Stop when no worker is left (StopDrains fails if it does so earlier).
Check(w) ==
    /\ step[w] = "superseded"
    /\ stopping = "no"
    /\ step' = [step EXCEPT ![w] = "checked"]
    /\ UNCHANGED <<config, taken, caller, slots, active, stage, cancelled,
                   statusCache, stopping, turns, turn>>

Acquire(w) ==
    /\ step[w] = "checked"
    /\ slots < Slots
    /\ slots' = slots + 1
    /\ step' = [step EXCEPT ![w] = "acquired"]
    /\ UNCHANGED <<config, taken, caller, active, stage, cancelled, statusCache,
                   stopping, turns, turn>>

\* All slots are taken: the event is dropped, after the investigation before it
\* has been cancelled.
Drop(w) ==
    /\ step[w] = "checked"
    /\ slots = Slots
    /\ caller' = [caller EXCEPT ![w] = NoEvent]
    /\ step' = [step EXCEPT ![w] = "idle"]
    /\ UNCHANGED <<config, taken, slots, active, stage, cancelled, statusCache, stopping, turns, turn>>

\* Mutant of Start: registering cancels the entry it overwrites, as Supersede does.
StartCancelsOverwritten(w) ==
    LET e == caller[w]
    IN  /\ step[w] = "acquired"
        /\ mode = "investigation"
        /\ cancelled' = cancelled \cup ({active[KeyOf(e)]} \ {NoEvent})
        /\ active' = [active EXCEPT ![KeyOf(e)] = e]
        /\ stage' = [stage EXCEPT ![e] = "running"]
        /\ caller' = [caller EXCEPT ![w] = NoEvent]
        /\ step' = [step EXCEPT ![w] = "idle"]
        /\ UNCHANGED <<config, taken, slots, statusCache, stopping, turns, turn>>

\* The investigation is registered, and its goroutine starts.  An entry that
\* another worker put there meanwhile is overwritten; nobody can cancel that one.
Start(w) ==
    LET e == caller[w]
    IN  /\ step[w] = "acquired"
        /\ active' = IF mode = "investigation"
                     THEN [active EXCEPT ![KeyOf(e)] = e] ELSE active
        /\ stage' = [stage EXCEPT ![e] = "running"]
        /\ caller' = [caller EXCEPT ![w] = NoEvent]
        /\ step' = [step EXCEPT ![w] = "idle"]
        /\ UNCHANGED <<config, taken, slots, cancelled, statusCache, stopping, turns, turn>>

------------------------------------------------------------------------------
(* The goroutine *)

\* The context of an investigation ends with its own cancel or with Stop.
Done(e) == e \in cancelled \/ stopping # "no"

Moves(e, from, to) == stage[e] = from /\ stage' = [stage EXCEPT ![e] = to]
OnlyStage == UNCHANGED <<config, taken, caller, step, slots, active, cancelled,
                         statusCache, stopping, turns, turn>>

\* The investigator returns a report; the runbook does so even when cancelled.
Reports(e) == mode = "investigation" /\ Moves(e, "running", "reporting") /\ OnlyStage

\* It returns an error, which ends the goroutine whatever the reason.
InvestigateFails(e) == mode = "investigation" /\ Moves(e, "running", "leaving") /\ OnlyStage

\* Mutant of PostReport: a report the client refuses is tried again and again.
PostReportRetried(e) == ~Done(e) /\ Moves(e, "reporting", "reported") /\ OnlyStage

\* Mutant of PostReport: the report is posted with a context of its own.
PostReportDetached(e) == Moves(e, "reporting", "reported") /\ OnlyStage

\* PostReport: the HTTP client refuses a cancelled context.  It may also fail
\* without that, which is logged only.  Without a webhook (SLACK_WEBHOOK_URL is
\* TEST, or there is no reporter) nobody asks the context: a report that comes
\* after the cancellation is printed and shown like any other.
PostReport(e) ==
    /\ \/ (reporter = "direct" \/ ~Done(e)) /\ Moves(e, "reporting", "reported")
       \/ reporter = "webhook" /\ Done(e) /\ Moves(e, "reporting", "leaving")
    /\ OnlyStage

UpdateStatus(e) ==
    /\ Moves(e, "reported", "leaving")
    /\ statusCache' = [statusCache EXCEPT ![KeyOf(e)] = e]
    /\ UNCHANGED <<config, taken, caller, step, slots, active, cancelled, stopping, turns, turn>>

\* The deferred clean-up deletes the entry of the deployment, whosever it is.
CleanUp(e) ==
    /\ Moves(e, "leaving", "cleaned")
    /\ active' = [active EXCEPT ![KeyOf(e)] = NoEvent]
    /\ UNCHANGED <<config, taken, caller, step, slots, cancelled, statusCache, stopping, turns, turn>>

\* The diagnostic goroutine: the analyzer returns, be it at its own timeout or
\* because of Stop, and the result is logged.
AnalysisReturns(e) == mode = "diagnostic" /\ Moves(e, "running", "cleaned") /\ OnlyStage

\* Mutant of Release: the slot of a cancelled investigation is not given back.
ReleaseUnlessCancelled(e) ==
    /\ Moves(e, "cleaned", "ended")
    /\ slots' = IF e \in cancelled THEN slots ELSE slots - 1
    /\ UNCHANGED <<config, taken, caller, step, active, cancelled, statusCache, stopping, turns, turn>>

\* The deferred release of the slot, and wg.Done.
Release(e) ==
    /\ Moves(e, "cleaned", "ended")
    /\ slots' = slots - 1
    /\ UNCHANGED <<config, taken, caller, step, active, cancelled, statusCache, stopping, turns, turn>>

------------------------------------------------------------------------------
(* Stop *)

\* Mutant of StopBegins: main stops the target without waiting for the workers.
StopBeforeWait ==
    /\ stopping = "no"
    /\ stopping' = "waiting"
    /\ UNCHANGED <<config, taken, caller, step, slots, active, stage, cancelled, statusCache, turns, turn>>

\* main calls Stop when the dispatcher's workers have returned: it cancels the
\* context of all goroutines and waits for them.
StopBegins ==
    /\ stopping = "no"
    /\ \A w \in Workers : step[w] = "idle"
    /\ stopping' = "waiting"
    /\ UNCHANGED <<config, taken, caller, step, slots, active, stage, cancelled, statusCache, turns, turn>>

StopReturns ==
    /\ stopping = "waiting"
    /\ Live = {}
    /\ stopping' = "returned"
    /\ UNCHANGED <<config, taken, caller, step, slots, active, stage, cancelled, statusCache, turns, turn>>

------------------------------------------------------------------------------
Calls(w) ==
    Supersede(w) \/ Check(w) \/ Acquire(w) \/ Drop(w) \/ Start(w)
Goroutine(e) ==
    \/ Reports(e) \/ InvestigateFails(e) \/ PostReport(e) \/ UpdateStatus(e)
    \/ CleanUp(e) \/ AnalysisReturns(e) \/ Release(e)

Next ==
    \/ \E w \in Workers, k \in Keys : Call(w, k)
    \/ \E w \in Workers : Calls(w)
    \/ \E e \in Events : Goroutine(e)
    \/ StopBegins \/ StopReturns

Spec == Init /\ [][Next]_vars

\* Every goroutine runs: an investigator returns, because its HTTP client has a
\* timeout and the analyzer a deadline.  New events and Stop are never forced.
Fairness ==
    /\ \A w \in Workers : WF_vars(Calls(w))
    /\ \A e \in Events : WF_vars(Goroutine(e))
    /\ WF_vars(StopReturns)

FairSpec == Spec /\ Fairness

------------------------------------------------------------------------------
(* Properties *)

(* At most maxConcurrent goroutines exist, and no slot leaks: the semaphore    *)
(* counts the goroutines that have not ended and the calls about to start one, *)
(* whether they are superseded, refused by the reporter, failed or stopped.    *)
SlotsBalance ==
    slots = Cardinality(Live) + Cardinality(Acquired) /\ slots <= Slots

(* The newest rollout is never cancelled in favour of an older one: while the  *)
(* orchestrator is not stopped, a cancelled investigation has a successor,     *)
(* whose call came to the lock later, in whatever order the calls went on.     *)
NewestSurvives ==
    \A e \in cancelled : \E f \in Events : KeyOf(f) = KeyOf(e) /\ turn[f] > turn[e]

(* When Stop returns nothing is left behind: no call, no goroutine, no slot    *)
(* taken, no entry in the map, and nothing will start any more.                *)
StopDrains ==
    stopping = "returned" =>
        /\ \A w \in Workers : step[w] = "idle"
        /\ Live = {}
        /\ slots = 0
        /\ \A k \in Keys : active[k] = NoEvent

(* Every goroutine ends, also one that was superseded and whose entry is gone, *)
(* and Stop returns.                                                           *)
EverythingEnds ==
    /\ \A e \in Events : stage[e] = "running" ~> stage[e] = "ended"
    /\ stopping = "waiting" ~> stopping = "returned"

(* "The previous rollout is abandoned - no terminal status is emitted for it"  *)
(* (docs/deployment-rollout-monitoring-runbook.md:79): a report whose           *)
(* investigation was superseded meanwhile goes nowhere.                         *)
SupersededIsSilent ==
    [][\A e \in cancelled : stage[e] = "reporting" => stage'[e] # "reported"]_vars

(* How far an event is, seen from outside: from its slot to the release of it   *)
(* it holds the pool.                                                           *)
Job(e) ==
    CASE stage[e] \in {"running", "reporting"} -> "running"
      [] stage[e] = "reported" -> "reported"
      [] stage[e] \in {"leaving", "cleaned"} -> "finishing"
      [] stage[e] = "ended" -> "over"
      [] stage[e] = "none" ->
           IF \E w \in Workers : caller[w] = e /\ step[w] # "idle"
           THEN IF \E w \in Acquired : caller[w] = e THEN "running" ELSE "asking"
           ELSE IF e[2] <= taken[KeyOf(e)] THEN "over" ELSE "new"

Door == IF stopping = "no" THEN "open"
        ELSE IF stopping = "waiting" THEN "closing" ELSE "closed"

Pool == INSTANCE JobPool WITH
    guarded <- reporter = "webhook",
    door <- Door,
    job <- [e \in Events |-> Job(e)],
    revoked <- cancelled,
    shown <- statusCache

(* The target implements the pool, although the semaphore, the map and the     *)
(* contexts are each looked at alone: an event is refused only when Slots jobs *)
(* hold the pool, only a later call of its deployment cancels a job, with a    *)
(* webhook a job cancelled before its report is answered is not shown, and     *)
(* Stop returns when every job is over (orchestrator.go:53-166,                *)
(* target.go).                                                                 *)
PoolSpec == Pool!Spec
==============================================================================
