------------------------------ MODULE Notifier ------------------------------
(***************************************************************************)
(* What the monitor process promises from the submission of a rollout to   *)
(* its notification (cmd/monitor/main.go with the debouncer and the        *)
(* consumers of the event channel), without timers, goroutines or a        *)
(* shutdown order: per deployment only the newest event is released, a     *)
(* released event is accepted unless Capacity events wait already, an      *)
(* accepted one is notified once (or, if notifying means recording, may    *)
(* fail to be), and none is left when the service is over.  Submissions    *)
(* never end by themselves; what is released after the close is neither    *)
(* accepted nor notified.                                                  *)
(***************************************************************************)
EXTENDS Naturals, FiniteSets

CONSTANTS
  Keys,       \* the deployments
  MaxSubmits, \* bound: submissions per key
  Capacity,   \* events that may wait for a consumer
  Consumers,  \* how many events may be in the consumers' hands besides
  Recording   \* split mode: events are written as records, which can fail

VARIABLES
  phase,      \* "serving", "stopping", "closing" or "over"
  submitted,  \* [Keys -> number of events submitted so far]
  waiting,    \* [Keys -> number of the event that waits, 0 if none]
  leaving,    \* released, neither accepted nor dropped yet
  accepted,   \* waiting for a consumer or in its hands
  notified,   \* every target was called, or the record was written
  missing     \* dropped by a full channel, or failed to be recorded

notifierVars == <<phase, submitted, waiting, leaving, accepted, notified,
                  missing>>
outside == <<notified, missing>>

Open == phase \in {"serving", "stopping"}
Released == leaving \cup accepted \cup notified \cup missing

Init ==
  /\ phase = "serving"
  /\ submitted = [k \in Keys |-> 0]
  /\ waiting = [k \in Keys |-> 0]
  /\ leaving = {} /\ accepted = {}
  /\ notified = {} /\ missing = {}

\* A rollout is observed, perhaps too late: its event replaces the one that
\* waits.
Submit(k) ==
  /\ submitted[k] < MaxSubmits
  /\ submitted' = [submitted EXCEPT ![k] = submitted[k] + 1]
  /\ waiting' = [waiting EXCEPT ![k] = submitted[k] + 1]
  /\ UNCHANGED <<phase, leaving, accepted, outside>>

\* The window of k is over: its newest event is let out, for the first time.
Release(k) ==
  /\ waiting[k] # 0
  /\ waiting[k] = submitted[k]
  /\ <<k, waiting[k]>> \notin Released
  /\ leaving' = leaving \cup {<<k, waiting[k]>>}
  /\ waiting' = [waiting EXCEPT ![k] = 0]
  /\ UNCHANGED <<phase, submitted, accepted, outside>>

Accept(e) ==
  /\ Open
  /\ e \in leaving \ accepted
  /\ Cardinality(accepted) < Capacity + Consumers
  /\ leaving' = leaving \ {e}
  /\ accepted' = accepted \cup {e}
  /\ UNCHANGED <<phase, submitted, waiting, outside>>

\* An event is dropped only when a full channel of others is ahead of it.
Drop(e) ==
  /\ Open
  /\ e \in leaving
  /\ Cardinality(accepted) >= Capacity
  /\ leaving' = leaving \ {e}
  /\ missing' = missing \cup {e}
  /\ UNCHANGED <<phase, submitted, waiting, accepted, notified>>

Notify(e) ==
  /\ phase # "over"
  /\ e \in accepted \ (notified \cup missing)
  /\ accepted' = accepted \ {e}
  /\ notified' = notified \cup {e}
  /\ UNCHANGED <<phase, submitted, waiting, leaving, missing>>

\* Only a record can be lost: at any time, as the error is not handled.
Fail(e) ==
  /\ Recording
  /\ phase # "over"
  /\ e \in accepted \ (notified \cup missing)
  /\ accepted' = accepted \ {e}
  /\ missing' = missing \cup {e}
  /\ UNCHANGED <<phase, submitted, waiting, leaving, notified>>

\* The shutdown begins: what waits is forgotten.
CancelAll ==
  /\ phase = "serving"
  /\ phase' = "stopping"
  /\ waiting' = [k \in Keys |-> 0]
  /\ UNCHANGED <<submitted, leaving, accepted, outside>>

\* Nothing is accepted any more; what is let out from now on goes nowhere.
Close ==
  /\ phase = "stopping"
  /\ phase' = "closing"
  /\ UNCHANGED <<submitted, waiting, leaving, accepted, outside>>

\* The service ends with nothing accepted left undone.
Finish ==
  /\ phase = "closing"
  /\ accepted = {}
  /\ phase' = "over"
  /\ UNCHANGED <<submitted, waiting, leaving, accepted, outside>>

Next ==
  \/ \E k \in Keys : Submit(k) \/ Release(k)
  \/ \E e \in leaving : Accept(e) \/ Drop(e)
  \/ \E e \in accepted : Notify(e) \/ Fail(e)
  \/ CancelAll \/ Close \/ Finish

Spec == Init /\ [][Next]_notifierVars
=============================================================================
