----------------------------- MODULE Coalescer -----------------------------
(***************************************************************************)
(* What internal/watcher/debouncer.go promises, without timers, locks or   *)
(* goroutines: for every deployment key only the newest submitted event    *)
(* waits, a newer submission replaces it, and an event that waits is       *)
(* either released, once, or cancelled by Stop.  Events of a key are       *)
(* numbered 1, 2, ... in the order they were submitted.                    *)
(***************************************************************************)
EXTENDS Naturals

CONSTANTS
  Keys,       \* the deployments, as "clusterID/namespace/name" keys
  MaxSubmits  \* bound: submissions per key

VARIABLES
  submitted,  \* [Keys -> number of events submitted so far]
  waiting,    \* [Keys -> number of the event that waits, 0 if none]
  released    \* the set of events <<key, number>> let out so far

vars == <<submitted, waiting, released>>

TypeOK ==
  /\ submitted \in [Keys -> 0..MaxSubmits]
  /\ waiting \in [Keys -> 0..MaxSubmits]
  /\ released \subseteq Keys \X (1..MaxSubmits)

Init ==
  /\ submitted = [k \in Keys |-> 0]
  /\ waiting = [k \in Keys |-> 0]
  /\ released = {}

\* A new event for k replaces the one that waits.
Submit(k) ==
  /\ submitted[k] < MaxSubmits
  /\ submitted' = [submitted EXCEPT ![k] = submitted[k] + 1]
  /\ waiting' = [waiting EXCEPT ![k] = submitted[k] + 1]
  /\ UNCHANGED released

\* The waiting event is let out; it must be the newest of its key.
Release(k) ==
  /\ waiting[k] # 0
  /\ waiting[k] = submitted[k]
  /\ <<k, waiting[k]>> \notin released
  /\ released' = released \cup {<<k, waiting[k]>>}
  /\ waiting' = [waiting EXCEPT ![k] = 0]
  /\ UNCHANGED submitted

\* Stop forgets everything that waits.
CancelAll ==
  /\ waiting' = [k \in Keys |-> 0]
  /\ UNCHANGED <<submitted, released>>

Next ==
  \/ \E k \in Keys : Submit(k) \/ Release(k)
  \/ CancelAll

Spec == Init /\ [][Next]_vars
=============================================================================
