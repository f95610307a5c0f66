-------------------------- MODULE RecordLifecycle --------------------------
(***************************************************************************)
(* The life of a RolloutRecord as any observer of the API server may see   *)
(* it in split mode (docs/architecture.md:106, 116): detected, claimed,    *)
(* completed, deleted; sent back to Detected by the recovery scan.         *)
(***************************************************************************)
EXTENDS Naturals

CONSTANTS
  Records,       \* RolloutRecord names
  InitialPhase   \* the phase a created record shows

VARIABLES
  phase,    \* [Records -> phase, "Absent" before creation, "Deleted" after]
  claims,   \* [Records -> number of times the record was claimed]
  resets    \* [Records -> number of times it was sent back to Detected]

vars == <<phase, claims, resets>>

Terminal == {"Dispatched", "Failed"}

Init ==
  /\ phase = [r \in Records |-> "Absent"]
  /\ claims = [r \in Records |-> 0]
  /\ resets = [r \in Records |-> 0]

Create(r) ==
  /\ phase[r] = "Absent"
  /\ phase' = [phase EXCEPT ![r] = InitialPhase]
  /\ UNCHANGED <<claims, resets>>

\* One dispatcher replica wins the record; claims never outrun resets.
Claim(r) ==
  /\ phase[r] = "Detected"
  /\ claims[r] <= resets[r]
  /\ phase' = [phase EXCEPT ![r] = "Processing"]
  /\ claims' = [claims EXCEPT ![r] = claims[r] + 1]
  /\ UNCHANGED resets

Reset(r) ==
  /\ phase[r] = "Processing"
  /\ phase' = [phase EXCEPT ![r] = "Detected"]
  /\ resets' = [resets EXCEPT ![r] = resets[r] + 1]
  /\ UNCHANGED claims

\* A claimant, possibly one that was given up on, writes its outcome.
Complete(r) ==
  /\ claims[r] > 0
  /\ phase[r] \in {"Detected", "Processing"} \cup Terminal
  /\ \E outcome \in Terminal : phase' = [phase EXCEPT ![r] = outcome]
  /\ UNCHANGED <<claims, resets>>

Delete(r) ==
  /\ phase[r] \in Terminal
  /\ phase' = [phase EXCEPT ![r] = "Deleted"]
  /\ UNCHANGED <<claims, resets>>

Next == \E r \in Records :
  Create(r) \/ Claim(r) \/ Reset(r) \/ Complete(r) \/ Delete(r)

Spec == Init /\ [][Next]_vars
=============================================================================
