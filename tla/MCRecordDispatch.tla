-------------------------- MODULE MCRecordDispatch --------------------------
\* Split mode on small instances.
EXTENDS RecordDispatch, TLC

\* Replicas and records are interchangeable: the safety run uses this symmetry.
Symmetry == Permutations(Replicas) \cup Permutations(Records)
=============================================================================
