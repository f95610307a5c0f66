---------------------------- MODULE MCDebouncer -----------------------------
\* The debouncer on a small instance: two deployments, three timers.
EXTENDS Debouncer
=============================================================================
