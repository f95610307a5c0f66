---------------------------- MODULE MCAsyncTargets ----------------------------
\* The background targets on small instances.
EXTENDS AsyncTargets
=============================================================================
