-------------------------- MODULE MCEventPipeline --------------------------
\* The monitor's pipeline and shutdown on small instances.
EXTENDS EventPipeline, TLC

CONSTANTS k1, c1, i1, i2

\* One deployment, whose cluster may get two informers.
MCClusterOf == (k1 :> c1) @@ (i1 :> c1) @@ (i2 :> c1)
=============================================================================
