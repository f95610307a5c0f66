-------------------------- MODULE MCClusterWatcher --------------------------
\* Hash detection and persistence on small instances.
EXTENDS ClusterWatcher, TLC

CONSTANTS d1, c1, w1, w2, ns

\* One deployment, and two watchers that may run side by side.
MCClusterOf == (d1 :> c1)
MCNamespaceOf == (d1 :> ns)
MCHomeOf == (w1 :> c1) @@ (w2 :> c1)
MCOneHomeOf == (w1 :> c1)

\* Nothing is filtered; only ns is allowed, which overrides a denial.
MCOpen == [allow |-> {}, deny |-> {}]
MCConfigs == {MCOpen, [allow |-> {}, deny |-> {ns}]}
=============================================================================
