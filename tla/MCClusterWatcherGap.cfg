SPECIFICATION Spec
CONSTANTS
  d1 = d1
  c1 = c1
  w1 = w1
  w2 = w2
  ns = ns
  Clusters = {c1}
  Deployments = {d1}
  ClusterOf <- MCClusterOf
  Watchers = {w1}
  HomeOf <- MCOneHomeOf
  NamespaceOf <- MCNamespaceOf
  Namespaces = {ns}
  Hashes = {h1, h2}
  None = None
  Nothing = Nothing
  Configs <- MCConfigs
  DefaultConfig <- MCOpen
  Idle = Idle
  MaxChanges = 3
  MaxEdits = 2
  MaxRestarts = 1
PROPERTIES GapIsReported
CHECK_DEADLOCK FALSE
