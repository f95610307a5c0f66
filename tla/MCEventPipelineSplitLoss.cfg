SPECIFICATION PipelineSpec
CONSTANTS
  k1 = k1
  c1 = c1
  i1 = i1
  i2 = i2
  Keys = {k1}
  Clusters = {c1}
  Informers = {i1, i2}
  ClusterOf <- MCClusterOf
  Timers = {t1, t2}
  NoTimer = NoTimer
  Window = 1
  Capacity = 1
  MaxSubmits = 2
  Workers = {w1}
  Split = TRUE
  NoKey = NoKey
  Idle = Idle
  Exited = Exited
INVARIANTS Drained
CHECK_DEADLOCK FALSE
