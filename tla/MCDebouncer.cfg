SPECIFICATION FairSpec
CONSTANTS
  Keys = {k1, k2}
  Timers = {t1, t2, t3}
  NoTimer = NoTimer
  Window = 1
  Capacity = 1
  MaxSubmits = 2
INVARIANTS TypeOK PendingWillBeEmitted NewestWaits EmittedOnce NewestNeverLost
PROPERTIES CoalescerSpec BurstIsEmitted
