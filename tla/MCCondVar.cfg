CONSTANTS
  t1 = t1
  t2 = t2
  t3 = t3
  Thread = {t1, t2, t3}
  Waiter = {t1, t2}
  NoThread = NoThread
  CV_MAX_WAITERS = 2
  MaxDelta = 1
SPECIFICATION Spec
INVARIANTS CountIsExact NoLostWakeup ReturnsClean NoSleeperIsForgotten
CHECK_DEADLOCK FALSE
