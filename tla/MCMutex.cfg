CONSTANTS
  t1 = t1
  t2 = t2
  c1 = c1
  c2 = c2
  Thread = {t1, t2}
  CPU = {c1, c2}
  NoThread = NoThread
SPECIFICATION FairSpec
INVARIANTS MutualExclusion NoMissedWakeup NeverPanics
PROPERTY SleepersAreWoken
