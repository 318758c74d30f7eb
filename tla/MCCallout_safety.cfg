CONSTANTS
  t1 = t1
  t2 = t2
  w1 = w1
  w2 = w2
  k1 = k1
  k2 = k2
  i1 = i1
  i2 = i2
  Timer = {t1, t2}
  Worker = {w1, w2}
  Callout = {k1, k2}
  Id = {i1, i2}
  NoId = NoId
  NoCallout = NoCallout
  TimeMod = 10
  Buckets = 2
  MaxDelta = 2
  MaxLag = 0
SPECIFICATION Spec
SYMMETRY Symmetry
INVARIANTS NoneIsPassedOver DueHasExecutor UntimeoutIsFinal
