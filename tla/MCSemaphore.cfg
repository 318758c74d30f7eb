CONSTANTS
  t1 = t1
  t2 = t2
  t3 = t3
  Thread = {t1, t2, t3}
  Pri = {1, 2}
  EPri = {2}
  Count = 1
  MaxCount = 3
SPECIFICATION FairSpec
INVARIANTS QueueIsSleepers NoLostV
PROPERTIES PriorityThenFifo CountIsUsed
