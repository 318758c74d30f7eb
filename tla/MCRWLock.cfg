CONSTANTS
  t1 = t1
  t2 = t2
  t3 = t3
  Thread = {t1, t2, t3}
  Pri = {1, 2}
  NoThread = NoThread
  DeadLock = DeadLock
SPECIFICATION FairSpec
INVARIANTS WordMatchesHolders BitsMatchWaiters KpriBalanced
PROPERTIES ImplementsRWAbstract WriterPriorityPolicy NoStarvation
