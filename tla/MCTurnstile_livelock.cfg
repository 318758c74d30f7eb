CONSTANTS
  T1 = T1
  T2 = T2
  T3 = T3
  T4 = T4
  A = A
  B = B
  C = C
  Thread = {T1, T2, T3, T4}
  Lock = {A, B, C}
  Handoff = {{A}}
  ChainOf <- MCChainOf
  Wants <- MCWants
  BasePri <- MCBasePri
  NoThread = NoThread
  NoLock = NoLock
SPECIFICATION SpinFairSpec
PROPERTY WalksEnd
