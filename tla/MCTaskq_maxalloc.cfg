CONSTANTS
  w1 = w1
  w2 = w2
  c1 = c1
  c2 = c2
  Nobody = Nobody
  Worker = {w1, w2}
  Client = {c1, c2}
  MinAlloc = 1
  MaxAlloc = 2
  Prepopulate = TRUE
  KMFlags = {"NOSLEEP"}
  MaxTask = 3
SPECIFICATION Spec
SYMMETRY Symmetry
INVARIANT NoSleepKeepsMaxalloc
