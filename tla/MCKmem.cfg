CONSTANTS
  c1 = c1
  c2 = c2
  k1 = k1
  k2 = k2
  s1 = s1
  s2 = s2
  Client = {c1, c2}
  CPU = {k1, k2}
  Slab = {s1, s2}
  Chunks <- MCChunks
  MagSizes <- MCMagSizes
  MaxHeld = 1
  NoBuf = NoBuf
  NoMag = NoMag
SPECIFICATION Spec
SYMMETRY Symmetry
INVARIANTS
  BuffersConserved
  MagazinesFit
  DestroyLeavesNothing
