SPECIFICATION Spec
CONSTANTS
  w1 = w1
  w2 = w2
  r1 = r1
  r2 = r2
  k1 = k1
  k2 = k2
  Writer = {w1}
  Reader = {r1}
  Key = {k1, k2}
  PreferPrimary = TRUE
  Writes = 3
SYMMETRY Interchangeable
INVARIANTS
  ReadSeesAck
  WritesAreKept
