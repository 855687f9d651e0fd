SPECIFICATION Spec
CONSTANTS
  Keys = {k1, k2, k3, k4}
  Bytes = {r1}
  TTLs = {0, 1}
  Config <- MCConfig
  MaxTime = 4
  MaxLookups = 2
SYMMETRY MCSymmetry
PROPERTY
  EvictsLeastRecentlyUsed
