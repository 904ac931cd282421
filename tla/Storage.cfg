CONSTANTS
  k1 = k1
  k2 = k2
  f1 = f1
  f2 = f2
  dir1 = dir1
  b1 = b1
  b2 = b2
  n1 = n1
  n2 = n2
  n3 = n3
  zero = zero
  one = one
  NULL = NULL
SPECIFICATION Spec
SYMMETRY Symmetry
INVARIANTS
  LastWriteIsRead
  SurvivesACrash
  SpaceAddsUp
