CONSTANTS
  Keys = {k1, k2}
  NumBlocks = 3
  BlockSize = 6
  HeaderSize = 2
  ObjSize = 2
  MarkerSize = 1
  VersionRange = 65536
  MaxCalls = 7
  MaxFaults = 0
  Crashes = FALSE
  NULL = NULL
SPECIFICATION Spec
INVARIANT AllDataIsStored
CHECK_DEADLOCK FALSE
