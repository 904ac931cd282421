CONSTANTS
  Readers = {r1, r2}
  Bytes = {0, 1}
  Size = 4
  MaxWrite = 3
  MaxRead = 2
  t1 = t1
  t2 = t2
  nil = nil
SPECIFICATION SumSpec
INVARIANTS
  HeapIsWhole
  BlocksAreKept
  TreesAreRight
PROPERTIES
  IsABlockingFifo
CHECK_DEADLOCK FALSE
