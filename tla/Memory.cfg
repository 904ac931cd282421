CONSTANTS
  Thread = {m1, m2, m3}
  Queue = {m1, m2, m3}
  Main = m1
  Timeouts = {"zero", "finite", "infinite"}
  Shared = FALSE
  SMP = FALSE
  t1 = t1
  t2 = t2
  u1 = u1
  u2 = u2
  c1 = c1
  c2 = c2
  kernel = kernel
  NULL = NULL
SPECIFICATION SumSpec
SYMMETRY Symmetry
INVARIANTS
  TheDeadAreReapedOnce
  PageHasOneHome
  MapsFollowRegions
  TlbIsCurrent
  RoomIsFound
CHECK_DEADLOCK FALSE
