CONSTANTS
  CPU = {c1, c2}
  TimerT = {m1, m2}
  Wrap = 10
  Delays = {0, 3}
  Periods = {2}
  MaxLate = 1
  Racy = FALSE
  NULL = NULL
  t1 = t1
  t2 = t2
  w1 = w1
  r1 = r1
  r2 = r2
  g1 = g1
  n1 = n1
SPECIFICATION SumSpec
SYMMETRY Symmetry
INVARIANTS
  TimersFireInTime
  FiresOnlyWhenDue
  BuffersKeepOrder
  BufferHasOneHome
CHECK_DEADLOCK FALSE
