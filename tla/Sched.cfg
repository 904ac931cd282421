CONSTANTS
  AnyCPU = AnyCPU
  Thread = {t1, t2}
  CPU = {c1, c2}
  WaitQ = {wq}
  HIGHEST_PRIORITY = 2
  DEFAULT_PRIORITY = 1
  QUANTUM = 1
  DYNAMIC_TIMER = TRUE
  CreateArgs <- Unpinned
  Priorities = {}
  Calls = {"wait", "timed_wait", "wake", "irq_wake", "exit"}
  q1 = q1
  q2 = q2
  c1 = c1
  c2 = c2
SPECIFICATION SumSpec
SYMMETRY Symmetry
INVARIANTS
  EveryThreadInItsPlace
  PreemptTimerFollowsThread
  NoIdleWhileReady
PROPERTIES
  TakesTheHighest
  PinnedAreScheduled
CHECK_DEADLOCK FALSE
