CONSTANTS
  Thread = {t1, t2, t3}
  Queue = {"sem->wait"}
  Timeouts = {"zero", "finite"}
  InitialValues = {0, 1, 2}
  MaxPermits = 3
  s1 = s1
  b1 = b1
  b2 = b2
  NULL = NULL
SPECIFICATION SumSpec
INVARIANTS
  DescriptorsAddUp
  BuffersAddUp
  NoCompletionIsMissed
PROPERTIES
  ImplementsCountingSemaphore
CHECK_DEADLOCK FALSE
