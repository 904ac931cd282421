CONSTANTS
  Thread = {t1, t2, t3}
  Queue = {"e->wait"}
  Irq = {handler}
  Timeouts = {"zero", "finite", "infinite"}
  t1 = t1
  t2 = t2
  t3 = t3
  handler = handler
  c1 = c1
  wq = wq
  AnyCPU = AnyCPU
  NULL = NULL
SPECIFICATION FairSpec
PROPERTIES
  ImplementsAtomicEvent
  SignalReleasesAll
  WaiterGetsAPermit
  JoinOfTheDeadReturns
  ReadyThreadRuns
  TransferReturns
CHECK_DEADLOCK FALSE
