CONSTANTS
  TxSize = 2
  ReadLen = 1
  SeqRange = 16
  Scenarios <- Failures
  MaxSockets = 2
  NetSize = 2
SPECIFICATION Spec
CHECK_DEADLOCK FALSE
INVARIANTS
  StreamIsIntact
  AckedIsReceived
  RefsAreHolders
  NobodySleepsForNothing
