CONSTANTS
  TxSize = 2
  ReadLen = 1
  SeqRange = 16
  Scenarios <- Transfer
  MaxSockets = 2
  NetSize = 2
SPECIFICATION FairSpec
CHECK_DEADLOCK FALSE
PROPERTIES
  WrittenIsRead
