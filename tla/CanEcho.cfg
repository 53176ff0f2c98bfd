SPECIFICATION FairSpec
CONSTANTS
  QueueLength = 2
  TxLength = 2
  Errors <- BusErrors
  MaxFrames = 4
  MaxErrors = 3
INVARIANTS
  ReportComplete
  PrintedInOrder
  EchoedInOrder
PROPERTIES
  ErrorsReported
CHECK_DEADLOCK FALSE
