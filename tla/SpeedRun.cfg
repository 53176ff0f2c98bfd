SPECIFICATION FairSpec
CONSTANTS
  ITERATION = 3
  QueueLength = 2
  MayUnplug = TRUE
INVARIANTS
  StampsBelongTogether
  NoInterruptInEnd
PROPERTIES
  TestEnds
CHECK_DEADLOCK FALSE
