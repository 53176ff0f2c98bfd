SPECIFICATION Spec
CONSTANTS
  ITERATION = 2
  QueueLength = 2
  MayUnplug = FALSE
INVARIANTS
  EveryValueMeasured
CHECK_DEADLOCK FALSE
