SPECIFICATION FairSpec
CONSTANTS
  Count <- MCCount
  Capacity <- MCCapacity
  MaxLag = 3
INVARIANTS
  NoError
PROPERTIES
  TestFinishes
CHECK_DEADLOCK FALSE
