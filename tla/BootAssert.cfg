SPECIFICATION BootSpec
CONSTANTS
  Boards = {"am57xx"}
  MaxOff = 0
  MaxFailures = 0
INVARIANTS
  AssertionsHold
