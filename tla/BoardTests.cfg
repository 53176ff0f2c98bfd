SPECIFICATION TestSpec
CONSTANTS
  Boards <- MCBoards
  MaxOff = 1
  MaxFailures = 1
  Places <- MCPlaces
  Offsets <- MCOffsets
  Faults <- MCBoth
  AdcValues <- MCAdc
  Pairs <- MCPairs
  Depth = 2
  ToolIds <- MCToolIds
  ToolFrames = 2
  Capacity = 2
  Aheads <- MCAheads
  Words = 8
  Phys = 2
  MaxAsked = 6
  Args <- MCArgs
  MaxWait = 8
INVARIANTS
  TestsKeepApart
  UsesWhatExists
  RampInv
  NoFalseAlarm
  OnlyColourLit
  PairsPass
  EchoCorrect
  AnswersMatch
  ResetAnswered
PROPERTIES
  FaultFound
  ColoursComeBack
  EchoComesBack
CHECK_DEADLOCK FALSE
