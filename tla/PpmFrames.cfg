SPECIFICATION FairSpec
CONSTANTS
  Slots = 10
  SlotTimes <- MCTables
  Modulus <- MCModulus
  WakeJitter <- MCJitter
  MaxLate <- MCMaxLate
  ArmMayFail = TRUE
INVARIANTS
  OneDriver
  IInv
  SumAccountsForFrame
  DataInRange
  TaskAlwaysRestarts
PROPERTIES
  SignalOnPin
  FramesRecur
CHECK_DEADLOCK FALSE
