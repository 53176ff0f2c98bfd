SPECIFICATION FairSpec
CONSTANTS
  Blocks = 2
  Contents = {zero, x42, other}
  Fill = x42
  Zero = zero
  Addresses = {7, 9}
  zero = zero
  x42 = x42
  other = other
INVARIANTS
  ContentKept
  NeverOwnFault
PROPERTIES
  TestEnds
