SPECIFICATION Spec
CONSTANTS
  RC_MAX_CHANNELS = 2
  RC_MIN = 480
  RC_MAX = 2200
  Period = 24000
  UINT16_MAX = 65535
  Frame = 20000
  Settings <- MCOnly
INVARIANTS
  ResultIsAPulse
