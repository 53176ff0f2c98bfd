SPECIFICATION FairSpec
CONSTANTS
  LC_BUFFER_SIZE = 2
  MaxMessages = 4
  MaxResets = 1
PROPERTIES
  ServesPings
  ShutdownIsFinal
  MessagesTaken
CHECK_DEADLOCK FALSE
