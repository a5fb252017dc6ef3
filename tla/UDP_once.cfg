CONSTANTS
  MaxMessages = 2
  MaxThreads = 1
SPECIFICATION Spec
CHECK_DEADLOCK FALSE
PROPERTIES
  HandedOverOnce
