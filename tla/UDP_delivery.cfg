CONSTANTS
  MaxMessages = 1
  MaxThreads = 2
SPECIFICATION FairSpec
CHECK_DEADLOCK FALSE
PROPERTIES
  EventuallyDelivered
