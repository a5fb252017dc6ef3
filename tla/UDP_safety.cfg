CONSTANTS
  MaxMessages = 2
  MaxThreads = 2
SPECIFICATION Spec
CHECK_DEADLOCK FALSE
INVARIANTS
  TypeOK
  NothingSkipped
PROPERTIES
  IsOrdered
