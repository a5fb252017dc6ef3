CONSTANTS
  N = 2
  F = 0
  Behaviour <- AllCorrect
  StartStates <- Boot
  MAX_QUEUE_SIZE = 0
  MaxViewChanges = 0
  MaxFlushes = 0
  MaxInFlight = 2
SPECIFICATION FairSpec
PROPERTIES
  Convergence
