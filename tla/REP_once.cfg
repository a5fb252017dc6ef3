CONSTANTS
  N = 4
  F = 1
  SIGMA = 3
  K = 1
  MAXINT = 100
  a = a
  b = b
  c = c
  Dummy = dummy
  ClientRequest <- OneRequest
  Value <- OneRequest
  ValueOf <- Identity
  Behaviour <- AllCorrect
  Forged = a
  Answers <- OnlyViewZero
  FirstAnswer <- InViewZero
  StartStates <- Pending
  MAX_QUEUE_SIZE = 0
  MaxMoves = 0
SPECIFICATION Spec
CONSTRAINTS
  LoopsApart
INVARIANTS
  ExecutedOnce
