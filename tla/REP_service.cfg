CONSTANTS
  N = 2
  F = 0
  SIGMA = 2
  K = 1
  MAXINT = 100
  a = a
  b = b
  c = c
  Dummy = dummy
  ClientRequest <- AllRequests
  Value <- AllRequests
  ValueOf <- Identity
  Behaviour <- AllCorrect
  Forged = a
  Answers <- Troubled
  FirstAnswer <- InViewZero
  StartStates <- Established
  MAX_QUEUE_SIZE = 0
  MaxMoves = 2
SPECIFICATION FairSpec
CONSTRAINTS
  OneInChange
INVARIANTS
  TypeOK
  LogsAgree
  
PROPERTIES
  IsOneList
  LogsStayOrdered
  ListsStayFitting
  NumbersStayUnique
  RequestsServed
