CONSTANTS
  N = 2
  F = 0
  Behaviour <- AllCorrect
  StartStates <- InService
  MAX_QUEUE_SIZE = 0
  MaxViewChanges = 2
  MaxFlushes = 1
  MaxInFlight = 2
SPECIFICATION FairSpec
CONSTRAINTS
  ResetsApart
INVARIANTS
  TypeOK
  NoticedIsHeld
PROPERTIES
  LegitForever
  ViewIsStable
  
