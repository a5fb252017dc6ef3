CONSTANTS
  N = 4
  F = 1
  BEAT_THRESHOLD = 1
  CNT_THRESHOLD = 1
  Silent = {0, 3}
  Answers <- TwoViews
  StartDetectors <- Boot
  MAX_QUEUE_SIZE = 0
  MaxMoves = 1
  MaxRepeats = 1
SPECIFICATION Spec
CONSTRAINT OneDisturbance
INVARIANTS
  TypeOK
PROPERTIES
  ServiceStopsFirst
  FewSuspectInVain
