CONSTANTS
  N = 4
  F = 1
  BEAT_THRESHOLD = 2
  CNT_THRESHOLD = 1
  Silent = {0, 3}
  Answers <- OnlyViewZero
  StartDetectors <- Boot
  MAX_QUEUE_SIZE = 0
  MaxMoves = 0
  MaxRepeats = 0
SPECIFICATION FairSpec
PROPERTIES
  SilentPrimaryVotedOut
