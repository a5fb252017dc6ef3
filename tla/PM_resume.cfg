CONSTANTS
  N = 4
  F = 1
  BEAT_THRESHOLD = 1
  CNT_THRESHOLD = 1
  Silent = {0}
  Answers <- OnlyViewOne
  StartDetectors <- LeftViewZero
  MAX_QUEUE_SIZE = 0
  MaxMoves = 0
  MaxRepeats = 0
SPECIFICATION FairSpec
CONSTRAINTS
  OneByOne
  InStages
PROPERTIES
  ServiceResumes
