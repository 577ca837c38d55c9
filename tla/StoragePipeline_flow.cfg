SPECIFICATION FairSpec
CONSTANTS
  p1 = p1
  p2 = p2
  p3 = p3
  Piece <- Three
  Candidate <- LastTwo
  Blocks = 2
  HashRange = 2
  Limit = 2
  High = 2
  Writers = 1
  Hashers = 1
  Batch = 2
  MayFail = TRUE
INVARIANTS
  PipelineSound
  HashSeesWrites
  NoIntakeOverflow
PROPERTIES
  QueuesMove
CHECK_DEADLOCK FALSE
