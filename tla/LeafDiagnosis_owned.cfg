SPECIFICATION FairSpec
CONSTANTS
  p1 = p1
  p2 = p2
  b1 = b1
  b2 = b2
  Piece = {p1, p2}
  Block = {b1, b2}
  MaxGeneration = 3
  NoPiece = NoPiece
INVARIANTS
  FailedPieceOwned
  FreshLeavesExact
PROPERTIES
  DiagnosisEnds
