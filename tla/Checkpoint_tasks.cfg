SPECIFICATION FairSpec
CONSTANTS
  f1 = f1
  f2 = f2
  Piece <- Pieces
  Target <- Files
  TargetsOf <- Spans
  Length <- Sizes
  Unit = 2
  MaxDirty = 4
  MaxPieces = 3
  Capacity = 3
  SyncConcurrency = 2
  MaxCrashes = 2
  NoPiece = NoPiece
INVARIANTS
  DurableIsSynced
  PermitsSound
  DirtyBounded
  CleanStopCommits
PROPERTIES
  CheckpointMoves
