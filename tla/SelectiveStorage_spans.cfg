SPECIFICATION FairSpec
CONSTANTS
  Piece = {1, 2}
  File = {1, 2}
  Span <- TwoFiles
  MaxChanges = 2
  MaxDeaths = 1
INVARIANTS
  CommittedIsReadable
  RoutesSound
PROPERTIES
  SelectionSettles
