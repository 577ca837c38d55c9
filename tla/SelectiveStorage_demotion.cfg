SPECIFICATION Spec
CONSTANTS
  Piece = {1}
  File = {1, 2}
  Span <- OneShared
  MaxChanges = 2
  MaxDeaths = 0
INVARIANTS
  VerifiedIsReadable
