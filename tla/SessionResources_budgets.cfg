SPECIFICATION FairSpec
CONSTANTS
  big = big
  small = small
  Torrent <- Both
  BlockBytes <- Blocks
  PieceBytes <- Pieces
  Quantum = 2
  MaxRequest = 2
  MaxPayload = 2
  MaxPieceBytes = 3
  MaxPieces = 2
  MaxHeld = 1
  MaxLocal = 1
INVARIANTS
  BudgetsSound
  AdmissionSound
PROPERTIES
  ReadyIsServed
