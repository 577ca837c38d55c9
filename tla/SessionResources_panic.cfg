SPECIFICATION Spec
CONSTANTS
  big = big
  small = small
  Torrent <- Both
  BlockBytes <- UnitBlocks
  PieceBytes <- LargePieces
  Quantum = 1
  MaxRequest = 4
  MaxPayload = 2
  MaxPieceBytes = 6
  MaxPieces = 2
  MaxHeld = 2
  MaxLocal = 2
INVARIANTS
  NoAdmissionPanic
