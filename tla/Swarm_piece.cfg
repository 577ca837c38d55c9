SPECIFICATION Spec
CONSTANTS
  c1 = c1
  c2 = c2
  Conn = {c1, c2}
  FastConn = {c1}
  Piece <- OnePiece
  BlockCount <- TwoBlocksEach
  LeafProofs = TRUE
  Demand <- OnePiece
  MaxConns = 2
  MaxRequests = 2
  MaxOutstanding = 2
  MaxActivePieces = 1
  MaxActiveBlocks = 2
  MaxSpan = 4
  MaxPlanned = 1
  MaxTerminal = 1
  MaxAttempts = 3
  MaxGeneration = 2
  MaxRevision = 1
  NoConn = NoConn
  NoPiece = NoPiece
INVARIANTS
  IndexesExact
  AccountsHold
  StorageJoinSound
  RequestOwnership
  EvidenceRetained
  HaveIsGood
PROPERTIES
  ReleaseIsLocal
  ReceivedIsStable
