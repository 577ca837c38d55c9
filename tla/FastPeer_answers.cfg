SPECIFICATION FastSpec
CONSTANTS
  c1 = c1
  c2 = c2
  Conn = {c1, c2}
  FastConn = {c1}
  Piece <- TwoPieces
  BlockCount <- OneBlockEach
  LeafProofs = FALSE
  Demand <- SecondPiece
  MaxConns = 2
  MaxRequests = 1
  MaxOutstanding = 2
  MaxActivePieces = 2
  MaxActiveBlocks = 2
  MaxSpan = 4
  MaxPlanned = 1
  MaxTerminal = 2
  MaxAttempts = 2
  MaxGeneration = 1
  MaxRevision = 0
  NoConn = NoConn
  NoPiece = NoPiece
INVARIANTS
  AnswersCome
PROPERTIES
  OwedIsRemembered
