CONSTANTS
    Modulus = 8
    MaxSent = 2
    MaxTx = 2
    MaxReceive = 2
    MaxReorder = 2
    LossThreshold = 1
    Iss <- MCIss
    Script <- MCUpload2
    Closers <- MCBothClose
    Faults <- MCReceiverDrops
    NetMax = 2
    MaxFaults = 1
SPECIFICATION Spec
INVARIANTS
  AckedIsReceived
  LedgersSound
PROPERTIES
  StreamSpec
  FinishIsMutual
CHECK_DEADLOCK FALSE
