SPECIFICATION FairSpec
CONSTANTS
  content = content
  magnet = magnet
  None = None
  Torrent <- Both
  Metadata <- Fetching
  Limits <- Settings
  MaxOpenFiles = 26
  Slack = 1
INVARIANTS
  BudgetSound
  IncomingRetired
PROPERTIES
  NoNeedlessEviction
  DialTurnComes
