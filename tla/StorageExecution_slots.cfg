SPECIFICATION SlotFairSpec
CONSTANTS
  j1 = j1
  j2 = j2
  j3 = j3
  Job <- Jobs
  TorrentOf <- Torrents
  RootOf <- Places
  Slots = 2
  None = None
INVARIANTS
  SlotsSound
  NoLostWakeup
PROPERTIES
  WaiterServed
