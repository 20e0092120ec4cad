CONSTANTS
  NSlot = 2
  PanelSlots <- MCPanelSlots
  AxMax = 1
  PanelW = 2
  Batch = 3
  MaxQueue = 8
  MaxPackets = 4
  NoTouch = NoTouch
SPECIFICATION FairSpec
INVARIANTS TypeOK NoFingerLost
PROPERTIES LegalStream CatchesUp
CHECK_DEADLOCK FALSE
