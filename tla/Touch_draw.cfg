CONSTANTS
  NSlot = 2
  PanelSlots <- MCPanelSlots
  AxMax = 1
  PanelW = 4
  Batch = 3
  MaxQueue = 8
  MaxPackets = 4
  NoTouch = NoTouch
  R = 1
  Spots <- MCSpots
SPECIFICATION FairDrawSpec
INVARIANTS DrawnWhenHandled
PROPERTIES PictureSettles
CHECK_DEADLOCK FALSE
