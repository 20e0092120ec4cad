CONSTANTS
  p1 = p1
  p2 = p2
  Procs <- MCProcs
  MayRun <- MCMayRun
  Devices <- MCDevices
  MaxOther = 2
  None = None
SPECIFICATION FairSpec
INVARIANTS HalvesShown GatesPassed
PROPERTIES Tested PanelReturned
CHECK_DEADLOCK FALSE
