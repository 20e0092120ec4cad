CONSTANTS
  Modes <- OnlyRounds
  Signals = {"TERM"}
  MaxRuns = 1
SPECIFICATION Spec
INVARIANTS PanelFreeAtEnd
CHECK_DEADLOCK FALSE
