CONSTANTS
  Modes <- OnlyPersist
  Signals = {"KILL"}
  MaxRuns = 1
SPECIFICATION Spec
PROPERTIES NeverUnderFrozen
CHECK_DEADLOCK FALSE
