CONSTANTS
  Modes <- OnlyPersist
  Signals = {}
  MaxRuns = 1
SPECIFICATION Spec
INVARIANTS TimeoutRestored
CHECK_DEADLOCK FALSE
