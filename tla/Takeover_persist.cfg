CONSTANTS
  Modes <- OnlyPersist
  Signals = {}
  MaxRuns = 1
SPECIFICATION Spec
INVARIANTS RestoredAfterFailure
CHECK_DEADLOCK FALSE
