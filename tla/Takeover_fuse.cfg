CONSTANTS
  Modes <- OnlyRounds
  Signals = {}
  MaxRuns = 2
SPECIFICATION Spec
INVARIANTS StoppedWhileRunning
CHECK_DEADLOCK FALSE
