CONSTANTS
  Modes <- AllModes
  Signals = {"KILL", "TERM"}
  MaxRuns = 2
SPECIFICATION FairSpec
INVARIANTS TypeOK WatchdogHeld StopUndoesAll
PROPERTIES RoundGivesBack FuseRescues PersistUndisturbed ThawedBeforeDisplay
CHECK_DEADLOCK FALSE
