CONSTANTS
  Entries <- AllEntries
  MaxEntries = 5
  MaxObjs = 5
  MaxCommits = 1
SPECIFICATION Spec
INVARIANTS HalvesDrivePanel PanelTakesOver
PROPERTIES RetryKeepsPanel
CHECK_DEADLOCK FALSE
