CONSTANTS
  StaticConfs = {TRUE, FALSE}
  MaxRuns = 1
  MaxRetries = 0
  None = None
SPECIFICATION Spec
INVARIANTS WifiReturned
CHECK_DEADLOCK FALSE
