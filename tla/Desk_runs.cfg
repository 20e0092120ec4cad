CONSTANTS
  StaticConfs = {TRUE, FALSE}
  MaxRuns = 2
  MaxRetries = 2
  None = None
SPECIFICATION FairSpec
INVARIANTS StopReturns
PROPERTIES SuspendFirst DisplayReturns
CHECK_DEADLOCK FALSE
