CONSTANTS
  p1 = p1
  p2 = p2
  Procs <- MCProcs
  MayRun <- MCMayRun
  Devices <- MCDevices
  MaxOther = 2
  None = None
SPECIFICATION Spec
INVARIANT BisectBlamesRequest
CHECK_DEADLOCK FALSE
