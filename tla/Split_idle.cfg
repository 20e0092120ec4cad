CONSTANTS
  Entries <- FewEntries
  MaxEntries = 3
  MaxObjs = 8
  MaxCommits = 2
SPECIFICATION Spec
INVARIANTS DroppedAreNoops
CHECK_DEADLOCK FALSE
