CONSTANTS
  Entries <- FewEntries
  MaxEntries = 3
  MaxObjs = 8
  MaxCommits = 1
SPECIFICATION Spec
INVARIANTS NoOffCrtcInFlip
CHECK_DEADLOCK FALSE
