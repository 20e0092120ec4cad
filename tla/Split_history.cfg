CONSTANTS
  Entries <- FewEntries
  MaxEntries = 4
  MaxObjs = 8
  MaxCommits = 3
  Starts = {"probe", "plain"}
  MaxRelay = 3
SPECIFICATION RelaySpec
INVARIANTS NativePanel RelayedAsAsked FilterKeepsConsistent
CHECK_DEADLOCK FALSE
