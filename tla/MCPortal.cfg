SPECIFICATION FairSpec
CONSTANTS
  None = None
  FolderNames = {"d"}
  FileNames = {"f", "g"}
  Depth = 2
  Start <- MCStart
  Opened <- MCOpened
  MaxMoves = 2
  MaxFaults = 1
CHECK_DEADLOCK FALSE
INVARIANTS TypeOK ViewsSettle ExpandedIsFetched
PROPERTY LoadingEnds
