SPECIFICATION Spec
CONSTANTS
  None = None
  FolderNames = {"d"}
  FileNames = {"f"}
  Depth = 1
  Start <- MCStart
  Opened <- MCOpened
  MaxMoves = 1
  MaxFaults = 1
CHECK_DEADLOCK FALSE
PROPERTY FetchesOnRefresh
