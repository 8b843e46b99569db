SPECIFICATION FairSpec
CONSTANTS
  None = None
  Refused = Refused
  Done = Done
  note = note
  picture = picture
  data = data
  Start <- MCStart
  Detected <- MCDetected
  Texts = {0, 2}
  MayRefresh = TRUE
  MaxMoves = 3
  MaxFaults = 1
CHECK_DEADLOCK FALSE
INVARIANTS TypeOK BlobsAreOwned ShownIsOpened OneSavePerEditor ListingFollows
PROPERTY HandlersEnd
