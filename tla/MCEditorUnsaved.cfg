SPECIFICATION Spec
CONSTANTS
  None = None
  Refused = Refused
  Done = Done
  note = note
  picture = picture
  data = data
  Start <- MCStart
  Detected <- MCDetected
  Texts = {0, 2}
  MayRefresh = FALSE
  MaxMoves = 3
  MaxFaults = 0
CHECK_DEADLOCK FALSE
INVARIANT UnsavedIsDirty
