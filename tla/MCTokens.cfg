SPECIFICATION FairSpec
CONSTANTS
  None = None
  Tabs = {t1}
  Calls = {c1, c2}
  MaxPairs = 3
  Choices = {FALSE}
  MaxTrouble = 2
CHECK_DEADLOCK FALSE
INVARIANTS TypeOK RotationIsLinear StoredIsUsable
PROPERTIES CallsDropOnlyStale NoCallWaitsForEver
