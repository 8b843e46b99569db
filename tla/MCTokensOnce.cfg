SPECIFICATION Spec
CONSTANTS
  None = None
  Tabs = {t1, t2}
  Calls = {c1}
  MaxPairs = 3
  Choices = {TRUE}
  MaxTrouble = 1
CHECK_DEADLOCK FALSE
INVARIANT RedeemedOnce
