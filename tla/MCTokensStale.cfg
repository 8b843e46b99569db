SPECIFICATION Spec
CONSTANTS
  None = None
  Tabs = {t1}
  Calls = {c1}
  Choices = {TRUE}
  MaxPairs = 2
  MaxTrouble = 0
CHECK_DEADLOCK FALSE
PROPERTY DropsOnlyStale
