SPECIFICATION Spec
CONSTANTS
  None = None
  b1 = b1
  b2 = b2
  Batches <- MCBatches
  Items <- MCItems
  Workers = 2
  MaxTrouble = 0
CHECK_DEADLOCK FALSE
INVARIANT AllDecides
