SPECIFICATION FairSpec
CONSTANTS
  None = None
  b1 = b1
  b2 = b2
  Batches <- MCBatches
  Items <- MCItems
  Workers = 2
  MaxTrouble = 1
CHECK_DEADLOCK FALSE
INVARIANTS TypeOK ReportIsAccurate
PROPERTIES ReplacesWithConsent BatchEnds
