SPECIFICATION UploadFairSpec
CONSTANTS
  Sessions = {s1, s2, s3}
  Size = 2
  MaxDrops = 2
  MaxStarts = 1
  Resumes = TRUE
  NoFile = NoFile
  NoSession = NoSession
CHECK_DEADLOCK FALSE
INVARIANTS UploadTypeOK WholeFiles
PROPERTIES AcknowledgedIsStored UploadEnds
