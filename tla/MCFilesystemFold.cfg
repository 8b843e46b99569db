SPECIFICATION Spec
CONSTANTS
  Names = {a, b}
  Contents = {c1, c2}
  TrashIds = {t1, t2}
  Refs = {v1, v2}
  Nodes = {n1, n2, n3}
  DIR = DIR
  NoPath = NoPath
  NoSum = NoSum
  TRASH = TRASH
  VERSIONS = VERSIONS
  MaxDepth = 3
  MaxRows = 3
  MaxVersions = 2
  Segments <- MCSegments
  Like <- FoldedLike
INVARIANT DiskMatches
