SPECIFICATION MCSpec
CONSTANTS
  Requests = {r1, r2}
  Inputs <- SameFile
  Initial <- MCInitial
  NoOne = NoOne
  MayCrash = FALSE
  Large = 100
  docs = docs  readme = readme  photo = photo  other = other  music = music  t0 = t0  v0 = v0  v1 = v1
  cx = cx  cx0 = cx0  cy = cy  cf = cf  cf0 = cf0
  Contents <- MCContents
  Refs <- MCRefs
  Nodes <- MCNodes
  DIR = DIR
  NoPath = NoPath
  NoSum = NoSum
  TRASH = TRASH
  VERSIONS = VERSIONS
  Segments <- MCSegments
  Like <- ExactLike
INVARIANTS RowsHaveBytes
