SPECIFICATION Spec
CONSTANTS
  Docs = {d1}
  Workers = {w1, w2}
  Reqs = {r1, r2}
  LoopOf <- OneLoop
  Gens = {g1, g2, g3}
  Ops = {"text", "reindex"}
  BadDocs = {}
  S3Backend = FALSE
  WithScheduler = TRUE
  RetryMax = 1
  Cooldown = FALSE
  MaxAge = 0
  ReapAges = {0}
  MaxFaults = 1
  NoDoc = NoDoc
  NoGen = NoGen
SYMMETRY Symmetry
CHECK_DEADLOCK FALSE
INVARIANTS
  TypeOK
  LatestChunksKept
  OneRunPerDoc
  NoStaleChunks
  CopiesBounded
PROPERTIES
  SearchableNeverLost
  KeepsPromise
