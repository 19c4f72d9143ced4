SPECIFICATION FairSpec
CONSTANTS
  Docs = {d1, d2}
  Workers = {w1}
  Reqs = {r1}
  LoopOf <- OneLoop
  Gens = {g1, g2, g3}
  Ops = {"text"}
  BadDocs = {d2}
  S3Backend = FALSE
  WithScheduler = TRUE
  RetryMax = 1
  Cooldown = TRUE
  MaxAge = 2
  ReapAges = {2}
  MaxFaults = 1
  NoDoc = NoDoc
  NoGen = NoGen
CHECK_DEADLOCK FALSE
PROPERTIES
  ProcessingEnds
  QueuedIsPickedUp
