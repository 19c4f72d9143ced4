SPECIFICATION Spec
CONSTANTS
  Docs = {d1}
  Workers = {w1, w2}
  Reqs = {r1}
  LoopOf <- OneLoop
  Gens = {g1, g2, g3}
  Ops = {"file"}
  BadDocs = {}
  S3Backend = TRUE
  WithScheduler = TRUE
  RetryMax = 1
  Cooldown = TRUE
  MaxAge = 2
  ReapAges = {2}
  MaxFaults = 0
  NoDoc = NoDoc
  NoGen = NoGen
SYMMETRY Symmetry
CHECK_DEADLOCK FALSE
INVARIANTS
  FailureHasCause
