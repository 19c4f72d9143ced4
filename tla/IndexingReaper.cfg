SPECIFICATION Spec
CONSTANTS
  Docs = {d1, d2}
  Workers = {w1}
  Reqs = {r1}
  LoopOf <- OneLoop
  Gens = {g1, g2, g3}
  Ops = {"text", "file"}
  BadDocs = {d2}
  S3Backend = FALSE
  WithScheduler = TRUE
  RetryMax = 1
  Cooldown = TRUE
  MaxAge = 2
  ReapAges = {2}
  MaxFaults = 2
  NoDoc = NoDoc
  NoGen = NoGen
SYMMETRY Symmetry
CHECK_DEADLOCK FALSE
INVARIANTS
  FailureHasCause
  PendingIsOwned
  StampsFitStatus
PROPERTIES
  ReaperSelectsAbandoned
