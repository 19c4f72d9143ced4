SPECIFICATION Spec
CONSTANTS
  Docs = {d1, d2}
  Gens = {g1, g2}
  NoGen = NoGen
  Reqs = {r1}
  TopK = 2
  MaxVerifyChunks = 2
  MaxCitations = 1
  Alien = Alien
  MaxFaults = 1
SYMMETRY Symmetry
CHECK_DEADLOCK FALSE
INVARIANTS
  TypeOK
  Grounded
  ReadyNotDenied
  ResponsesLogged
  FeedbackOnChats
PROPERTIES
  RetryAccounted
  DeniedWhenEmpty
