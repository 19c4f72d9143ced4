SPECIFICATION Spec
CONSTANTS
  Sessions = {s1, s2}
  Meetings = {m1}
  Docs = {d1}
  Procs = {p1, p2}
  MaxFaults = 0
  None = None
SYMMETRY Symmetry
CHECK_DEADLOCK FALSE
INVARIANTS
  InvalidationIsComplete
