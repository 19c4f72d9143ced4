SPECIFICATION Spec
CONSTANTS
  Ops = {"create", "upload"}
  Ips = {"i1"}
  Sessions = {"s1", "s2"}
  Nobody = "nobody"
  IpLimit <- MCIpLimit
  SessionLimit <- MCSessionLimit
  Window = 2
  MaxTime = 4
  MaxCalls = 4
  Slots = {p1, p2}
  Owners = {o1}
  Docs = {d1, d2, d3}
  NoDoc = NoDoc
  p1 = p1
  p2 = p2
  o1 = o1
  d1 = d1
  d2 = d2
  d3 = d3
  PerDay <- MCPerDay
  MaxActive = 1
  MaxFiles = 2
  MaxFaults = 1
SYMMETRY Symmetry
CHECK_DEADLOCK FALSE
INVARIANTS WindowTypeOK WindowBound QuotaTypeOK DailyQuotas QueueCapacity StrandedBounded
PROPERTY IsSlidingLog
