SPECIFICATION FairSpec
CONSTANTS
  c1 = c1
  c2 = c2
  c3 = c3
  tab = tab
  Calls = {c1, c2, c3}
  Tabs = {tab}
  TabOf <- OneTab
  MaxLosses = 2
CHECK_DEADLOCK FALSE
INVARIANTS
  TypeOK
  SingleFlight
  WaitsAreShared
  StoredIsNewest
PROPERTIES
  SecondTokenIsFresh
  CallsRecover
