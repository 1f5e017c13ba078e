SPECIFICATION CMFairSpec
CONSTANTS
  Ids = {c1, c2, c3}
  Leftover = {c1, c2}
  MaxWorkers = 1
  Workers = {w1, w2}
  Removers = {r1}
  c1 = c1
  c2 = c2
  c3 = c3
  w1 = w1
  w2 = w2
  r1 = r1
  Monitor = Monitor
  NoId = NoId
INVARIANTS
  RegistryBound
PROPERTIES
  ImplementsContainerLeases
  PoolRefills
  ErrorsLeaveOrHangs
CHECK_DEADLOCK FALSE
