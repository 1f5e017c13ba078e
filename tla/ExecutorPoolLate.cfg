SPECIFICATION Spec
CONSTANTS
  Ids = {c1, c2}
  Leftover = {}
  MaxWorkers = 1
  Workers = {w1}
  Removers = {s1, s2}
  Supported = {s1, s2}
  MaxJobCount = 1
  MaxLost = 1
  MaxRetries = 1
  c1 = c1
  c2 = c2
  w1 = w1
  s1 = s1
  s2 = s2
  Monitor = Monitor
  NoId = NoId
  NoJob = NoJob
INVARIANTS
  RemovalSparesOthers
CHECK_DEADLOCK FALSE
