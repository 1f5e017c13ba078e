SPECIFICATION Spec
CONSTANTS
  Ids = {c1, c2}
  Leftover = {}
  MaxWorkers = 1
  Workers = {w1}
  Removers = {s1}
  Supported = {s1}
  MaxJobCount = 1
  MaxLost = 1
  MaxRetries = 1
  c1 = c1
  c2 = c2
  w1 = w1
  s1 = s1
  Monitor = Monitor
  NoId = NoId
  NoJob = NoJob
INVARIANTS
  ShutdownCleansUp
CHECK_DEADLOCK FALSE
