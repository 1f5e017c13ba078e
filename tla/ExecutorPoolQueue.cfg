SPECIFICATION Spec
CONSTANTS
  Ids = {c1}
  Leftover = {}
  MaxWorkers = 2
  Workers = {w1, w2}
  Removers = {u1, u2, u3}
  Supported = {}
  MaxJobCount = 2
  MaxLost = 0
  MaxRetries = 1
  c1 = c1
  w1 = w1
  w2 = w2
  u1 = u1
  u2 = u2
  u3 = u3
  Monitor = Monitor
  NoId = NoId
  NoJob = NoJob
CONSTRAINT FewLost
PROPERTIES
  ImplementsJobService
CHECK_DEADLOCK FALSE
