SPECIFICATION Spec
CONSTANTS
  Ids = {c1, c2}
  Leftover = {}
  MaxWorkers = 2
  Workers = {w1, w2}
  Removers = {s1, s2}
  Supported = {s1, s2}
  MaxJobCount = 1
  MaxLost = 0
  MaxRetries = 1
  c1 = c1
  c2 = c2
  w1 = w1
  w2 = w2
  s1 = s1
  s2 = s2
  Monitor = Monitor
  NoId = NoId
  NoJob = NoJob
SYMMETRY PoolSymmetry
CONSTRAINTS FewLost CallsLeft FewRemovals
ACTION_CONSTRAINT StaysUp
INVARIANTS
  SuccessIsOwn
  ExecutionsApart
CHECK_DEADLOCK FALSE
