SPECIFICATION FairSpec
CONSTANTS
  Ids = {c1}
  Leftover = {}
  MaxWorkers = 1
  Workers = {w1}
  Removers = {s1, u1}
  Supported = {s1}
  MaxJobCount = 1
  MaxLost = 1
  MaxRetries = 2
  c1 = c1
  w1 = w1
  s1 = s1
  u1 = u1
  Monitor = Monitor
  NoId = NoId
  NoJob = NoJob
INVARIANTS
  NothingElseBlocks
PROPERTIES
  TakenIsAnsweredOrHangs
  AcceptedIsAnswered
CHECK_DEADLOCK FALSE
