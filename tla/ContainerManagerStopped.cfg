SPECIFICATION CMDaemonSpec
CONSTANTS
  Ids = {c1, c2}
  Leftover = {}
  MaxWorkers = 1
  Workers = {w1}
  Removers = {r1}
  c1 = c1
  c2 = c2
  w1 = w1
  r1 = r1
  Monitor = Monitor
  NoId = NoId
PROPERTIES
  StoppedLeaves
CHECK_DEADLOCK FALSE
