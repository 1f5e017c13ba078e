SPECIFICATION Spec
CONSTANTS
  Jobs = {j1, j2}
  j1 = j1
  j2 = j2
  ConfiguredWorkers = 2
  QueueCapacity = 1
  Leftovers = {"absent"}
  InitPath = InitPath
  OtherPaths = {OtherPath}
  OtherPath = OtherPath
  NoJob = NoJob
SYMMETRY JobSymmetry
INVARIANTS
  NewPathAfterRestore
CHECK_DEADLOCK FALSE
