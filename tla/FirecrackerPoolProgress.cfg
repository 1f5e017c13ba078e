\* Nothing but what is named there holds up a goroutine: what the proofs of the
\* liveness properties take from TLC.
SPECIFICATION Spec
CONSTANTS
  Jobs = {j1, j2}
  j1 = j1
  j2 = j2
  ConfiguredWorkers = 2
  QueueCapacity = 1
  Leftovers = {"absent", "stale"}
  InitPath = InitPath
  OtherPaths = {OtherPath}
  OtherPath = OtherPath
  NoJob = NoJob
SYMMETRY JobSymmetry
INVARIANTS
  NothingElseBlocks
CHECK_DEADLOCK FALSE
