SPECIFICATION Spec
CONSTANTS
  Jobs = {s1, u1, u2, u3, u4}
  Supported = {s1}
  s1 = s1
  u1 = u1
  u2 = u2
  u3 = u3
  u4 = u4
  NoJob = NoJob
  ConfiguredWorkers = 1
SYMMETRY JobSymmetry
INVARIANTS
  CountedOnce
PROPERTIES
  NothingStartsAfterShutdown
  ImplementsJobService
