SPECIFICATION Spec
CONSTANTS
  Jobs = {s1}
  Supported = {s1}
  s1 = s1
  NoJob = NoJob
  ConfiguredWorkers = 1
INVARIANTS
  RequestDestroysItsContainer
