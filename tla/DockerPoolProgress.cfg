\* Nothing but what is named there holds up a goroutine: what the proofs of the
\* liveness properties take from TLC.
SPECIFICATION Spec
CONSTANTS
  Jobs = {s1, s2}
  Supported = {s1, s2}
  s1 = s1
  s2 = s2
  NoJob = NoJob
  ConfiguredWorkers = 2
INVARIANTS
  NothingElseBlocks
