SPECIFICATION EngineFairSpec
CONSTANTS
  Subjects = {compiler, problems}
  compiler = compiler
  problems = problems
  Jobs = {s1, s2, u1, m1}
  Supported = {s1, s2}
  Publishable <- MCPublishable
  Malformed = {m1}
  Undecodable = {}
  Prohibited = {}
  s1 = s1
  s2 = s2
  m1 = m1
  u1 = u1
  NoJob = NoJob
  ConfiguredWorkers = 1
INVARIANTS
  NothingInEngineBlocks
PROPERTIES
  TakenIsReplied
\* The process ends.
CHECK_DEADLOCK FALSE
