SPECIFICATION FairSpec
CONSTANTS
  Jobs = {s1, s2}
  Supported = {s1, s2}
  s1 = s1
  s2 = s2
  NoJob = NoJob
  ConfiguredWorkers = 2
INVARIANTS
  JobConservation
  ContainerOfItsJob
PROPERTIES
  AcceptedIsAnswered
  TakenIsAnswered
  ShutdownCompletes
