SPECIFICATION FairSpec
CONSTANTS
  Jobs = {j1, j2}
  j1 = j1
  j2 = j2
  ConfiguredWorkers = 2
  QueueCapacity = 1
  Leftovers = {"absent", "stale"}
  InitPath = InitPath
  OtherPaths = {OtherPath}
  OtherPath = OtherPath
  NoJob = NoJob
INVARIANTS
  OwnMachine
  FoundSocketStays
  NoMachineOutlivesItsJob
PROPERTIES
  ImplementsJobService
  AcceptedIsAnsweredOrHangs
  TakenIsAnsweredOrHangs
  ShutdownCompletesOrHangs
\* The process ends when Initialize fails.
CHECK_DEADLOCK FALSE
