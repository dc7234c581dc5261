\* Two processes contend for a root of three sessions; three times one dies.
CONSTANTS
  p1 = p1
  p2 = p2
  s1 = s1
  s2 = s2
  s3 = s3
  Processes <- TwoProcesses
  Ids <- ThreeIds
  MaxActiveRuntimes = 2
  MaxCrashes = 3
  MaxFaults = 2
SYMMETRY Symmetric
SPECIFICATION Spec
INVARIANTS
  WorksUnderLock
  NothingLeaks
PROPERTIES
  CommittedForever
CHECK_DEADLOCK FALSE
