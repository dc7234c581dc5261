\* A session that is released before its first answer, opened again.
CONSTANTS
  p1 = p1
  p2 = p2
  s1 = s1
  s2 = s2
  s3 = s3
  Processes <- TwoProcesses
  Ids <- ThreeIds
  MaxActiveRuntimes = 2
  MaxCrashes = 0
  MaxFaults = 0
SYMMETRY Symmetric
SPECIFICATION Spec
INVARIANTS
  ListedReopens
CHECK_DEADLOCK FALSE
