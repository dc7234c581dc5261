\* Forks of every session of up to three operations, with a crash.
CONSTANTS
  x = x
  y = y
  z = z
  Ids <- MCIds
  Lanes = {"main", "side"}
  Labels = {"t"}
  MaxLog = 3
  MaxErrors = 0
  MaxCrashes = 1
SYMMETRY IdSymmetry
SPECIFICATION ForkSpec
INVARIANTS
  ForkIsAtomic
  TreeForkIsCopy
  BranchForkIsPath
PROPERTIES
  ImplementsSessionLog
CHECK_DEADLOCK FALSE
