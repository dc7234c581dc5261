\* Two calls or leases at a time, two connections, a removal and an error.
CONSTANTS
  l1 = l1
  l2 = l2
  Slots <- TwoLeases
  MaxConnections = 2
  MaxChanges = 2
  MaxRemovals = 1
  MaxErrors = 1
SYMMETRY Symmetric
SPECIFICATION LinkSpec
INVARIANTS
  ExclusiveIsAlone
  LastReleaseDetaches
  
  NobodyWaitsInVain
CHECK_DEADLOCK FALSE
