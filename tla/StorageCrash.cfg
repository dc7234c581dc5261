\* Crashes and file errors at any point of three operations and of the loads
\* after them.
CONSTANTS
  x = x
  y = y
  z = z
  Ids = {x}
  Lanes = {"main", "side"}
  Labels = {"t"}
  MaxLog = 3
  MaxErrors = 1
  MaxCrashes = 2
SPECIFICATION Spec
INVARIANTS
  NeverRefused
  FileIsLog
PROPERTIES
  LoadKeepsPromises
  LoadSettles
CHECK_DEADLOCK FALSE
