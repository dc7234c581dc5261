\* Two connections, two commands in flight, two runtimes; the server may close.
CONSTANTS
  c1 = c1
  c2 = c2
  t1 = t1
  t2 = t2
  Conns <- TwoConns
  Tasks <- TwoTasks
  MaxRuntimes = 2
  MaxEvents = 2
  MaxRemoves = 0
  MayClose = TRUE
SYMMETRY Symmetric
SPECIFICATION Spec
INVARIANTS
  DisposedOnceUnused
  NoIdleLeak
  ClosedHoldsNothing
PROPERTIES
  AttachIsFresh
CHECK_DEADLOCK FALSE
