\* removeSession at any point, over three runtimes.
CONSTANTS
  c1 = c1
  c2 = c2
  t1 = t1
  t2 = t2
  Conns = {c1}
  Tasks <- TwoTasks
  MaxRuntimes = 3
  MaxEvents = 0
  MaxRemoves = 1
  MayClose = TRUE
SPECIFICATION FairSpec
INVARIANTS
  ExclusiveRuntime
PROPERTIES
  CommandsSettle
  CloseSettles
CHECK_DEADLOCK FALSE
