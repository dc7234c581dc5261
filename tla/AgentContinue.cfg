\* Listeners that throw, continue() calls that overlap runs, and aborts.
CONSTANTS
  Tools = {"a"}
  SequentialTools = {}
  ReplaySafeTools = {}
  ToolExecution = "parallel"
  SteeringAll = FALSE
  FollowUpAll = TRUE
  Extras <- MCExtras
  MaxMsgs = 2
  MaxTurns = 1
  MaxCalls = 1
  MaxConts = 2
  MaxThrows = 2
  MaxRestarts = 0
SPECIFICATION Spec
INVARIANTS
  Conservation
PROPERTIES
  AbortSettles
CHECK_DEADLOCK FALSE
