\* Steering, follow-ups and continue(), one at a time; runs of up to one tool batch.
CONSTANTS
  Tools = {"a"}
  SequentialTools = {}
  ReplaySafeTools = {}
  ToolExecution = "parallel"
  SteeringAll = FALSE
  FollowUpAll = FALSE
  Extras <- NoExtras
  MaxMsgs = 3
  MaxTurns = 1
  MaxCalls = 1
  MaxConts = 1
  MaxThrows = 0
  MaxRestarts = 0
SPECIFICATION Spec
INVARIANTS
  DeliveredInOrder
  OneSteeringPerTurn
  

  
CHECK_DEADLOCK FALSE
