\* A batch of up to two calls, parallel or sequential; restarts and resumes.
CONSTANTS
  Tools = {"a", "b"}
  SequentialTools = {"b"}
  ReplaySafeTools = {"a"}
  ToolExecution = "parallel"
  SteeringAll = FALSE
  FollowUpAll = FALSE
  Extras <- NoExtras
  MaxMsgs = 1
  MaxTurns = 1
  MaxCalls = 2
  MaxConts = 0
  MaxThrows = 1
  MaxRestarts = 2
SPECIFICATION Spec
INVARIANTS
  AnsweredAtRequest
  ResultsInCallOrder
  NoToolOutlivesRun
  ExecutedAtMostOnce
PROPERTIES
  AnsweredNeverRerun
CHECK_DEADLOCK FALSE
