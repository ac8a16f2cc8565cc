SPECIFICATION Spec
CONSTANTS
  ToolErrors = {terr}
  NoError = none
  MaxIterations = 2
  MaxCost = 3
  MaxRepairs = 1
  OscillationWindow = 4
  OscillationThreshold = 2
  NoProgressWindow = 3
  ToolFailureLimit = 2
  CycleLength = 2
  CheckpointEvery = 2
  Calls = {"cancel"}
  MaxEvents = 1
  MaxLoops = 2
  Goals <- AllGoals
  CallersWait = TRUE
  TurnCosts = {1}
CHECK_DEADLOCK FALSE
PROPERTIES
  CancelSticks
