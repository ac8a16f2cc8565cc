SPECIFICATION FairSpec
CONSTANTS
  ToolErrors = {}
  NoError = none
  MaxIterations = 2
  MaxCost = 3
  MaxRepairs = 1
  OscillationWindow = 4
  OscillationThreshold = 2
  NoProgressWindow = 3
  ToolFailureLimit = 2
  CycleLength = 2
  CheckpointEvery = 2
  Calls = {"pause", "resume"}
  MaxEvents = 2
  MaxLoops = 2
  Goals <- ShortGoal
  CallersWait = TRUE
  TurnCosts = {1}
CHECK_DEADLOCK FALSE
PROPERTIES
  RunningEnds
