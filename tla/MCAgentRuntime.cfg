SPECIFICATION FairSpec
CONSTANTS
  ToolErrors = {terr}
  NoError = none
  MaxIterations = 3
  MaxCost = 4
  MaxRepairs = 1
  OscillationWindow = 4
  OscillationThreshold = 2
  NoProgressWindow = 3
  ToolFailureLimit = 2
  CycleLength = 2
  CheckpointEvery = 2
  Calls = {"pause", "resume", "restore", "cancel", "signal", "deadline"}
  MaxEvents = 2
  MaxLoops = 2
  Goals <- AllGoals
  CallersWait = TRUE
  TurnCosts = {0}
CHECK_DEADLOCK FALSE
INVARIANTS
  DoneIsVerified
  NothingRefused
  RepairsBounded
  AbortedIsNotRunning
PROPERTIES
  EveryLoopReturns
