SPECIFICATION AllSpec
CONSTANTS
  Clients = {c1, c2, c3}
  GoalIds = {g1}
  NoGoal = NoGoal
  NoRef = NoRef
  NoBlocker = NoBlocker
  Unlimited = Unlimited
  Keep = Keep
  BlockerCodes <- AnyBlocker
  Openings <- OneRound
  Edits <- Raises
  Usages <- OneUnit
  IdsAreFresh = TRUE
  MaxRevision = 6
  Tasks = {"t", "u"}
  Models = {"m", "n"}
  TaskBudget <- LimitOfT
  ModelBudget <- LimitOfM
  Prices = {3, 5}
  Ttl = 1
  MaxTime = 2
  MaxRequests = 2
  MaxDecisions = 3
  MaxCharged = 16
  Script <- Lines
  MaxLineLength = 4
  MaxStarts = 2
  MaxSends = 2
  MaxWaits = 2
  MaxCancels = 2
  MaxTokens = 2
  HttpClients = {"a", "b"}
  Authorized = {"a"}
  Burst = 1
  Refill = 1
  Share = 2
  Routes = {"options", "health", "sse", "rpc"}
  MaxBody = 1
  MaxClock = 2
  MaxAsked = 3
SYMMETRY ClientSymmetry
INVARIANTS
  OneWriterPerRevision
  RoundsBounded
  BlockerMatchesPhase
  OversightHolds
  ServersHold
PROPERTIES
  OverIsOver
  LogRebuilds
  StopEnds
