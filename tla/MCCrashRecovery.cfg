SPECIFICATION AllSpec
CONSTANTS
  delete = delete
  run = run
  Actions <- BothActions
  Irreversible <- OnlyDelete
  NoEntry = NoEntry
  MaxCrashes = 3
  MaxReviews = 2
  Providers <- Two
  Rank <- RankOf
  Descriptor <- Descriptors
  Deterministic = TRUE
  Dual <- DualConfig
  ContextSize = 1
  MaxCost = 100000
  CallCosts <- Costs
  Fallbacks <- OneFallback
  CallErrors <- Errs
  MaxTurns = 1
  EarlierCosts <- Earlier
  Phases <- SomePhases
  MaxChanges = 1
  MaxRetries = 1
  InitialBackoff = 2
  MaxBackoff = 3
  Graphs <- SomeGraphs
  ParentTools <- ToolsOfParent
  Registered = {}
  Depth = 0
  MaxDepth = 3
CHECK_DEADLOCK FALSE
INVARIANTS
  NoSilentRepeat
  EscalatedUntilReviewed
  RoutingHolds
  GraphRunsInOrder
PROPERTIES
  FinishedIsFinal
  EveryActionSettles
  CallKeepsItsPromise
  TurnsAndGraphsEnd
