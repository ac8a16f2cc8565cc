SPECIFICATION AllSpec
CONSTANTS
  EvidenceIds = {e1}
  Offers <- SomeCalls
  MaxHistory = 8
  SourceFiles = {"a", "b"}
  Depends <- Reads
  Scripted <- ScriptedChecks
  Suites <- TwoSuites
  Targets = {"FULL", "command"}
  MaxRuns = 2
  MaxEdits = 2
  Objects = {"a", "b"}
  Kinds = {"CONTRADICTS"}
  MaxVersions = 2
  MaxRelations = 2
  LastTime = 1
  Additions <- SomeObjects
  Budgets = {4}
  ModelMax = 8
  SmallWindow = TRUE
  MaxToolResult = 4
  SummaryCost = 1
  Reported = {4}
  Evidences = {"fail"}
  MaxObjects = 3
  MaxCollapses = 2
  MaxTicks = 1
  Attempts = {1, 2, 3, 4}
  FailureThreshold = 2
  SuccessThreshold = 2
  RecoveryTime = 2
  LastTick = 5
  WindowSize = 3
  RepeatThreshold = 3
  MaxWindowSize = 4
  MaxRepeats = 3
  Arguments = {0, 1, 2}
  MaxRecorded = 5
  ExporterSizes <- SomeSizes
  PerCall = {4, 5}
  MaxItems <- SomeItems
INVARIANTS
  HistoryIsAWalk
  CountersMatchHistory
  DoneNeedsEvidenceOrHuman
  VerifyFollowsWork
  VerificationHolds
  ContextHolds
  HelpersHold
