SPECIFICATION AllSpec
CONSTANTS
  Tools <- SmallTools
  Mutating <- Writers
  Idempotent <- Readers
  Classified <- Probers
  Safe = {}
  MaxParallel = 2
  Batches <- SmallBatches
  MaxBatches = 2
  MaxTimeOuts = 2
  Plugins = {"p", "q"}
  MaxEffects <- EffectsOf
  Async = {"q"}
  MaxLoads = 2
  Bundled <- OneBundle
  Patches <- PatchLists
  Wired <- Three
  Injections <- AllInjections
  Interceptors = {"f", "g"}
  MaxChanges = 3
  Conversations <- SomeTalks
  Replies <- SomeReplies
  Statuses = {200, 400, 401, 429, 500, 504}
  ToolTexts <- SomeTexts
  MaxPiece = 5
  Answers <- SomeAnswers
  Listeners = 1
  MaxAuto = 1
  MaxTurns = 2
  SkillNames = {"s", "t"}
  Registrants = {"p", "q"}
  Shelves <- SomeShelves
  ServerOf <- SomeSyncs
  ServerLists <- SomeLists
  MaxUnregistered = 1
  Paths = {"x", "d/a", "d/b"}
  Folder = {"d/a", "d/b"}
  FolderName = "d"
  Committed = {"x"}
  MaxWrites = 3
  MaxCommits = 2
  MaxPoints = 1
CHECK_DEADLOCK FALSE
INVARIANTS
  BarrierHolds
  ReadsInOrder
  CacheIsFresh
  PluginsHold
  CallsHold
  RollbackHolds
