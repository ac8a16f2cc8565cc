SPECIFICATION AllSpec
CONSTANTS
  Callers = {c1, c2}
  Offers <- ToDone
  EvidenceIds = {e1}
  Backends = {"memory", "jsonl"}
  MaxRecords = 5
  Sessions = {"a", "b"}
  ToolCalls = {"c1"}
  NoSession = NoSession
  InMap = InMap
  Kinds <- SomeKinds
  MaxEvents = 5
  Boundaries = {1}
  MaxBreaks = 2
  Memories = {"m1", "m2"}
  Drafts <- SomeDrafts
  Earlier <- SomeEarlier
  Users = {c1, c2}
  NoMemory = NoMemory
  StaleAfter = 1
  ArchiveAfter = 2
  MaxCalls = 3
  Ids = {"a", "b"}
  Holders = {c1, c2}
  NoRow = NoRow
  MaxAppends = 2
  MaxSaves = 4
  Keys = {"k", "l"}
  Notes = {"x", "y"}
  Batches <- SomeBatches
  Threshold = 0
  StaleDays = 1
  ArchiveDays = 2
  LastDay = 3
  MaxNotes = 3
  Runs = {"r1", "r2"}
  Recorders = {c1, c2}
  MaxRecordings = 3
  MaxDeaths = 1
  Traces = {"t", "u", "v"}
  Tasks = {"x", "y"}
  MaxAge = 0
  MaxEntries = 1
  Limit = 2
  MaxDays = 2
  MaxTraceUses = 1
SYMMETRY CallerSymmetry
CHECK_DEADLOCK FALSE
INVARIANTS
  NothingAppliedUnlogged
  LogTellsHistory
  LossBounded
  RecordsHold
