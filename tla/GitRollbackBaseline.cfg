SPECIFICATION GitSpec
CONSTANTS
  Paths = {"x", "d/a", "d/b"}
  Folder = {"d/a", "d/b"}
  FolderName = "d"
  Committed = {"x"}
  MaxWrites = 3
  MaxCommits = 2
  MaxPoints = 1
CHECK_DEADLOCK FALSE
INVARIANT PreexistingUntouched
