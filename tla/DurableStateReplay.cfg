SPECIFICATION Spec
CONSTANTS
  Callers = {c1}
  Offers <- Calls
  EvidenceIds = {e1}
  Backends = {"memory"}
  MaxRecords = 5
INVARIANTS
  LogReconstructsState
