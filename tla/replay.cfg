CONSTANTS
  Leg = {1, 2, 3}
  Attr <- ReuseScene
  ToleranceBps = 0
  ToleranceAbs = 1
  DateWindow = 2
  T3MaxCandidates = 4
  T3MaxSubset = 3
  T3RequireBatchHint = TRUE
  TTL = 9
  OlderThan = {}
  ReplayFrom = {1, 3}
  Stamps = {}
  Faults = {"abort", "crash", "lookup"}
  MaxTime = 1
  LastArrival = 1
  MaxBatch = 1
  MaxLog = 9
  MaxReplays = 2
  MaxFaults = 1
SPECIFICATION AuditSpec
INVARIANTS IndexMirrorsStore LogCoversStore
PROPERTIES ReplayReproduces ReplayRestoresLegs ResolutionsRestored ImplementsLedger
