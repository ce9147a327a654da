CONSTANTS
  Leg = {1, 2, 3}
  Attr <- ReuseScene
  ToleranceBps = 0
  ToleranceAbs = 1
  DateWindow = 2
  T3MaxCandidates = 4
  T3MaxSubset = 3
  T3RequireBatchHint = TRUE
  TTL = 1
  OlderThan = {}
  ReplayFrom = {1}
  Stamps = {}
  Faults = {}
  MaxTime = 1
  LastArrival = 1
  MaxBatch = 1
  MaxLog = 9
  MaxReplays = 1
  MaxFaults = 0
SPECIFICATION AuditSpec
PROPERTIES ReplayReproduces
