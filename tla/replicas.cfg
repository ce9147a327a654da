CONSTANTS
  Leg = {1, 2, 3}
  Attr <- PartitionScene
  ToleranceBps = 0
  ToleranceAbs = 1
  DateWindow = 2
  T3MaxCandidates = 4
  T3MaxSubset = 3
  T3RequireBatchHint = TRUE
  TTL = 1
  OlderThan = {}
  ReplayFrom = {}
  Stamps = {}
  Faults = {}
  MaxTime = 1
  LastArrival = 1
  MaxBatch = 1
  MaxLog = 9
  MaxReplays = 0
  MaxFaults = 0
  Elsewhere <- SecondKeys
SPECIFICATION ReplicasSpec
INVARIANTS ReplicasNeverContend
