CONSTANTS
  Leg = {1, 2, 3, 4}
  Attr <- BatchScene
  ToleranceBps = 0
  ToleranceAbs = 1
  DateWindow = 2
  T3MaxCandidates = 4
  T3MaxSubset = 3
  T3RequireBatchHint = TRUE
  TTL = 1
  OlderThan = {}
  ReplayFrom = {}
  Stamps = {}
  Faults = {"ambiguous"}
  MaxTime = 0
  LastArrival = 0
  MaxBatch = 1
  MaxLog = 9
  MaxReplays = 0
  MaxFaults = 1
SPECIFICATION Spec
INVARIANTS NeverDoubleCounted
