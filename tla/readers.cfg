CONSTANTS
  Leg = {1, 2, 3}
  Attr <- ListScene
  ToleranceBps = 0
  ToleranceAbs = 1
  DateWindow = 2
  T3MaxCandidates = 4
  T3MaxSubset = 3
  T3RequireBatchHint = TRUE
  TTL = 1
  OlderThan = {0}
  ReplayFrom = {1}
  Stamps = {}
  Faults = {}
  MaxTime = 1
  LastArrival = 1
  MaxBatch = 1
  MaxLog = 8
  MaxReplays = 1
  MaxFaults = 0
  Limit = 1
  IdRank <- BinaryRank
SPECIFICATION ReadersSpec
INVARIANTS ListingComplete ViewsConsistent StatsOneSided
