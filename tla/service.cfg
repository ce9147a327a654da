CONSTANTS
  Leg = {1, 2}
  Attr <- TwoRecords
  ToleranceBps = 0
  ToleranceAbs = 1
  DateWindow = 2
  T3MaxCandidates = 4
  T3MaxSubset = 3
  T3RequireBatchHint = TRUE
  TTL = 1
  OlderThan = {0}
  ReplayFrom = {1}
  Stamps = {1}
  Faults = {"abort", "crash", "ambiguous"}
  MaxTime = 2
  LastArrival = 1
  MaxBatch = 2
  MaxLog = 5
  MaxReplays = 1
  MaxFaults = 2
  Client = {"c1"}
SPECIFICATION ServiceSpec
INVARIANTS ServiceTypeOK AcceptedIsLogged MirrorsWhileServing TablesAgreeUnlessMisled
PROPERTIES CloseEmpties RequestsEnd ShutdownEnds DrainsUnlessStale
