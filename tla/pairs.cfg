CONSTANTS
  Leg = {1, 2, 3, 4}
  Attr <- PairScene
  ToleranceBps = 0
  ToleranceAbs = 1
  DateWindow = 2
  T3MaxCandidates = 4
  T3MaxSubset = 3
  T3RequireBatchHint = TRUE
  TTL = 1
  OlderThan = {0}
  ReplayFrom = {}
  Stamps = {}
  Faults = {"abort", "crash", "lookup"}
  MaxTime = 1
  LastArrival = 1
  MaxBatch = 1
  MaxLog = 9
  MaxReplays = 0
  MaxFaults = 1
SPECIFICATION Spec
INVARIANTS TypeOK IndexMirrorsStore MatchesAgree BreaksAgree LogCoversStore IngestedOnce
PROPERTIES LegsMoveForward ResolutionsFinal ImplementsLedger
