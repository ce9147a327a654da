CONSTANTS
  Leg = {1, 2, 3, 4}
  Attr <- TopicScene
  ToleranceBps = 0
  ToleranceAbs = 1
  DateWindow = 2
  T3MaxCandidates = 4
  T3MaxSubset = 3
  T3RequireBatchHint = TRUE
  TTL = 1
  OlderThan = {}
  ReplayFrom = {}
  Stamps = {}
  Faults = {"abort"}
  MaxTime = 2
  LastArrival = 2
  MaxBatch = 2
  MaxLog = 40
  MaxReplays = 0
  MaxFaults = 1
  Topic <- TopicRecords
  BadRecord = Bad
  MaxPoll = 2
  MaxRebalances = 1
SPECIFICATION KafkaSpec
INVARIANTS CommittedIsDurable
