CONSTANTS
  Leg = {1, 2, 3, 4, 5, 6}
  Attr <- PoolScene
  ToleranceBps = 0
  ToleranceAbs = 1
  DateWindow = 2
  T3MaxCandidates = 6
  T3MaxSubset = 3
  T3RequireBatchHint = TRUE
  Targets = {3, 6, 8, 9, 12, 14}
  Tolerances = {0, 1}
  Sizes <- SizePairs
  Budgets = {0, 4, 12, 50}
SPECIFICATION SearchSpec
INVARIANTS FindsFirst MissesOnlyOnBudget
PROPERTIES SearchEnds
