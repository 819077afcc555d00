SPECIFICATION BenchmarksSpec
CONSTANTS
  SeqId = {1, 2, 3, 4, 5, 6, 7}
  c1 = c1
  c2 = c2
  c3 = c3
  CR = CR
  Char = {c1, c2, c3, CR}
  kMaxLength = 1
  MaxFinite = 10
  kMaxAllowedSymbols = 1
  RiskLimits <- MCRiskLimits
  Capacity = 2
  Wirings <- MCWirings
  Orders = {}
  Amends = {}
  DirectSend = FALSE
  DirectCancels = {}
  MaxEnqueues = 0
  MaxCancels = 0
  MaxAmends = 0
  MaxSends = 0
  min_spread <- MCMinSpread
  kOrderQuantity = 2
  Width = 3
  MaxElements = 4
  Configs <- MCConfigs
  BuildInputs <- MCBuildInputs
  Names <- MCNames
  WideLines <- MCWideLines
  NarrowLines <- MCNarrowLines
  MaxIterations = 5
  MaxTrials = 3
  MaxBatch = 3
INVARIANTS
  ChecksNeverFire
  BatchesStartClean
  SamplesAreAllBatches
  TrialsAreComparable
  BatchingIsInvisible
PROPERTY BenchmarksReturn
CHECK_DEADLOCK FALSE
