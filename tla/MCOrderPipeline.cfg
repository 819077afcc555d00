SPECIFICATION Spec
CONSTANTS
  SeqId = {s1, s2, s3}
  c1 = c1
  c2 = c2
  Char = {c1, c2}
  kMaxLength = 1
  MaxFinite = 10
  kMaxAllowedSymbols = 2
  RiskLimits <- MCRiskLimits
  Capacity = 2
  Wirings <- MCFullWiring
  Orders <- MCPathOrders
  Amends <- MCAmends
  DirectSend = FALSE
  DirectCancels = {}
  MaxEnqueues = 4
  MaxCancels = 2
  MaxAmends = 1
  MaxSends = 0
SYMMETRY MCSymmetry
INVARIANTS
  TypeOK
  BookMatchesTracker
PROPERTY ImplementsOrderBook
