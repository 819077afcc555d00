SPECIFICATION Spec
CONSTANTS
  SeqId = {s1, s2}
  c1 = c1
  c2 = c2
  Char = {c1, c2}
  kMaxLength = 1
  MaxFinite = 10
  kMaxAllowedSymbols = 2
  RiskLimits <- MCLongRiskLimits
  Capacity = 2
  Wirings <- MCFullWiring
  Orders <- MCRiskOrders
  Amends <- MCAmends
  DirectSend = FALSE
  DirectCancels = {}
  MaxEnqueues = 4
  MaxCancels = 1
  MaxAmends = 0
  MaxSends = 0
SYMMETRY MCSymmetry
INVARIANT RiskReasonsAgree
PROPERTY ImplementsOrderBook
