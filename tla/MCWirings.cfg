SPECIFICATION Spec
CONSTANTS
  SeqId = {s1, s2}
  c1 = c1
  c2 = c2
  Char = {c1, c2}
  kMaxLength = 1
  MaxFinite = 10
  kMaxAllowedSymbols = 2
  RiskLimits <- MCNoRiskLimits
  Capacity = 2
  Wirings <- MCAnyWiring
  Orders <- MCWiringOrders
  Amends <- MCAmends
  DirectSend = TRUE
  DirectCancels = {s1}
  MaxEnqueues = 3
  MaxCancels = 1
  MaxAmends = 1
  MaxSends = 1
INVARIANTS
  QueueMatchesTracker
  OnlyRefusalsErr
  OrdersAreConserved
  TrackerNeverMisleads
PROPERTIES DrainTerminates BookOnlyMovesForward
