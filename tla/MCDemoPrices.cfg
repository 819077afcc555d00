SPECIFICATION DemoSpec
CONSTANTS
  SeqId = {1, 2, 3, 4}
  c1 = c1
  c2 = c2
  CR = CR
  Char = {c1, c2, CR}
  kMaxLength = 1
  MaxFinite = 10
  kMaxAllowedSymbols = 1
  RiskLimits <- MCRiskLimits
  Capacity = 2
  Wirings <- MCWirings
  Orders = {}
  Amends = {}
  DirectSend = FALSE
  DirectCancels = {}
  MaxEnqueues = 0
  MaxCancels = 0
  MaxAmends = 0
  MaxSends = 0
  min_spread <- MCMinSpread
  kOrderQuantity = 2
  Lines <- MCLines
  MaxLines = 4
INVARIANT UpdatesHaveFinitePrices
CHECK_DEADLOCK FALSE
