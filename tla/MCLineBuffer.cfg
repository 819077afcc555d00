SPECIFICATION Spec
CONSTANTS
  x = x
  y = y
  Comma = Comma
  CR = CR
  Char <- MCChar
  kExpectedFieldCount = 2
  kMaxLength = 2
  MaxText = 5
  MaxOrders = 2
INVARIANTS
  SplitIsFaithful
  OrdersOwnTheirSymbols
CHECK_DEADLOCK FALSE
