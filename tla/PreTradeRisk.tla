---------------------------- MODULE PreTradeRisk ----------------------------
(***************************************************************************)
(* PreTradeRiskManager (pre_trade_risk.hpp, pre_trade_risk.cpp): stateless *)
(* limits applied in a fixed order, and a counter per outcome.             *)
(***************************************************************************)
EXTENDS Messages

CONSTANTS
  RiskLimits,           \* the limits passed to the constructor
  kMaxAllowedSymbols    \* RiskLimits::kMaxAllowedSymbols

\* The allow list is an array of kMaxAllowedSymbols texts of any length, of
\* which the first allowed_symbol_count are used.
ASSUME RiskLimitsAssumption ==
  /\ kMaxAllowedSymbols \in Nat
  /\ RiskLimits \in [max_order_quantity : Nat,
                     max_order_notional : Double,
                     allowed_symbols : [1..kMaxAllowedSymbols -> Seq(Char)],
                     allowed_symbol_count : Nat]

RiskCounter ==
  {"orders_checked", "orders_accepted", "orders_rejected"}
    \cup (RiskRejectReason \ {"kNone"})

\* The manager's mutable state: a counter named by a reason is the field
\* rejected_<reason>_.
RiskManager == [RiskCounter -> Nat]

NewRiskManager == [c \in RiskCounter |-> 0]

\* Mutant: the count is clamped to the last index of the array.
allowed_symbol_count_LessOne ==
  IF RiskLimits.allowed_symbol_count < kMaxAllowedSymbols
  THEN RiskLimits.allowed_symbol_count ELSE kMaxAllowedSymbols - 1

\* The constructor clamps the count to the array.
allowed_symbol_count_ ==
  IF RiskLimits.allowed_symbol_count < kMaxAllowedSymbols
  THEN RiskLimits.allowed_symbol_count ELSE kMaxAllowedSymbols

\* An empty allow list allows every symbol.
IsAllowedSymbol(o) ==
  \/ allowed_symbol_count_ = 0
  \/ \E i \in 1..allowed_symbol_count_ :
       RiskLimits.allowed_symbols[i] = o.symbol

Notional(o) == TimesNat(o.price, o.quantity)

\* Mutant: a notional equal to the limit is refused.
IsOverNotionalOrEqual(o) ==
  ~Less(Notional(o), RiskLimits.max_order_notional)

\* !std::isfinite(notional) || notional > max_order_notional_: an overflow is
\* refused, and a limit that is NaN refuses no finite notional.
IsOverNotional(o) ==
  ~IsFinite(Notional(o)) \/ Less(RiskLimits.max_order_notional, Notional(o))

\* The decision of Check.
RiskDecision(o) ==
  IF o.symbol = <<>> THEN Rejected("kInvalidSymbol")
  ELSE IF ~IsFinite(o.price) \/ LessEq(o.price, Zero)
       THEN Rejected("kInvalidPrice")
  ELSE IF o.quantity = 0 THEN Rejected("kInvalidQuantity")
  ELSE IF o.quantity > RiskLimits.max_order_quantity
       THEN Rejected("kQuantityLimit")
  ELSE IF IsOverNotional(o) THEN Rejected("kNotionalLimit")
  ELSE IF ~IsAllowedSymbol(o) THEN Rejected("kSymbolNotAllowed")
  ELSE Accepted

\* The counters Check and Reject leave.
Check(risk, o) ==
  Bump(risk, {"orders_checked"} \cup
               (IF RiskDecision(o).accepted THEN {"orders_accepted"}
                ELSE {"orders_rejected", RiskDecision(o).reject_reason}))

============================================================================
