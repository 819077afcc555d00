------------------------------ MODULE Messages ------------------------------
(***************************************************************************)
(* The messages the components exchange (include/llgw/messages.hpp) and    *)
(* the owned, fixed-capacity symbol of an order (fixed_symbol.hpp).        *)
(* Enumerators keep their C++ names.                                       *)
(***************************************************************************)
EXTENDS Doubles, Sequences

CONSTANTS
  SeqId,        \* sequence ids (uint64_t) the clients use
  Char,         \* characters of a symbol
  kMaxLength    \* FixedSymbol::kMaxLength

ASSUME kMaxLengthAssumption == kMaxLength \in Nat \ {0}

Side == {"kBuy", "kSell"}

\* A symbol is its characters; the empty sequence is FixedSymbol::empty().
Symbol == UNION {[1..n -> Char] : n \in 0..kMaxLength}

\* FixedSymbol::Assign clears the symbol when the text does not fit.
Assign(text) ==
  IF text = <<>> \/ Len(text) > kMaxLength THEN <<>> ELSE text

Order == [sequence_id : SeqId, symbol : Symbol, side : Side,
          price : Double, quantity : Nat]

AmendRequest == [sequence_id : SeqId, new_price : Double, new_quantity : Nat]

OrderRejectReason ==
  {"kNone", "kInvalidSymbol", "kInvalidPrice", "kInvalidQuantity",
   "kDuplicateSequence"}

CancelRejectReason == {"kNone", "kUnknownOrder", "kInvalidState"}

AmendRejectReason ==
  {"kNone", "kUnknownOrder", "kInvalidPrice", "kInvalidQuantity",
   "kInvalidState"}

RiskRejectReason ==
  {"kNone", "kInvalidSymbol", "kInvalidPrice", "kInvalidQuantity",
   "kQuantityLimit", "kNotionalLimit", "kSymbolNotAllowed"}

RejectReason ==
  OrderRejectReason \cup CancelRejectReason \cup AmendRejectReason
                    \cup RiskRejectReason

\* OrderResponse, CancelResponse and AmendResponse differ only in the reasons
\* they can carry.
Response == [accepted : BOOLEAN, reject_reason : RejectReason]

Accepted == [accepted |-> TRUE, reject_reason |-> "kNone"]
Rejected(reason) == [accepted |-> FALSE, reject_reason |-> reason]

\* A counter of component statistics is a function from counter names to Nat.
\* (uint64_t counters do not wrap within any feasible run.)
Bump(count, names) ==
  [n \in DOMAIN count |-> IF n \in names THEN count[n] + 1 ELSE count[n]]

============================================================================
