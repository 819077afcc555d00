--------------------------- MODULE SimpleStrategy ---------------------------
(***************************************************************************)
(* SimpleStrategy (simple_strategy.hpp, simple_strategy.cpp): a buy order  *)
(* at the ask when the spread is wide enough.  Prices are whole ticks, so  *)
(* kPriceEpsilon, which only absorbs rounding, is left out.                *)
(***************************************************************************)
EXTENDS Messages

CONSTANTS
  min_spread,        \* the constructor's argument
  kOrderQuantity     \* the quantity of every order (10 in the code)

ASSUME StrategyAssumption == min_spread \in Double /\ kOrderQuantity \in Nat

Strategy == [next_sequence_id : Nat, signals_seen : Nat,
             orders_generated : Nat]

NewStrategy ==
  [next_sequence_id |-> 1, signals_seen |-> 0, orders_generated |-> 0]

\* A NaN spread is not less than the threshold.
IsSpreadTooNarrow(u) == Less(Minus(u.ask_price, u.bid_price), min_spread)

\* Mutant: the id is not advanced.
SequenceIdsTakenNever(u) == 0

\* An order whose symbol does not fit consumes an id too.
SequenceIdsTaken(u) == IF IsSpreadTooNarrow(u) THEN 0 ELSE 1

\* The orders OnMarketData returns: none or one.
GeneratedOrders(st, u) ==
  IF IsSpreadTooNarrow(u) \/ Assign(u.symbol) = <<>> THEN {}
  ELSE {[sequence_id |-> st.next_sequence_id, symbol |-> Assign(u.symbol),
         side |-> "kBuy", price |-> u.ask_price, quantity |-> kOrderQuantity]}

\* The state OnMarketData leaves.
OnMarketData(st, u) ==
  [next_sequence_id |-> st.next_sequence_id + SequenceIdsTaken(u),
   signals_seen |-> st.signals_seen + 1,
   orders_generated |-> IF GeneratedOrders(st, u) = {}
                        THEN st.orders_generated ELSE st.orders_generated + 1]

============================================================================
