-------------------------- MODULE MCOrderPipeline --------------------------
(* Small instances of OrderPipeline for TLC. *)
EXTENDS OrderPipeline, TLC

CONSTANTS c1, c2

\* At most two shares, a notional of at most eight, and symbol "c1" only;
\* the second entry of the allow list is beyond its count.
MCRiskLimits == [max_order_quantity |-> 2,
                 max_order_notional |-> FromInt(8),
                 allowed_symbols |-> <<<<c1>>, <<c2>>>>,
                 allowed_symbol_count |-> 1]

\* The same limits with an allow list said to be longer than it can be,
\* whose first entry is empty and whose last one is in use.
MCLongRiskLimits == [MCRiskLimits EXCEPT !.allowed_symbols = <<<<>>, <<c1>>>>,
                                         !.allowed_symbol_count = 3]

\* No notional limit (NaN) and no allow list.
MCNoRiskLimits == [MCRiskLimits EXCEPT !.max_order_notional = NaN,
                                       !.allowed_symbol_count = 0]

Shape(side, symbol, price, quantity) ==
  [side |-> side, symbol |-> symbol, price |-> price, quantity |-> quantity]

WithId(shapes) ==
  {[sequence_id |-> s, symbol |-> x.symbol, side |-> x.side,
    price |-> x.price, quantity |-> x.quantity] : s \in SeqId, x \in shapes}

\* An order exactly at both limits, and one over the notional limit.
AtLimit   == Shape("kSell", <<c1>>, FromInt(4), 2)
OverLimit == Shape("kBuy", <<c1>>, FromInt(5), 2)

\* The orders that differ for the path after the risk manager.
MCPathOrders == WithId({AtLimit, OverLimit})

\* One that every wiring takes and one that none does: without a risk manager
\* it is the exchange that refuses it.
MCWiringOrders == WithId({AtLimit, Shape("kBuy", <<c1>>, NaN, 1)})

\* One order for each way the risk manager can decide.
MCRiskOrders == WithId(
  {AtLimit, OverLimit,
   Shape("kBuy", <<>>, FromInt(4), 1),
   Shape("kBuy", <<c1>>, NaN, 1),
   Shape("kBuy", <<c1>>, FromInt(4), 0),
   Shape("kBuy", <<c1>>, FromInt(1), 3),     \* over the quantity limit
   Shape("kBuy", <<c1>>, FromInt(10), 2),    \* price * quantity overflows
   Shape("kBuy", <<c2>>, FromInt(4), 1)})    \* symbol not allowed

MCAmends == {[sequence_id |-> s, new_price |-> x[1], new_quantity |-> x[2]] :
               s \in SeqId, x \in {<<FromInt(9), 3>>, <<NaN, 1>>,
                                   <<FromInt(4), 0>>}}

\* main.cpp: every component given to every other.
FullWiring == [risk_manager |-> TRUE, pipeline_tracker |-> TRUE,
               pipeline_gateway |-> TRUE, gateway_tracker |-> TRUE,
               gateway_exchange |-> TRUE, journal |-> TRUE]

MCFullWiring == {FullWiring}

\* Every combination of null pointers.
MCAnyWiring == {w \in Wiring : w.journal}

MCSymmetry == Permutations(SeqId)
============================================================================
