------------------------------- MODULE MCDemo -------------------------------
(* A small instance of Demo for TLC. *)
EXTENDS Demo, TLC

CONSTANTS c1, c2

MCRiskLimits == [max_order_quantity |-> 2,
                 max_order_notional |-> FromInt(8),
                 allowed_symbols |-> <<<<c1>>>>,
                 allowed_symbol_count |-> 1]

MCWirings == {[risk_manager |-> TRUE, pipeline_tracker |-> TRUE,
               pipeline_gateway |-> TRUE, gateway_tracker |-> TRUE,
               gateway_exchange |-> TRUE, journal |-> TRUE]}

MCMinSpread == FromInt(1)

----------------------------------------------------------------------------
(* Fields and lines *)

Text(t) == [Blank EXCEPT !.text = t]

\* A decimal integer, valid for the three numeric types.
Num(n) == [text |-> <<c2>>, double |-> {FromInt(n)}, uint32 |-> {n},
           uint64 |-> {n}]

\* "nan", "inf" and "-1": doubles only.
RealOnly(d) == [Blank EXCEPT !.text = <<c2>>, !.double = {d}]

Quote(symbol, bid, ask) ==
  [fields |-> <<symbol, bid, Num(1), ask, Num(1), Num(1)>>, cr |-> FALSE]

GoodLine == Quote(Text(<<c1>>), Num(2), Num(4))

MCLines ==
  {GoodLine,
   [GoodLine EXCEPT !.cr = TRUE],
   Quote(Text(<<c1>>), Num(4), Num(4)),               \* locked: no order
   Quote(Text(<<c1>>), Num(2), Num(5)),               \* over the limit
   Quote(Text(<<c2>>), Num(2), Num(4)),               \* not allowed
   Quote(Text(<<c1, c1>>), Num(2), Num(4)),           \* symbol too long
   Quote(Text(<<c1>>), RealOnly(NaN), Num(4)),
   Quote(Text(<<c1>>), Num(2), RealOnly(PosInf)),
   Quote(Text(<<c1>>), RealOnly(FromInt(-1)), Num(4)),
   Quote(Text(<<c1>>), Num(4), Num(2)),               \* crossed
   Quote(Text(<<c1>>), Text(<<c1>>), Num(4)),         \* not a number
   Quote(Blank, Num(2), Num(4)),                      \* no symbol
   [fields |-> <<Blank>>, cr |-> TRUE]}               \* an empty line
============================================================================
