-------------------------- MODULE MarketDataParser --------------------------
(***************************************************************************)
(* ParseMarketDataLine (market_data_parser.hpp, market_data_parser.cpp).   *)
(*                                                                         *)
(* A line is the fields between its commas and whether it ends in a        *)
(* carriage return.  A field is its text and what std::from_chars makes of *)
(* the whole of it for each of the three numeric types: a set of one value *)
(* or, when the conversion fails or leaves characters over, the empty set. *)
(* from_chars accepts "nan" and "inf" as doubles.                          *)
(***************************************************************************)
EXTENDS Messages

CONSTANT CR      \* the carriage return character

ASSUME CRAssumption == CR \in Char

kExpectedFieldCount == 6

Field == [text : Seq(Char), double : SUBSET Double,
          uint32 : SUBSET Nat, uint64 : SUBSET Nat]

Line == [fields : Seq(Field), cr : BOOLEAN]

Blank == [text |-> <<>>, double |-> {}, uint32 |-> {}, uint64 |-> {}]

ParseStatus ==
  {"kOk", "kEmptyInput", "kWrongFieldCount", "kInvalidNumber",
   "kInvalidMarket"}

MarketDataUpdate ==
  [symbol : Seq(Char), bid_price : Double, bid_size : Nat,
   ask_price : Double, ask_size : Nat, exchange_ts_ns : Nat]

\* A value-initialised MarketDataUpdate.
NoUpdate == [symbol |-> <<>>, bid_price |-> Zero, bid_size |-> 0,
             ask_price |-> Zero, ask_size |-> 0, exchange_ts_ns |-> 0]

\* One trailing carriage return is dropped.
StripTrailingCarriageReturn(line) == [line EXCEPT !.cr = FALSE]

\* SplitCsvLine.  A carriage return left in place is part of the last field,
\* which no numeric conversion then accepts.
SplitCsvLine(line) ==
  IF ~line.cr THEN line.fields
  ELSE [line.fields EXCEPT ![Len(line.fields)] =
          [Blank EXCEPT !.text = Append(line.fields[Len(line.fields)].text,
                                        CR)]]

The(values) == CHOOSE v \in values : TRUE

\* Every comparison with NaN is false, so this does not exclude it.
IsInvalidMarket(u) ==
  \/ LessEq(u.bid_price, Zero)
  \/ LessEq(u.ask_price, Zero)
  \/ Less(u.ask_price, u.bid_price)
  \/ u.bid_size = 0
  \/ u.ask_size = 0

ParseFailed(status) == [status |-> status, update |-> NoUpdate]

ParseMarketDataLine(line) ==
  LET f == SplitCsvLine(StripTrailingCarriageReturn(line))
  IN  IF f = <<Blank>> THEN ParseFailed("kEmptyInput")
      ELSE IF Len(f) # kExpectedFieldCount \/ f[1].text = <<>>
           THEN ParseFailed("kWrongFieldCount")
      ELSE IF {} \in {f[2].double, f[3].uint32, f[4].double, f[5].uint32,
                      f[6].uint64}
           THEN ParseFailed("kInvalidNumber")
      ELSE LET u == [symbol |-> f[1].text,
                     bid_price |-> The(f[2].double),
                     bid_size |-> The(f[3].uint32),
                     ask_price |-> The(f[4].double),
                     ask_size |-> The(f[5].uint32),
                     exchange_ts_ns |-> The(f[6].uint64)]
           IN  IF IsInvalidMarket(u) THEN ParseFailed("kInvalidMarket")
               ELSE [status |-> "kOk", update |-> u]

============================================================================
