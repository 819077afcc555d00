--------------------------- MODULE PathComparison ---------------------------
(***************************************************************************)
(* bench_path_comparison.cpp: the same inputs go to the exchange along two *)
(* paths.  The text path parses a line for every event, the prepared path  *)
(* rebuilds the update from fields parsed once, before any measurement.    *)
(* Both paths are stabilized; then every trial measures both.  A           *)
(* measurement warms its system up, takes a snapshot of the counters, goes *)
(* on with the same system and checks the difference to the snapshot.      *)
(***************************************************************************)
EXTENDS BenchmarkSystem

CONSTANTS
  Names,          \* the name of each input, in order (printed only)
  WideLines,      \* the line of each input that generates an order
  NarrowLines     \* the line of each input that generates none

ASSUME RawInputsAssumption ==
  /\ Names \in Seq(Seq(Char)) /\ Names # <<>>
  /\ WideLines \in Seq(Line) /\ NarrowLines \in Seq(Line)
  /\ Len(WideLines) = Len(Names) /\ Len(NarrowLines) = Len(Names)

\* The literals are what their names say.
ASSUME RawLinesAssumption ==
  \A i \in 1..Len(Names) :
    /\ IsBenchmarkLine(WideLines[i]) /\ IsBenchmarkLine(NarrowLines[i])
    /\ ~IsSpreadTooNarrow(ParseMarketDataLine(WideLines[i]).update)
    /\ IsSpreadTooNarrow(ParseMarketDataLine(NarrowLines[i]).update)

VARIABLES
  mode,        \* the PathMode being run
  inputs,      \* the prepared inputs
  before       \* MeasureMode's snapshot of the counters

pathVars == <<mode, inputs, before>>

PathMode == {"kText", "kPrepared"}

OtherMode == IF mode = "kText" THEN "kPrepared" ELSE "kText"

\* BuildRawInputs: in the mixed workload every second input, from the first
\* on, generates an order.
should_order(index) ==
  \/ config.inputs = "all-orders"
  \/ config.inputs = "mixed" /\ index % 2 = 1

RawInputs ==
  [i \in 1..Len(Names) |->
     [name |-> Names[i],
      line |-> IF should_order(i) THEN WideLines[i] ELSE NarrowLines[i],
      should_generate_order |-> should_order(i)]]

\* PrepareInputs copies the fields of the parsed update one by one.
PreparedInputs ==
  [i \in DOMAIN RawInputs |->
     LET update == ParseMarketDataLine(RawInputs[i].line).update
     IN  [name |-> RawInputs[i].name, line |-> RawInputs[i].line,
          symbol |-> update.symbol,
          bid_price |-> update.bid_price, bid_size |-> update.bid_size,
          ask_price |-> update.ask_price, ask_size |-> update.ask_size,
          exchange_ts_ns |-> update.exchange_ts_ns,
          should_generate_order |-> RawInputs[i].should_generate_order]]

PreparationFails ==
  \E i \in DOMAIN RawInputs :
    ParseMarketDataLine(RawInputs[i].line).status # "kOk"

\* Mutant: the symbol is taken from the field above it.
AsUpdateNamed(prepared) ==
  [symbol |-> prepared.name,
   bid_price |-> prepared.bid_price, bid_size |-> prepared.bid_size,
   ask_price |-> prepared.ask_price, ask_size |-> prepared.ask_size,
   exchange_ts_ns |-> prepared.exchange_ts_ns]

\* PreparedInput::AsUpdate puts the copied fields back together.
AsUpdate(prepared) ==
  [symbol |-> prepared.symbol,
   bid_price |-> prepared.bid_price, bid_size |-> prepared.bid_size,
   ask_price |-> prepared.ask_price, ask_size |-> prepared.ask_size,
   exchange_ts_ns |-> prepared.exchange_ts_ns]

PathInit ==
  /\ mode = "kText"
  /\ inputs = <<>>
  /\ before = CaptureCounters

\* A line that does not parse ends the program.
PrepareInputs ==
  /\ Running /\ stage = "stabilization"
  /\ inputs = <<>>
  /\ inputs' = PreparedInputs
  /\ outcome' = IF PreparationFails THEN "check_failed" ELSE outcome
  /\ UNCHANGED <<vars, loopVars, event_index, batch, samples, strategy, mode,
                 before>>

----------------------------------------------------------------------------
(* One batch *)

StartPathBatch ==
  /\ inputs # <<>>
  /\ StartBatch
  /\ UNCHANGED pathVars

prepared_input == InputAt(inputs, event_index + batch.done)

TextEvent ==
  /\ mode = "kText"
  /\ NextEvent
  /\ \E parsed \in {ParseMarketDataLine(prepared_input.line)} :
       ProcessParsed(parsed)
  /\ UNCHANGED pathVars

PreparedEvent ==
  /\ mode = "kPrepared"
  /\ NextEvent
  /\ ProcessUpdate(AsUpdate(prepared_input))
  /\ UNCHANGED pathVars

----------------------------------------------------------------------------
(* Stages and trials *)

ExpectedOrders(start_index, count) ==
  Cardinality({i \in 0..(count - 1) :
                 InputAt(inputs, start_index + i).should_generate_order})

ValidatePathCounters(c, expected_events, expected_orders) ==
  /\ c.signals_seen = expected_events
  /\ c.orders_generated = expected_orders
  /\ c.orders_enqueued = expected_orders /\ c.orders_dropped = 0
  /\ c.orders_drained = expected_orders
  /\ c.pipeline_accepted = expected_orders /\ c.pipeline_rejected = 0
  /\ c.gateway_sent = expected_orders
  /\ c.gateway_accepted = expected_orders /\ c.gateway_rejected = 0

\* Mutant: what the warmup did is counted too.
SubtractCountersNot(after, snapshot) == after

SubtractCounters(after, snapshot) ==
  [c \in DOMAIN after |-> after[c] - snapshot[c]]

\* The counters of the stage that ends: those of a measurement are relative
\* to its snapshot.
StageCounters == IF stage = "measured"
                 THEN SubtractCounters(CaptureCounters, before)
                 ELSE CaptureCounters

StageIsValid == ValidatePathCounters(StageCounters, iterations,
                                     ExpectedOrders(0, iterations))

\* Both paths are stabilized before memory is reserved for the trials.
PathReserved ==
  IF stage = "stabilization" /\ mode = "kText" THEN 0 ELSE Reserved

\* Whether both paths were stabilized, or both measured in this trial.
BothModesDone == mode = IF stage = "stabilization" THEN "kPrepared"
                                                  ELSE LastMeasured(trial_index)

\* RunStabilization, or MeasureMode, for the other path.
OtherModeNext ==
  /\ ~BothModesDone
  /\ mode' = OtherMode
  /\ stage' = IF stage = "measured" THEN "warmup" ELSE stage
  /\ UNCHANGED trial_index

NextPathTrial ==
  /\ BothModesDone
  /\ NextTrial
  /\ mode' = FirstMeasured(trial_index')

\* Each of these starts with a system of its own.
FinishSystem ==
  /\ stage \in {"stabilization", "measured"} /\ inputs # <<>>
  /\ FinishLoop(StageIsValid, PathReserved)
  /\ OtherModeNext \/ NextPathTrial
  /\ Measured(mode, [counters |-> StageCounters, book |-> exchange.active])
  /\ NewSystemState
  /\ UNCHANGED <<unusedVars, inputs, before>>

\* Mutant: the measurement starts with a new strategy.
FinishWarmupRestarts ==
  /\ stage = "warmup"
  /\ FinishLoop(StageIsValid, PathReserved)
  /\ before' = CaptureCounters
  /\ stage' = "measured"
  /\ strategy' = [strategy EXCEPT !.next_sequence_id = 1]
  /\ UNCHANGED <<vars, trial_index, trials, mode, inputs>>

\* The snapshot is taken, and the same system goes on.
FinishWarmup ==
  /\ stage = "warmup"
  /\ FinishLoop(StageIsValid, PathReserved)
  /\ before' = CaptureCounters
  /\ stage' = "measured"
  /\ UNCHANGED <<vars, strategy, trial_index, trials, mode, inputs>>

PathNext ==
  /\ config.program = "bench_path_comparison"
  /\ \/ PrepareInputs
     \/ StartPathBatch
     \/ TextEvent \/ PreparedEvent
     \/ (BatchDrain \/ BatchDrainStep) /\ UNCHANGED pathVars
     \/ FinishSystem \/ FinishWarmup

============================================================================
