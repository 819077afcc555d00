------------------------- MODULE EndToEndBenchmark -------------------------
(***************************************************************************)
(* bench_end_to_end.cpp: a baseline that only touches the inputs, and the  *)
(* whole path from text to exchange.  Every stage but the baseline runs on *)
(* a new SystemState and checks its counters at the end.                   *)
(***************************************************************************)
EXTENDS BenchmarkSystem

StartStageBatch == stage # "baseline" /\ StartBatch

\* MeasureBaseline touches only the inputs.
BaselineBatch ==
  /\ Running /\ stage = "baseline"
  /\ event_index < iterations
  /\ event_index' = event_index + NextCount
  /\ samples' = Append(samples, NextCount)
  /\ UNCHANGED <<vars, loopVars, outcome, batch, strategy>>

\* Mutant: a trial starts at another input than the one before it.
input_of_event_shifted == InputAt(BuildInputs[config.inputs],
                                  trial_index + event_index + batch.done)

input_of_event == InputAt(BuildInputs[config.inputs],
                          event_index + batch.done)

ProcessEvent ==
  /\ NextEvent
  /\ \E parsed \in {ParseMarketDataLine(input_of_event)} :
       ProcessParsed(parsed)

ValidateCounters(c, expected_events) ==
  /\ c.signals_seen = expected_events
  /\ c.orders_generated = c.orders_enqueued + c.orders_dropped
  /\ c.orders_dropped = 0
  /\ c.orders_drained = c.orders_enqueued
  /\ c.pipeline_accepted = c.orders_drained /\ c.pipeline_rejected = 0
  /\ c.gateway_sent = c.orders_drained
  /\ c.gateway_accepted = c.gateway_sent /\ c.gateway_rejected = 0

\* The stage's counters are checked; the next stage begins with a system of
\* its own.
FinishStage ==
  /\ FinishLoop(\/ stage = "baseline"
                \/ ValidateCounters(CaptureCounters, iterations), Reserved)
  /\ NextStage
  /\ Measured(stage, CaptureCounters)
  /\ NewSystemState
  /\ UNCHANGED unusedVars

EndToEndNext ==
  /\ config.program = "bench_end_to_end"
  /\ \/ StartStageBatch \/ BaselineBatch
     \/ ProcessEvent
     \/ BatchDrain \/ BatchDrainStep
     \/ FinishStage

============================================================================
