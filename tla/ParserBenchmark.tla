-------------------------- MODULE ParserBenchmark --------------------------
(***************************************************************************)
(* bench_parser.cpp: a baseline that only touches the inputs, and the      *)
(* parser alone, in batches of any size.  Stabilization and warmup parse   *)
(* without batches.  There is no SystemState.                              *)
(***************************************************************************)
EXTENDS BenchmarkSystem

VARIABLE checksum      \* what was mixed into it in the stage, in order

input_of_operation == InputAt(BuildInputs[config.inputs],
                              event_index + batch.done)

\* A line that does not parse ends the program.
ParseInput ==
  \E result \in {ParseMarketDataLine(input_of_operation)} :
    IF result.status = "kOk"
    THEN checksum' = Append(checksum, result.update) /\ UNCHANGED outcome
    ELSE outcome' = "check_failed" /\ UNCHANGED checksum

\* RunProcessStabilization and RunWarmup.
ParseUntimed ==
  /\ Running /\ stage \in {"stabilization", "warmup"}
  /\ event_index < iterations
  /\ ParseInput
  /\ event_index' = event_index + 1
  /\ UNCHANGED <<vars, loopVars, batch, samples, strategy>>

\* MeasureBaseline and MeasureParser.
StartParserBatch == Timed /\ StartBatch /\ UNCHANGED checksum

TouchInput == /\ checksum' = Append(checksum, input_of_operation)
              /\ UNCHANGED outcome

Operation ==
  /\ NextEvent
  /\ IF stage = "parser" THEN ParseInput ELSE TouchInput
  /\ UNCHANGED <<vars, strategy>>

EndParserBatch ==
  /\ Running /\ batch # NoBatch /\ batch.done = batch.count
  /\ EndBatch
  /\ UNCHANGED <<vars, loopVars, outcome, strategy, checksum>>

FinishParserStage ==
  /\ FinishLoop(TRUE, Reserved)
  /\ NextStage
  /\ Measured(stage, checksum)
  /\ checksum' = <<>>
  /\ UNCHANGED <<vars, strategy>>

ParserNext ==
  /\ config.program = "bench_parser"
  /\ \/ ParseUntimed
     \/ StartParserBatch \/ Operation \/ EndParserBatch
     \/ FinishParserStage

============================================================================
