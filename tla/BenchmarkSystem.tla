-------------------------- MODULE BenchmarkSystem --------------------------
(***************************************************************************)
(* What the three benchmark programs have in common, each with a copy of   *)
(* its own: a stabilization stage is followed by trials, each of a warmup  *)
(* and two measurements in alternating order; the loops work in batches.   *)
(* bench_end_to_end.cpp and bench_path_comparison.cpp measure a            *)
(* SystemState, without a risk manager and without a tracker, which they   *)
(* drain after each batch.  size_t has Width bits.  Times, checksums of    *)
(* the system's work and printing are left out; a timing sample is the     *)
(* number of operations it is the mean of.                                 *)
(***************************************************************************)
EXTENDS OrderPipeline, MarketDataParser, SimpleStrategy, BenchmarkPrograms

CONSTANTS
  Configs,        \* the configurations the command line can ask for
  BuildInputs,    \* BuildInputs[name]: the lines of a workload or input set
  Width,
  MaxElements     \* beyond this, std::vector::reserve throws

ASSUME BenchmarkAssumption ==
  /\ Width \in Nat \ {0}
  /\ MaxElements \in 0..(2^Width - 2)
  /\ \A c \in Configs :
       /\ c.program \in Program /\ c.inputs \in InputsNames[c.program]
       /\ {c.stabilization_iterations, c.warmup_iterations,
           c.measured_iterations, c.trials, c.batch_size}
            \subseteq 1..(2^Width - 1)
       /\ c.csv_path \in BOOLEAN
  /\ \A name \in {"single", "varied", "mixed", "all-orders"} :
       BuildInputs[name] \in Seq(Line) \ {<<>>}

\* The lines the programs are built with parse, their symbols fit, and their
\* asks are finite.
IsBenchmarkLine(line) ==
  LET parsed == ParseMarketDataLine(line)
  IN  /\ parsed.status = "kOk"
      /\ Assign(parsed.update.symbol) # <<>>
      /\ IsFinite(parsed.update.ask_price)

ASSUME InputLinesAssumption ==
  /\ kOrderQuantity # 0
  /\ \A name \in {"single", "varied", "mixed", "all-orders"} :
       \A i \in DOMAIN BuildInputs[name] :
         IsBenchmarkLine(BuildInputs[name][i])

VARIABLES
  config,
  outcome,       \* "running", or why the program ended
  stage,         \* "args", a stage of the program, or "report"
  trial_index,
  event_index,   \* of the stage's loop
  batch,         \* count of the current batch and the events processed
  samples,       \* of the stage
  trials,        \* the result of each measurement, as they are made
  strategy       \* of the current SystemState

benchVars == <<config, outcome, stage, trial_index, event_index, batch,
               samples, trials, strategy>>

loopVars == <<config, stage, trial_index, trials>>

NoBatch == [count |-> 0, done |-> 0]

\* SystemState: no tracker for the gateway, and only a gateway for the
\* pipeline.
BenchWiring == [risk_manager |-> FALSE, pipeline_tracker |-> FALSE,
                pipeline_gateway |-> TRUE, gateway_tracker |-> FALSE,
                gateway_exchange |-> TRUE, journal |-> FALSE]

SystemInit ==
  /\ Init
  /\ wiring = BenchWiring
  /\ config \in Configs
  /\ outcome = "running"
  /\ stage = "args"
  /\ trial_index = 0
  /\ event_index = 0
  /\ batch = NoBatch
  /\ samples = <<>>
  /\ trials = <<>>
  /\ strategy = NewStrategy

Running == outcome = "running"

\* Mutant: off by one.
BatchFitsLoosely == \/ config.program = "bench_parser"
                    \/ config.batch_size <= Capacity + 1

\* bench_parser has no buffer to fit.
BatchFits == \/ config.program = "bench_parser"
             \/ config.batch_size <= Capacity

\* ParseArgs: an argument is wrong, or help is asked for, or the batch does
\* not fit the pipeline's buffer.  (BenchmarkArguments has the details.)
ParseArgs ==
  /\ Running /\ stage = "args"
  /\ \/ /\ outcome' \in {"usage", "help"}
        /\ UNCHANGED stage
     \/ /\ ~BatchFits
        /\ outcome' = "usage"
        /\ UNCHANGED stage
     \/ /\ BatchFits
        /\ stage' = "stabilization"
        /\ UNCHANGED outcome
  /\ UNCHANGED <<vars, config, trial_index, event_index, batch, samples,
                 trials, strategy>>

----------------------------------------------------------------------------
(* One batch *)

iterations ==
  IF stage = "stabilization" THEN config.stabilization_iterations
  ELSE IF stage = "warmup" THEN config.warmup_iterations
  ELSE config.measured_iterations

Timed == stage \in {"baseline", "path", "measured", "parser"}

\* Mutant: the division rounds down.
BatchCountDown(operations, batch_size) == operations \div batch_size

\* The sum may wrap.
BatchCount(operations, batch_size) ==
  ((operations + batch_size - 1) % 2^Width) \div batch_size

timed_batches == BatchCount(config.measured_iterations, config.batch_size)

NextCount == IF config.batch_size < iterations - event_index
             THEN config.batch_size ELSE iterations - event_index

InLoop == stage \notin {"args", "report"}

StartBatch ==
  /\ Running /\ InLoop /\ batch = NoBatch
  /\ event_index < iterations
  /\ batch' = [count |-> NextCount, done |-> 0]
  /\ UNCHANGED <<vars, loopVars, outcome, event_index, samples, strategy>>

\* What every event or operation does to the loops.
NextEvent ==
  /\ Running /\ pc = "idle"
  /\ batch.done < batch.count
  /\ batch' = [batch EXCEPT !.done = @ + 1]
  /\ UNCHANGED <<loopVars, event_index, samples>>

\* The batch is over, and a sample taken if it is timed.
EndBatch ==
  /\ event_index' = event_index + batch.count
  /\ batch' = NoBatch
  /\ samples' = IF Timed THEN Append(samples, batch.count) ELSE samples

\* Mutant: every batch starts with the first input.
InputOfBatch(inputs, index) == inputs[(batch.done % Len(inputs)) + 1]

\* The input of an event: a batch starts where the one before it ended.
InputAt(inputs, index) == inputs[(index % Len(inputs)) + 1]

----------------------------------------------------------------------------
(* Batches of a SystemState *)

\* An iteration of ProcessEvents from OnMarketData on.  An order that the
\* pipeline refuses ends the program.
ProcessUpdate(u) ==
  LET orders == GeneratedOrders(strategy, u)
  IN  /\ strategy' = OnMarketData(strategy, u)
      /\ IF orders = {} THEN UNCHANGED vars
                        ELSE \E o \in orders : Enqueue(o)
      /\ outcome' = IF orders # {} /\ pipeline'["orders_enqueued"] =
                                        pipeline["orders_enqueued"]
                    THEN "check_failed" ELSE outcome

\* A line that does not parse ends the program too.
ProcessParsed(parsed) ==
  IF parsed.status = "kOk" THEN ProcessUpdate(parsed.update)
  ELSE /\ outcome' = "check_failed"
       /\ UNCHANGED <<vars, strategy>>

\* ProcessEvents ends with Drain.
BatchDrain ==
  /\ Running /\ batch.count > 0
  /\ batch.done = batch.count
  /\ BeginDrain
  /\ UNCHANGED benchVars

\* Mutant: a batch ends without Drain.
BatchDrainStepSkipped ==
  /\ Running /\ pc = "drain"
  /\ pc' = "idle"
  /\ EndBatch
  /\ UNCHANGED <<wiring, tracker, exchange, gateway, queue, risk, pipeline,
                 last_risk_reject_reason, loopVars, outcome, strategy>>

\* When Drain returns the batch is over.
BatchDrainStep ==
  /\ Running /\ pc = "drain"
  /\ DrainStep
  /\ IF pc' = "drain" THEN UNCHANGED <<event_index, batch, samples>>
                       ELSE EndBatch
  /\ UNCHANGED <<loopVars, outcome, strategy>>

CaptureCounters ==
  [signals_seen      |-> strategy.signals_seen,
   orders_generated  |-> strategy.orders_generated,
   orders_enqueued   |-> pipeline["orders_enqueued"],
   orders_dropped    |-> pipeline["orders_dropped_on_enqueue"],
   orders_drained    |-> pipeline["orders_drained"],
   pipeline_accepted |-> pipeline["orders_accepted"],
   pipeline_rejected |-> pipeline["orders_rejected"],
   gateway_sent      |-> gateway["orders_sent"],
   gateway_accepted  |-> gateway["orders_accepted"],
   gateway_rejected  |-> gateway["orders_rejected"]]

\* A stage constructs its own SystemState.
NewSystemState ==
  /\ exchange' = NewExchange /\ gateway' = NewGateway /\ queue' = <<>>
  /\ pipeline' = [c \in PipelineCounter |-> 0]
  /\ strategy' = NewStrategy

\* What no stage touches: there is no risk manager and no tracker, and a
\* stage ends between calls.
unusedVars == <<wiring, tracker, risk, last_risk_reject_reason, pc>>

----------------------------------------------------------------------------
(* Stages and trials *)

\* The two measurements of a trial; odd trials start with the first.
Measurements == [bench_parser          |-> <<"baseline", "parser">>,
                 bench_end_to_end      |-> <<"baseline", "path">>,
                 bench_path_comparison |-> <<"kText", "kPrepared">>]

FirstMeasured(trial) ==
  Measurements[config.program][IF trial % 2 = 1 THEN 1 ELSE 2]

LastMeasured(trial) ==
  Measurements[config.program][IF trial % 2 = 1 THEN 2 ELSE 1]

\* The memory reserved when a stage is over: for the trials, or for the
\* samples.
Reserved == CASE stage = "stabilization" -> config.trials
              [] stage = "warmup"        -> timed_batches
              [] OTHER                   -> 0

\* A stage's loop is over.  An invalid result ends the program, and so does
\* memory that cannot be reserved: nothing catches the exception.
FinishLoop(valid, reserved) ==
  /\ Running /\ InLoop /\ batch = NoBatch
  /\ event_index >= iterations
  /\ outcome' = IF ~valid THEN "check_failed"
                ELSE IF reserved > MaxElements THEN "aborted" ELSE outcome
  /\ event_index' = 0
  /\ samples' = <<>>
  /\ UNCHANGED <<config, batch>>

\* ++trial_index, which may wrap; the first trial, the next one, or none.
NextTrial ==
  /\ trial_index' = (trial_index + 1) % 2^Width
  /\ stage' = IF trial_index' <= config.trials THEN "warmup" ELSE "report"

\* The stages in the order of bench_parser and bench_end_to_end.
NextStage ==
  \/ /\ stage = "warmup"
     /\ stage' = FirstMeasured(trial_index) /\ UNCHANGED trial_index
  \/ /\ stage = FirstMeasured(trial_index)
     /\ stage' = LastMeasured(trial_index) /\ UNCHANGED trial_index
  \/ stage \in {"stabilization", LastMeasured(trial_index)} /\ NextTrial

\* A measurement adds its result: what was measured and the work it did.
Measured(name, work) ==
  trials' = IF Timed THEN Append(trials, [trial |-> trial_index,
                                          name |-> name, work |-> work,
                                          samples |-> samples])
                     ELSE trials

\* The end of main: the CSV file, if one is asked for, may fail to be
\* written.
FinishReport ==
  /\ Running /\ stage = "report"
  /\ outcome' \in {"ok"} \cup (IF config.csv_path THEN {"csv_failed"} ELSE {})
  /\ UNCHANGED <<vars, loopVars, event_index, batch, samples, strategy>>

============================================================================
