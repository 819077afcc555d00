----------------------------- MODULE Benchmarks -----------------------------
(***************************************************************************)
(* The three benchmark programs from main to its return: the configuration *)
(* says which of them runs.                                                *)
(***************************************************************************)
EXTENDS EndToEndBenchmark, PathComparison, ParserBenchmark

benchmarkVars == <<vars, benchVars, pathVars, checksum>>

BenchmarksInit == SystemInit /\ PathInit /\ checksum = <<>>

BenchmarksNext ==
  \/ (ParseArgs \/ EndToEndNext \/ FinishReport) /\ UNCHANGED <<pathVars, checksum>>
  \/ PathNext /\ UNCHANGED checksum
  \/ ParserNext /\ UNCHANGED pathVars

\* The thread runs until main returns.
BenchmarksSpec ==
  /\ BenchmarksInit /\ [][BenchmarksNext]_benchmarkVars
  /\ WF_benchmarkVars(BenchmarksNext)

----------------------------------------------------------------------------
(* Properties *)

\* None of the checks that end a program fires: the lines parse, no order is
\* dropped (ParseArgs bounds the batch by the buffer and every batch ends
\* with a Drain), and the counters validate, in the path comparison against
\* a number of orders predicted from the workload alone.
ChecksNeverFire == outcome # "check_failed"

\* Nothing is left over from one batch to the next, so a timing sample
\* measures the events of its own batch: between batches the buffer is
\* empty, and the book holds one order for each id the strategy has given
\* out.  A measurement of the path comparison goes on where its warmup
\* stopped, and never meets an id of the warmup again.
BatchesStartClean ==
  /\ config.program # "bench_parser"
  /\ InLoop /\ stage # "baseline" /\ batch = NoBatch
  => /\ queue = <<>>
     /\ DOMAIN exchange.active = 1..(strategy.next_sequence_id - 1)
     /\ strategy.signals_seen =
          event_index + IF stage = "measured" THEN config.warmup_iterations
                                              ELSE 0

Sequence == INSTANCE SequencesExt

Sum(s) == Sequence!FoldLeft(+, 0, s)

\* Every event is in exactly one timing sample, also when the last batch is
\* a partial one; and unless the sum in BatchCount wraps (bench_parser
\* bounds its batch size by nothing), the number of batches reported is the
\* number of samples taken.
SamplesAreAllBatches ==
  Timed /\ batch = NoBatch /\ event_index >= iterations =>
    /\ Sum(samples) = config.measured_iterations
    /\ config.measured_iterations + config.batch_size <= 2^Width =>
         Len(samples) = timed_batches

\* Each trial has made both measurements, and neither of them went first
\* more than once more often ("path_order_alternates_between_trials", which
\* bench_path_comparison prints and all three do).
MeasurementsAlternate ==
  LET first(name) == {t \in 1..config.trials : trials[2 * t - 1].name = name}
  IN  /\ Len(trials) = 2 * config.trials
      /\ \A t \in 1..config.trials :
           /\ trials[2 * t - 1].trial = t /\ trials[2 * t].trial = t
           /\ trials[2 * t - 1].name # trials[2 * t].name
      /\ Cardinality(first(FirstMeasured(1))) -
           Cardinality(first(LastMeasured(1))) \in 0..1

\* The trials are comparable: whichever measurement went first, each ran on
\* a system as good as new, saw the same inputs and was timed in the same
\* batches.  The two paths of the path comparison even send the same orders
\* and leave the same book at the exchange (the program compares counts).
\* In the end none is missing and the order has alternated.
TrialsAreComparable ==
  /\ \A i, k \in 1..Len(trials) :
       /\ trials[i].samples = trials[k].samples
       /\ \/ trials[i].name = trials[k].name
          \/ config.program = "bench_path_comparison"
          => trials[i].work = trials[k].work
  /\ stage = "report" => MeasurementsAlternate

\* Batching is invisible in the work of bench_parser: whatever the batch
\* size, the baseline has touched every input in turn, as often as asked
\* for, and the parser has parsed the same.
BatchingIsInvisible ==
  \A k \in 1..Len(trials) :
    config.program = "bench_parser" =>
      trials[k].work =
        [n \in 1..config.measured_iterations |->
           LET all  == BuildInputs[config.inputs]
               line == all[((n - 1) % Len(all)) + 1]
           IN  IF trials[k].name = "baseline" THEN line
               ELSE ParseMarketDataLine(line).update]

\* The programs end, whatever configuration they are given, although
\* trial_index would wrap before it exceeds the largest number of trials:
\* the vector of the trials cannot be reserved.
BenchmarksReturn == <>(outcome # "running")

============================================================================
