# A TLA+ model of the low-latency order gateway

This directory specifies the order gateway of this repository (`include/llgw`,
`src`, `benchmarks`) in TLA+, checks it with TLC on small instances and proves
parts of it with TLAPS for every instance. `PROJECT.json` lists the components,
the runs, the theorems, the hazards, and for every definition the lines of code
it models.

## 1. The system

The program is single threaded: components hold raw pointers to one another and
call each other synchronously. What is hard about it is not interleaving but
*agreement*: the same order is represented in a buffer, a tracker, a journal,
the exchange and about forty counters, each updated by its own statement, and
most pointers may be null.

| Component | State | Operations | Correct when |
|---|---|---|---|
| `RingBuffer` | array, `head_`, `tail_`, `size_` | `Push`, `Pop` | it is a bounded FIFO queue through every wrap |
| `ExecutionReportJournal` | reports, next index, 4 counters | `Record*`, `ReportsFor` | reports are numbered without gaps, totals are exact |
| `OrderLifecycleTracker` | a record per id, 16 counters, last error, journal pointer | 13 `Register*`/`Mark*` methods | only documented transitions; record, journal and counters agree; a refused call has no effect |
| `ExchangeSimulator` | ids ever accepted, active orders | `SubmitOrder`, `CancelOrder`, `AmendOrder` | an id lives once; only tradable orders are active |
| `PreTradeRiskManager` | limits (constant), 9 counters | `Check` | exactly the orders within the limits pass |
| `OrderGateway` | 10 counters, 2 pointers | `SendOrder`, `SendCancel`, `SendAmend` | tracker and exchange stay in step, a refused request is rolled back |
| `OrderPipeline` | buffer, 9 counters, 3 pointers | `Enqueue`, `Drain` | no order lost, duplicated, reordered or half way |
| `MarketDataParser` | none | `ParseMarketDataLine` | accepts well-formed, uncrossed quotes |
| `SimpleStrategy` | next id, 2 counters | `OnMarketData` | ids are fresh, one order per wide spread |
| `ReplayMarketDataFile` | result record | line loop with callback | stops at the first bad line |
| `main.cpp` | all of the above | replay, then drain | its exit code and statistics mean what they say |
| `bench_end_to_end.cpp` | arguments, stage and batch loops | `ProcessEvents`, `ValidateCounters`, trials | its own checks never fire, trials are comparable |
| `bench_path_comparison.cpp` | prepared inputs, a snapshot of the counters | two paths to the exchange, `SubtractCounters` | both paths send the same orders |
| `bench_parser.cpp` | a checksum, batches of any size | the parser alone | batching is invisible in the work done |
| the benchmarks' harness | command line, samples | `ParseArgs`, `Summarize`, `BuildCrossTrialSummary` | configurations are runnable, percentiles are ranks |

Interactions: the feed replay calls back into the strategy and then
`Enqueue`; `Enqueue` consults and updates the tracker; `Drain` pops, asks the
risk manager, marks the tracker, calls the gateway and marks the tracker again;
the gateway calls the exchange and, for cancellations and amendments, the
tracker before and after it; the tracker reports every successful transition to
the journal.

The hard behaviours, each listed at its line under `hazards` in `PROJECT.json`:
multi-step updates of two objects where the second step may fail
(`SendCancel`, `SendAmend`, `Enqueue`); reuse of ids after a
drop, a rejection, a cancellation or a direct send; every combination of null
pointers; the buffer at its limit; NaN, infinities and exact limits; views into a
line buffer that the next line overwrites; a parse error in the middle of a file
with orders still queued; measurements that share a system, numbers near the
maximum of `size_t`; termination of the loops.

## 2. Modules

| Module | Models | Built on |
|---|---|---|
| `Doubles` | the part of IEEE 754 the control flow can tell apart (external) | |
| `Messages` | `messages.hpp`, `fixed_symbol.hpp` | `Doubles` |
| `ExecutionReport` | the journal | `Messages` |
| `OrderLifecycle` | the tracker's methods, as operators on its state | `ExecutionReport` |
| `OrderLifecycleSpec` | a tracker with an arbitrary client | `OrderLifecycle` |
| `RingBuffer` | the ring buffer | |
| `BoundedFifo` | abstract: a bounded queue | |
| `ExchangeSimulator`, `PreTradeRisk` | the exchange, the risk manager | `Messages` |
| `OrderGateway` | the gateway | `OrderLifecycle`, `ExchangeSimulator` |
| `OrderPipeline` | the pipeline and everything it drives | `OrderGateway`, `PreTradeRisk` |
| `OrderBook` | abstract: what the gateway promises a client | |
| `MarketDataParser`, `SimpleStrategy`, `FeedReplay` | the market data side | `Messages` |
| `Demo` | `main.cpp` | `OrderPipeline`, `FeedReplay`, `SimpleStrategy` |
| `LineBuffer` | `SplitCsvLine` on the characters of the line buffer, the views it makes, and the orders that outlive them | |
| `ReportText` | `FormatExecutionReport` and the `ToString`s it shares names with | `OrderLifecycleSpec` |
| `BenchmarkSystem` | what the benchmarks have in common: batches, stages, trials, reserved memory | `OrderPipeline`, `MarketDataParser`, `SimpleStrategy` |
| `EndToEndBenchmark`, `PathComparison`, `ParserBenchmark` | what each does of its own | `BenchmarkSystem` |
| `Benchmarks` | the three programs, from `main` to its return | all three |
| `BenchmarkArguments`, `BenchmarkStatistics` | `ParseArgs`; `Summarize` and the cross-trial medians | `BenchmarkPrograms` |
| `RingBufferProofs`, `OrderLifecycleProofs`, `OrderPipelineProofs`, `LineBufferProofs`, `BenchmarkProofs`, `BenchmarkStatisticsProofs` | theorems (section 4); those about `Demo` are the third part of `OrderPipelineProofs`, since they use the pipeline's | the modules they are about |
| `OrderLifecycleLemmas` | what each call of the tracker does, as lemmas for the proofs | `OrderLifecycle` |
| `FoldLemmas` | what a fold of any operator computes, as lemmas for the proofs | |
| `MC*` | instances for TLC | |

**Correspondence.** An object is a record (or, for the pipeline, variables) with
a field per member of the class; enumerators keep their names. A method of a
component that another component calls is an operator from the state before the
call to the state after it, so a handler that makes several calls composes them
in the code's order, e.g. `DrainSent` applies `MarkSent` and then
`MarkExchangeAccepted` to its result. A tracker method returned `true` exactly
when `last_error` is `kNone`, which is what `Ok` reads. Counters of a class are
one function from counter names to naturals, and `Bump` is `++`; counters are
not given the width of `uint64_t`, since no run can make them wrap. `Drain` is
the only loop that another call could observe half way; each of its iterations
is a step. Mutually exclusive paths of a handler are separate disjuncts
(`EnqueueRejected`, `EnqueueDropped`, `EnqueueQueued`).

**Data.** A symbol is a short sequence of characters, so that `Assign` can refuse
one that is too long. A double is a number of ticks, an infinity or NaN, with
IEEE comparisons, overflow at `MaxFinite` and `inf - inf = NaN`; rounding is
abstracted away, and with it the strategy's `kPriceEpsilon`. A line is its
fields, and a field is its text together with what `std::from_chars` yields for
it as a `double`, `uint32_t` and `uint64_t`. The pipeline's buffer is a
sequence: `RingBuffer` is proved to implement one.

**Wiring.** `wiring` says which pointers were given. The pipeline and the gateway,
when both have a tracker, share it, as everywhere in the repository.

Definitions whose comment begins with *Mutant* are not part of the model: each
is a plausible bug for which some property is known to fail (`mutants` in
`PROJECT.json`).

## 3. What is checked

| Run | Instance | Shows |
|---|---|---|
| `ring_buffer` | 3 values, 3 slots | in range, fields agree, refines `BoundedFifo` |
| `lifecycle` | 2 ids, 2 refused calls, 2 cancel/amend requests, with and without a journal | any client, legal or not: the journal replays to the records (states and all four reasons), histories are paths of the state machine, reports are numbered, stages balance, reasons match states, refused calls have no effect; the printed reports alone tell every state under the tracker's own names, and the same reason under the same name whichever of the four switches converts it |
| `pipeline` | 3 ids, 2 slots, 4 enqueues, 2 cancels, 1 amend, wiring of `main.cpp` | tracker and exchange agree; the whole path refines `OrderBook` |
| `wirings` | 2 ids, all 32 wirings, an order also sent directly, one cancelled at the exchange behind the gateway, a NaN notional limit, an empty allow list | buffer and tracker agree, also after a refused cancellation or amendment was rolled back; the pipeline never makes a refused call, counters of all components are conserved, what the tracker misses is exactly what went past the pipeline or the gateway, ids never come back; `Drain` returns, leaving the buffer empty |
| `risk_limits` | one order for each decision, incl. exact limits, overflow and no symbol; an allow list that claims more entries than it has room for | exactly the orders within the limits go live (refines `OrderBook`); pipeline, tracker, journal and risk manager agree on the reasons of the others |
| `line_buffer` | every text of a few characters, 2 expected fields, orders made in between | the fields of a line are the texts between its commas; an order keeps the symbol it was made with while the buffer is overwritten |
| `demo` | every file of at most 4 of 13 kinds of line, 2 slots | statistics agree; exit code 1 means that nothing was sent, the orders are still in the buffer and the result names the bad line; exit code 0 means everything was settled; dispatch follows the feed's order and misses only what was dropped; `main` returns |
| `benchmarks` | the three programs, up to 5 measured events, up to 3 trials and (parser) the largest number of them, batches up to one more than the buffer or (parser) the maximum of a 3-bit `size_t` | no check fires; batches start clean; each event is in one sample; trials, and the two paths, do the same work; batching is invisible; the programs end |
| `benchmark_harness` | every command line of at most 4 of 14 arguments, 3-bit `size_t`; 4 trials of up to 24 samples | an accepted configuration is the one meant, and runnable; a refusal has a cause; percentiles are ranks, follow new samples, and medians summarize trials |
| `lifecycle_docs`, `demo_prices`, `demo_spread` | as `lifecycle`, `demo` | three statements of the docs that the code does not satisfy (section 6) |

**Bounds.** Every bound limits the client and is a constant named in the
configuration (`MaxErrors`, `MaxActions`, `MaxEnqueues`, `MaxCancels`,
`MaxAmends`, `MaxSends`, `MaxLines`, `MaxIterations`, `MaxArguments`, ...). Orders interact
only through the buffer and through shared ids: two ids give every interaction
of an order with another, a third one makes the two-slot buffer overflow while
another order is live; one more enqueue than ids forces a duplicate. Two
cancellations reach a cancelled id being cancelled or enqueued again. Through the
gateway the exchange would never refuse to cancel an order that the tracker calls
accepted; the exchange is an object of its own, though, and `DirectCancels` names
the ids a client may cancel there itself. One such id in `wirings` reaches both
rollbacks (`MarkCancelRejected`, `MarkAmendRejected` for an unknown order). Two
actions per client reach "rejected, then accepted" for amendments, the only case
in which a reason is cleared. Four lines overflow the demo's two slots and leave
room for a skipped id or a bad line. Five measured events make full and partial
batches of every size up to the buffer's, and repeat three inputs unevenly; three
trials contain both orders of the measurements, one of them twice. From 22
samples on the 95th and 99th percentile and the maximum are three ranks; samples
between the lengths looked at (`Lengths`) are equal. Four arguments are two
flags with values, enough for a flag to be given twice. Only the shortest command
lines (`MaxSummarized`) are followed into the summaries, which read nothing of
the configuration but the number of trials.

**Symmetry** is used over sequence ids, which the components only compare for
equality, and only in runs without liveness properties. In `demo` and
`benchmarks` ids are numbers, because they are compared.

**Fairness.** `Spec` of `OrderPipeline` assumes weak fairness of `DrainStep` only:
a thread inside `Drain` keeps running, while a client need not call anything.
`DemoSpec` and `BenchmarksSpec` assume weak fairness of their next-state relation:
these programs have one thread, which runs until `main` returns, and the feed
file is finite. Nothing else in the system waits.

`CHECK_DEADLOCK FALSE` is used where the system stops: the tracker's client at
its bound of refused calls, a file after its last line, a command line after its
last argument, and the programs after `main` returned.

## 4. What is proved

`RingBufferProofs` (from `Capacity \in Nat \ {0}`, the `static_assert`, and
`Default \in Value`):

- `SpecInvariant`: `Spec => [](TypeOK /\ FieldsAgree)`, and from it
  `IndexesStayInRange`. The two are inductive together: that an index wraps to the
  right slot needs the ranges.
- `RingBufferImplementsFifo`: `Spec => Fifo!Spec`. The refinement mapping reads
  `size_` slots from `head_` on. A push appends because the slot it writes,
  `tail_`, is none of those in use, which is where `FieldsAgree` and `size_ <
  Capacity` are needed; a pop takes the head and moves the others up by one.
  Modulus arithmetic is reduced once (`ModLap`) to "subtract at most one lap".

`OrderLifecycleProofs` (for every set of ids, any calls, with or without a
journal):

- `TrackerTypes`: `Spec => []TypeOK`, including every report in the journal.
- `ReasonsMatchStates`: `Spec => []ReasonIffRejected`.
- `CallsHaveLegalEffects`: `Spec => OnlyLegalEffects`.

All three follow from one lemma per method: `Sound(t, u)` says that the call from
`t` to `u` keeps the types, keeps the reasons in step with the states, does
nothing when refused, and leaves terminal orders alone. `ReasonIffRejected` is
inductive given the types, because no method leaves a terminal state and only
the two rejecting methods enter one; `RegisterQueuedSound` also shows that its
second call succeeds whenever the first one does.

The second half of the module is about the journal:

- `JournalReplays`: `Spec => []JournalReconstructsRecords`.
- `ReportsAreLegal`: `Spec => []HistoriesAreLegal`.
- `ReportsAreNumbered`: `Spec => []JournalNumbersReports`.
- `StagesAreBalanced`: `Spec => []CountersBalance`.
- `JournalIsReadable`: `Spec => []PrintedReportsTellTheState`. What it says of reasons
  concerns those of the enumeration of their source, which the C++ types ensure.

Every call is `OneStep` (`RegisterQueued` is two): it is refused and touches nothing
but the error statistics, or it makes one of twelve `Moves`, each with the report it
writes (`Reported`) and the counters it bumps. The inductive invariant `JournalInv`
adds to the four properties what they do not say: an id the tracker does not know
has an empty record and no report (`NewIfAbsent`, `Journalled`), without which its
first report could contradict an old one, and the set of orders in a stage is
finite (`StagesFinite`), without which its size could not be counted, and a report
names a source and a reason exactly if it is of that rejection (`RejectionsTold`),
which is what makes the printed line readable; that a
reason can be read back is that the four switches agree on what they share and tell
the rest apart (`SwitchesAgree`). A report is the last of its order and of
no other, so a replay changes for that order alone.

`OrderPipelineProofs`, part one (from `PipelineAssumption` and the limits being typed; for
every capacity, set of wirings, orders, amendments, ids cancelled behind the gateway
and bounds on the client):

- `PipelineTypes`: `Spec => []TypeOK`.
- `QueueAndTrackerAgree`: `Spec => []QueueMatchesTracker`.
- `OnlyRefusalsAreErrors`: `Spec => []OnlyRefusalsErr`.
- `BookMovesForward`: `Spec => BookOnlyMovesForward`.
- `BookAndTrackerAgree`: `Spec => []BookMatchesTracker`.

`TypeOK` and `QueueMatchesTracker` are inductive together (`Inv`). `Drain` calls the
tracker about an order it has just popped; that the tracker still calls that
order queued, and that no other order in the buffer has its id, is exactly
`QueueMatchesTracker`, and without it the calls could be refused. From `Inv` each
iteration makes two legal moves (`Follows`), so no error is ever counted, and
`OnlyRefusalsErr` and `BookMatchesTracker` are inductive relative to it. A request
goes through a pending state that no one else can see: the lemmas about
cancellations and amendments show both its ends at once. `BookOnlyMovesForward`
also needs that every order on the book is tradable (`BookIsTradable`), as an
amendment changes only price and quantity and the exchange checks both.
`RiskVerdict` is the part about data: the risk manager's ordered chain of checks
accepts an order exactly if it is `WithinLimits`, for all limits, including NaN,
infinite and overflowing ones.

A step is analysed for any order the client may submit (`Step`), not only for those
of the instance, so part three reuses it for the strategy's orders.

Part two counts orders across the components, and relates them to `OrderBook`:

- `OrdersConserved`: `Spec => []OrdersAreConserved`. Three parts are inductive one by
  one relative to `Inv`: what the pipeline and the risk manager count
  (`PipelineBalances`), what the gateway counts against the sizes of the exchange's
  sets (`ExchangeBalances`, which adds that these sets are finite, and where the
  orders cancelled behind the gateway went), and what the tracker counts
  (`TrackerBalances`).
- `TrackerIsNeverWrong`: `Spec => []TrackerNeverMisleads`, inductive relative to `Inv`
  and `ExchangeBalances`. The orders that the exchange has seen and the tracker calls
  neither accepted nor cancelled are those sent past the pipeline; no other step
  changes that set, because a drained order is new to the exchange and known to the
  tracker at once. An order cancelled behind the gateway stays accepted for the
  tracker, also after a request about it is refused and rolled back.
- `ReasonsAgree`: `Spec => []RiskReasonsAgree`, by `ReasonsAreTold`, which names the last
  report of the risk manager instead of choosing it. Every call of the tracker but
  `MarkRiskRejected` is `Quiet`: it reports no rejection by the risk manager, whether
  it is refused or not. That the count of a reason is the number of its reports
  rests on different reasons having different strings (`ReasonStrings`).

- `PipelineImplementsOrderBook`: `Spec => ImplementsOrderBook`, assuming
  `WiredAsInMain` (no orders are sent past the pipeline, none is cancelled behind the
  gateway, and every pointer but the journal's is given). The assumption is needed:
  without a tracker an id can be enqueued twice.

The mapping reads the status of an id off the tracker and its order off the
exchange, or off the buffer while it is queued. `MappingKnown` states it without
`CHOOSE`, which is sound because `QueueMatchesTracker` makes the queued order
unique; then every action of the pipeline is one action of the order book
(`TakeStep`, `RefuseStep`, `GoLiveStep`, `CancelStep`, `AmendStep`) or a stutter.

`LineBufferProofs` (from `LineBufferAssumption`; for every alphabet, length of a
line and number of fields):

- `SymbolsAreOwned`: `Spec => []OrdersOwnTheirSymbols`, by `ViewsAreInside`: every
  view made of a line ends inside that line, so the text it denotes in the callback
  is whole, and what `FixedSymbol` copies of it no longer depends on the buffer
  (`AssignKeepsText`).
- `SplitsAreFaithful`: `Spec => []SplitIsFaithful`. The inductive invariant
  `SplitInv` says of each step of the loop what the views made so far are: their
  texts, joined by commas, are the part of the line before the field that is
  being looked for, none of them has a comma, and they are as many as the commas
  passed. When the last field is made the part is the whole line; the other ways
  out each have the reason that their status names.

`OrderPipelineProofs`, part three (the assumptions of the pipeline; for every file, capacity, wiring and
set of limits):

- `StatisticsAlwaysAgree`: `DemoSpec => []StatisticsAgree`.
- `FailedReplaysSendNothing`: `DemoSpec => []FailedReplaySendsNothing`: before the
  file is read, and in a run that exits with 1, no order was checked or sent and
  every order enqueued is in the buffer, where the tracker calls it queued; and `main`
  exits with 1 exactly when the replay's result says that the file did not open or
  that the last line read is bad. It rests on `StillQueued` (an enqueue puts the
  order in buffer and tracker together, as `QueueMatchesTracker` holds before and
  after) and on `ExitTellsWhy`, which follows the result through the loop.
- `DispatchesInOrder`: `DemoSpec => []DispatchInOrder`: dispatches are reported in the
  order the strategy made the orders, what is in the buffer is newer, and with a
  tracker and a journal only the orders dropped are in neither. The last part
  counts: every step of `Drain` writes one report of a dispatch (`OneDispatch`) and
  every other step none (`SameDispatches`).
- `SuccessSettles`: `DemoSpec => []SuccessSettlesEverything`, assuming `WiredAsMain`
  (every pointer but the journal's is given, as in `main.cpp:30-33`).

The inductive invariant `DemoInv` is that of the pipeline, where `main` is
(`Control`), the first two properties, and `IdsInOrder`: every id that the tracker,
the exchange or the buffer knows has been given out by the strategy, the buffer
holds increasing ids, those that have left it are smaller than those still in it,
and the journal tells of them in that order. It is needed because the tracker
refuses an id it knows: only because the strategy's next id is newer than all of
them is no order lost other than to a full buffer. `SuccessSettles` adds that the exchange rejects nothing: what passes the
risk manager is tradable and its id is new (`PassedIsAccepted`), so an order that is
no longer queued was either rejected by the risk manager or is live.

`BenchmarkProofs` (for every set of configurations, capacity, width of `size_t` and
set of inputs; `InputLinesAssumption` and `RawLinesAssumption` say of the literals
in the programs what their names say: the lines parse to finite asks, and the wide
ones make an order while the narrow ones do not; TLC checks this of the instance):

- `ChecksStaySilent`: `BenchmarksSpec => []ChecksNeverFire`.
- `BatchesAlwaysStartClean`: `BenchmarksSpec => []BatchesStartClean`.
- `BatchingStaysInvisible`: `BenchmarksSpec => []BatchingIsInvisible`.
- `TrialsStayComparable`: `BenchmarksSpec => []TrialsAreComparable`.
- `SamplesStayAllBatches`: `BenchmarksSpec => []SamplesAreAllBatches`.

All rest on `LoopInv`, which says where the loops are (a batch never goes past the
end of its stage, and it fits the buffer where there is one). A step moves the loops
in one of four ways (`StepMoves`), so `LoopInv` is proved once for the three programs.
The third theorem adds that the checksum is that of the operations done so far,
whatever the batches (`ChecksumInv`). For the first two, `SystemInv` says that the
whole system is a function of the events it was given: after `e` events the
strategy has made `Generated(c, e)` orders, all of them have been sent but for
those of the current batch, no counter says anything else, and the book and the
buffer hold the orders made by the first, second, ... event that makes one
(`NthGenerating`). It has to fix the content of the buffer, not only its length, for
the exchange to accept what is drained, and the snapshot of the path comparison,
for the difference to it to validate. The program predicts the number of orders by
counting the inputs it flagged (`ExpectedOrders`); the proof identifies that number
with `Generated` as the cardinality of one set of events (`PreparedAsPredicted`).

The fourth theorem shows that a result is a function of the configuration and of
which measurement it is of (`TrialNumber`): two results are then equal because each
equals the same term. `SystemInv` and `ChecksumInv` fix the work. `SamplesInv` fixes
the samples: those taken so far are of full batches, but for a last one that ends
the stage, and only one sequence of samples adds up to given operations in that way
(`SamplesAreUnique`). `PositionInv` relates the number of results to the trial and
the measurement that is on; it needs that `trial_index` cannot wrap, which holds
because the program has reserved memory for its trials by then. That the order has
alternated is a bijection between the trials that began with either measurement, up
to the last one (`Halves`).

The fifth theorem is the end of `SamplesInv`: when the loop is over, the samples are
those of full batches but for the last one, their sum (`Sum`, a fold) is the number
of operations, and so there are as many as `BatchCount` says.

`BenchmarkStatisticsProofs` (from `ArgumentsAssumption` and `StatisticsAssumption`; for
every set of arguments, command line, width of `size_t`, and any number of samples
and trials):

- `ConfigsAreMeant`: `Spec => []AcceptedConfigsAreMeant`.
- `RefusalsAreCaused`: `Spec => []RefusalsHaveACause`.
- `PercentilesAreOfSamples`: `Spec => []PercentilesAreRanks`.
- `SamplesDraw`: `Spec => SamplesDrawPercentiles`.
- `MediansAreOfTrials`: `Spec => []MediansSummarizeTrials`.

The first two rest on `ArgumentsInv`: `ParseArgs` is at an odd argument, and the
configuration is what the flags before it mean (`ConfigRead`), so at the end it is
what the whole command line means (`AllIsRead`). `ParseSizeT` wraps after every digit,
the meaning of a number only in the end; `ParsedIsValue` shows that both give the
same (`WrapDigit`), which is why a number can be zero although no digit is.

For the others, `SortedSorts` says that `sorted` is a permutation of the samples in
ascending order. `RankCounts` turns this into two counts: at least `r` samples are
at or below the one of rank `r`, and at least `n - r + 1` at or above it. The
properties follow by counting, since two sets that are disjoint cannot have more
than `n` positions between them (`DisjointFit`): fewer than `r` samples are below rank
`r`; a percentile that new, slower samples lowered would leave too many samples above
the old one, and one that faster samples raised too many below it, as the rank
cannot move by more than there are new samples (`RankGrows`); and medians of
pointwise ordered values are ordered (`MediansInOrder`).

**Folds.** The model sums, joins, sorts and reads digits with `FoldLeft`, which the
community modules define by a recursive function on sets of indexes. `FoldLemmas`
proves that the recursion has a solution and that it is the only one
(`FoldSolves`, `FoldsAgree`), and from it the equations of a fold of no element and of
one element more (`FoldEmpty`, `FoldAppend`). Its operator is a constant, so the proof
modules take an instance per operator (`Wrapping`, `Exact`, `Sorting`, `Joining`, `Adding`).
Induction over the length of a sequence is done on the set of lengths for which
the claim holds (`EveryNat`, from the well-foundedness of `<`).

**Only model-checked.** Liveness (`DrainTerminates`, `MainReturns`,
`BenchmarksReturn`), which the prover does not handle. All other properties of the
passing runs are theorems. Of the theorems, two have hypotheses about the
wiring, which are stated above with them.

## 5. What is not modelled

- Time: `latency_clock.hpp`, and the benchmarks' elapsed times and throughput. A
  timing sample is the number of operations it is the mean of (`Benchmarks`), or
  an arbitrary number (`BenchmarkStatistics`); the overhead of the clock pair is
  one more use of `Percentile`.
- The benchmarks' checksums, except in `ParserBenchmark`, where a checksum is the
  sequence of what was mixed into it; their output and CSV text, of which only the
  failure to write is kept; the names of their inputs.
- Other output: the demo's statistics as text, and `PrintUsage`. What
  `FormatExecutionReport` prints is modelled field by field.
- `std::from_chars` digit by digit: a field carries its results. In `LineBuffer`
  the number of fields is a parameter, 2 in the instance and 6 in the code, since
  lines of six fields are too many to enumerate.
- `BatchCount` adds before it divides, so in `bench_parser`, which bounds its
  batch size by nothing, the sum wraps near the maximum of `size_t` and the number
  of batches it reports and reserves is wrong, while the loop, which does not use
  it, is right. The model wraps with it; `SamplesAreAllBatches` promises the
  number only where the sum fits.
- Allocation failures other than that of `std::vector::reserve` on a number from
  the command line, which ends the program.
- A read error in the middle of a file, which `std::getline` does not distinguish
  from its end: `EndOfFile` may happen after any line, and nothing says what
  should be different.
- Scripts, CI and build files.

## 6. Where code and documents differ

- `docs/architecture.md:70` lists "finite positive prices" among the parser's
  validations. `market_data_parser.cpp:132` compares with `<=` and `>` only, and
  `std::from_chars` accepts `nan` and `inf`; run `demo_prices` shows an update
  with a price that is not finite. An order at such a price does not go live (the
  risk manager and the exchange both check), but see the next item.
- `docs/architecture.md:89` says that the strategy generates an order "when the
  spread meets a configured threshold". `simple_strategy.cpp:16` returns early only
  if the spread is *less* than it, which a NaN spread is not; run `demo_spread`
  shows a NaN bid causing a buy order at the (finite) ask.
- `docs/order_lifecycle.md:19` says that risk rejected, exchange accepted and
  exchange rejected "are terminal". Since cancellations and amendments were
  added an accepted order moves on (`order_lifecycle.cpp:193`, `:259`); run
  `lifecycle_docs` shows it.

## 7. Plan

Done: all components with logic of their own are modelled; the ring buffer is
proved to be a queue, the tracker's records, journal and counters to agree, the
risk manager's counters to agree with the journal, the pipeline to implement the
order book, lines to be split at their commas and orders to own their symbols, the
demo's statistics and exit codes to mean what they say, the benchmarks' checks to
stay silent and their trials to be comparable, and their arguments and summaries to
mean what they say. What is left to TLC is liveness (end of section 4).
