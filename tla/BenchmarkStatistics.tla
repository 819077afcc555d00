------------------------ MODULE BenchmarkStatistics ------------------------
(***************************************************************************)
(* What the benchmarks do before and after they measure: they parse their  *)
(* arguments (BenchmarkArguments), and summarize the timing samples of as  *)
(* many trials as they were asked for.  Summarize makes the distribution   *)
(* of a trial from its samples, BuildCrossTrialSummary the medians of      *)
(* several trials; the three programs repeat this code.  A time is a       *)
(* natural number (samples are compared, never computed with); throughput  *)
(* is left out, and what is measured is in Benchmarks.                     *)
(***************************************************************************)
EXTENDS BenchmarkArguments

CONSTANTS
  Time,            \* the values of a sample
  Lengths,         \* Lengths[trial]: the numbers of samples looked at; the
                   \* samples in between are equal (a bound, on the trials too)
  MaxSummarized    \* bound on the arguments of the programs followed so far

ASSUME StatisticsAssumption ==
  /\ Time \subseteq Nat
  /\ Lengths \in Seq(SUBSET (Nat \ {0}))
  /\ MaxSummarized \in Nat

VARIABLES
  samples,       \* samples_ns_per_op of the current trial
  trials         \* the distributions of the trials before

statisticsVars == <<samples, trials>>

\* A value in its place in a sorted sequence.
Inserted(s, value) ==
  InsertAt(s, Min({k \in DOMAIN s : s[k] > value} \cup {Len(s) + 1}), value)

sorted(values) == FoldLeft(Inserted, <<>>, values)

\* Mutant: the rank is rounded up.
PercentileRoundedUp(sorted_values, numerator) ==
  IF sorted_values = <<>> THEN 0
  ELSE sorted_values[(((Len(sorted_values) - 1) * numerator + 99) \div 100) + 1]

\* The denominator is always 100.
Percentile(sorted_values, numerator) ==
  IF sorted_values = <<>> THEN 0
  ELSE sorted_values[(((Len(sorted_values) - 1) * numerator) \div 100) + 1]

Distribution(s) ==
  [min |-> s[1], p50 |-> Percentile(s, 50), p95 |-> Percentile(s, 95),
   p99 |-> Percentile(s, 99), max |-> s[Len(s)]]

\* Mutant: the samples stay in the order they were taken.
SummarizeUnsorted(values) == Distribution(values)

Summarize(values) == Distribution(sorted(values))

\* Mutant: the first trial is always in.
SelectedAll(first_index) == trials

\* The trials that a cross-trial summary is of.
Selected(first_index) == SubSeq(trials, first_index + 1, Len(trials))

Median(percentile, first_index) ==
  Percentile(sorted([k \in DOMAIN Selected(first_index) |->
                       Selected(first_index)[k][percentile]]), 50)

BuildCrossTrialSummary(first_index) ==
  [trial_count |-> Len(Selected(first_index)),
   p50 |-> Median("p50", first_index), p95 |-> Median("p95", first_index),
   p99 |-> Median("p99", first_index)]

AllTrials == BuildCrossTrialSummary(0)

\* Printed when there is more than one trial.
SteadyState == BuildCrossTrialSummary(1)

TakeSamples ==
  /\ outcome = "ok" /\ Len(argv) <= MaxSummarized
  /\ Len(trials) < config.numbers.trials /\ Len(trials) < Len(Lengths)
  /\ LET longer == {n \in Lengths[Len(trials) + 1] : n > Len(samples)}
     IN  /\ longer # {}
         /\ \E t \in Time :
              samples' = [k \in 1..Min(longer) |->
                            IF k \in DOMAIN samples THEN samples[k] ELSE t]
  /\ UNCHANGED <<argumentVars, trials>>

\* A trial has a sample for each of its batches, so at least one.
FinishTrial ==
  /\ samples # <<>>
  /\ trials' = Append(trials, Summarize(samples))
  /\ samples' = <<>>
  /\ UNCHANGED argumentVars

Init == ArgumentsInit /\ samples = <<>> /\ trials = <<>>

Next == \/ ArgumentsNext /\ UNCHANGED statisticsVars
        \/ TakeSamples \/ FinishTrial

vars == <<argumentVars, statisticsVars>>

Spec == Init /\ [][Next]_vars

----------------------------------------------------------------------------
(* Properties *)

Count(s, Test(_)) == Cardinality({k \in DOMAIN s : Test(s[k])})

Rank == [p50 |-> 50, p95 |-> 95, p99 |-> 99]

\* A reported percentile is the sample of that rank, rounded down: at most
\* its share of the n - 1 steps between the samples lies below it, and more
\* than its share at or below it; the extremes are those of the samples.
PercentilesAreRanks ==
  samples # <<>> =>
    LET d == Summarize(samples)
        share(p) == (Len(samples) - 1) * Rank[p]
    IN  /\ \A p \in DOMAIN Rank :
             /\ 100 * Count(samples, LAMBDA v : v < d[p]) <= share(p)
             /\ 100 * Count(samples, LAMBDA v : v <= d[p]) > share(p)
        /\ \A k \in DOMAIN samples : samples[k] \in d.min..d.max

\* Samples draw a percentile towards themselves: slower ones never lower it
\* and faster ones never raise it, although the rank moves as they come.
SamplesDrawPercentiles ==
  [][\A p \in DOMAIN Rank :
       samples # <<>> /\ trials' = trials =>
         LET before == Summarize(samples)[p]
             after  == Summarize(samples')[p]
         IN  /\ Last(samples') >= before => after >= before
             /\ Last(samples') <= before => after <= before]_vars

\* The summaries of several trials: at least half of the trials are at or
\* below a median and half at or above it, medians are ordered as their
\* percentiles are, and the steady state is that of the trials without the
\* first, as if that had never been run.
MediansSummarizeTrials ==
  Len(trials) > 1 =>
    /\ \A p \in DOMAIN Rank :
         LET values == [k \in DOMAIN trials |-> trials[k][p]]
             steady == Tail(values)
             IsMedian(m, s) ==
               /\ 2 * Count(s, LAMBDA v : v <= m) >= Len(s)
               /\ 2 * Count(s, LAMBDA v : v >= m) >= Len(s)
         IN  IsMedian(AllTrials[p], values) /\ IsMedian(SteadyState[p], steady)
    /\ \A s \in {AllTrials, SteadyState} : s.p50 <= s.p95 /\ s.p95 <= s.p99
    /\ SteadyState.trial_count = AllTrials.trial_count - 1

============================================================================
