---------------------------- MODULE MCBenchmarks ----------------------------
(* A small instance of Benchmarks for TLC. *)
EXTENDS Benchmarks, TLC

CONSTANTS c1, c2, c3, MaxIterations, MaxTrials, MaxBatch

\* No risk manager reads these.
MCRiskLimits == [max_order_quantity |-> 0, max_order_notional |-> FromInt(0),
                 allowed_symbols |-> <<<<c1>>>>, allowed_symbol_count |-> 0]

MCWirings == {BenchWiring}

MCMinSpread == FromInt(2)

Text(t) == [Blank EXCEPT !.text = t]

Num(n) == [text |-> <<c1>>, double |-> {FromInt(n)}, uint32 |-> {n},
           uint64 |-> {n}]

Quote(symbol, bid, ask) ==
  [fields |-> <<Text(symbol), Num(bid), Num(1), Num(ask), Num(1), Num(1)>>,
   cr |-> FALSE]

\* Three inputs, so that the mixed workload does not repeat evenly.
MCNames == <<<<c3>>, <<c3>>, <<c3>>>>

MCWideLines == <<Quote(<<c1>>, 2, 4), Quote(<<c2>>, 2, 5),
                 Quote(<<c1>>, 3, 6)>>

MCNarrowLines == <<Quote(<<c1>>, 2, 3), Quote(<<c2>>, 2, 2),
                   Quote(<<c1>>, 3, 4)>>

MCBuildInputs ==
  [single |-> <<MCWideLines[1]>>, varied |-> MCNarrowLines,
   mixed |-> <<MCWideLines[1], MCNarrowLines[2], MCNarrowLines[3]>>] @@
  ("all-orders" :> <<MCWideLines[1], MCWideLines[2]>>)

\* With Width = 3, the parser benchmark has every batch size, and one
\* program the largest number of trials.
MCConfigs ==
  UNION {[program : {p},
          stabilization_iterations : {2},
          warmup_iterations : {1, 2},
          measured_iterations : 1..MaxIterations,
          trials : 1..MaxTrials
                     \cup IF p = "bench_parser" THEN {2^Width - 1} ELSE {},
          batch_size : 1..IF p = "bench_parser" THEN 2^Width - 1 ELSE MaxBatch,
          inputs : InputsNames[p],
          csv_path : {TRUE}] : p \in Program}
=============================================================================
