----------------------- MODULE MCBenchmarkStatistics -----------------------
(* A small instance of BenchmarkArguments and BenchmarkStatistics. *)
EXTENDS BenchmarkStatistics

Word(w) == [word |-> w, digits |-> <<>>]

Number(digits) == [word |-> "", digits |-> digits]

\* Two of the five numeric flags, each other flag, a word that is a value of
\* two programs, one that is a value of the third, and numbers that are zero,
\* in range, beyond the capacity, and beyond Width = 3 bits: 8 wraps to zero
\* and 11 to three.
MCArgument ==
  {Word(w) : w \in {"--warmup", "--batch-size", "--workload", "--input-set",
                    "--csv", "-h", "mixed", "single"}}
    \cup {Number(n) : n \in {<<>>, <<0>>, <<2>>, <<6>>, <<8>>, <<1, 1>>}}

\* Four trials, one for each entry of MCLengths.
MCDefaultNumbers == [field \in NumericField |-> IF field = "trials" THEN 4
                                                ELSE 1]

\* From 22 samples on p95, p99 and the maximum are three different ranks.
MCLengths == <<{1, 2, 3, 4, 22, 23, 24}, {1, 2, 22}, {1, 2}, {1}>>

============================================================================
