------------------------- MODULE BenchmarkPrograms -------------------------
(***************************************************************************)
(* The three benchmark programs and the inputs each can be asked for.      *)
(***************************************************************************)

Program == {"bench_parser", "bench_end_to_end", "bench_path_comparison"}

InputsNames == [bench_parser          |-> {"single", "varied"},
                bench_end_to_end      |-> {"mixed", "all-orders"},
                bench_path_comparison |-> {"no-orders", "mixed", "all-orders"}]

============================================================================
