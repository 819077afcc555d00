-------------------------- MODULE MCOrderLifecycle --------------------------
(* Small instances of OrderLifecycleSpec, and of what it prints, for TLC. *)
EXTENDS ReportText, TLC

\* The reasons that several sources share, converted by different switches.
MCReasons == [kRisk |-> {"kNone", "kInvalidPrice"},
              kExchange |-> {"kNone", "kInvalidPrice"},
              kCancel |-> {"kNone", "kInvalidState"},
              kAmend |-> {"kNone", "kInvalidState"}]

MCSymmetry == Permutations(SeqId)
============================================================================
