------------------------- MODULE BenchmarkArguments -------------------------
(***************************************************************************)
(* ParseArgs of the three benchmark programs, one argument or flag with    *)
(* its value at a time.  The programs differ in the flag that chooses the  *)
(* inputs, in the values it takes, and in whether the batch is bounded.    *)
(* An argument is a number, written as its digits, or a word: any text     *)
(* with a character that is not a digit.  size_t has Width bits.           *)
(***************************************************************************)
EXTENDS Naturals, FiniteSets, SequencesExt, BenchmarkPrograms

CONSTANTS
  Argument,       \* [word : STRING, digits : Seq(0..9)], see IsArgument
  MaxArguments,   \* bound on argc - 1
  Width,
  Capacity,       \* kPipelineCapacity
  DefaultNumbers  \* the defaults of the numeric fields of BenchmarkConfig

NumericField == {"stabilization_iterations", "warmup_iterations",
                 "measured_iterations", "trials", "batch_size"}

IsArgument(a) == /\ a.digits \in Seq(0..9)
                 /\ a.word # "" => a.digits = <<>>

ASSUME ArgumentsAssumption ==
  /\ \A a \in Argument : IsArgument(a)
  /\ MaxArguments \in Nat /\ Width \in Nat \ {0}
  /\ Capacity \in 1..(2^Width - 1)
  /\ DefaultNumbers \in [NumericField -> 1..(2^Width - 1)]
  /\ DefaultNumbers.batch_size <= Capacity

VARIABLES
  program,
  argv,           \* without argv[0]
  i,
  config,
  outcome         \* "parsing", "ok", "usage" or "help"

argumentVars == <<program, argv, i, config, outcome>>

FlagName == [stabilization_iterations |-> "--stabilization-iterations",
             warmup_iterations        |-> "--warmup",
             measured_iterations      |-> "--iterations",
             trials                   |-> "--trials",
             batch_size               |-> "--batch-size"]

\* The flag that chooses the inputs and the values it takes.
InputsFlag == IF program = "bench_parser" THEN "--input-set" ELSE "--workload"

DefaultInputs == [bench_parser          |-> "single",
                  bench_end_to_end      |-> "mixed",
                  bench_path_comparison |-> "mixed"]

NoPath == <<>>      \* std::nullopt

ArgumentsInit ==
  /\ program \in Program
  /\ argv \in BoundedSeq(Argument, MaxArguments)
  /\ i = 1
  /\ config = [numbers |-> DefaultNumbers, inputs |-> DefaultInputs[program],
               csv_path |-> NoPath]
  /\ outcome = "parsing"

\* Mutant: zero is looked for in the text, before the number wraps.
ParseSizeTWrapsToZero(a) ==
  LET parsed == FoldLeft(LAMBDA n, d : (n * 10 + d) % 2^Width, 0, a.digits)
  IN  IF a.digits = <<>> \/ a.digits = <<0>> THEN {} ELSE {parsed}

\* The number an argument stands for, if any.  The arithmetic is that of
\* size_t, and zero is refused after it.
ParseSizeT(a) ==
  LET parsed == FoldLeft(LAMBDA n, d : (n * 10 + d) % 2^Width, 0, a.digits)
  IN  IF a.digits = <<>> THEN {} ELSE {parsed} \ {0}

Parsing == outcome = "parsing" /\ i <= Len(argv)

\* The argument after the flag, whatever it looks like, if there is one.
require_value == IF i < Len(argv) THEN {argv[i + 1]} ELSE {}

\* Mutant: the value is read but not skipped.
TakeValueAgain(newConfig) ==
  /\ config' = newConfig
  /\ i' = i + 1
  /\ UNCHANGED <<program, argv, outcome>>

\* The flag and its value are taken.
TakeValue(newConfig) ==
  /\ config' = newConfig
  /\ i' = i + 2
  /\ UNCHANGED <<program, argv, outcome>>

Refuse == /\ outcome' = "usage"
          /\ UNCHANGED <<program, argv, i, config>>

NumericFlag ==
  \E field \in NumericField :
    /\ Parsing /\ argv[i].word = FlagName[field]
    /\ LET numbers == UNION {ParseSizeT(a) : a \in require_value}
       IN  \/ \E n \in numbers : TakeValue([config EXCEPT !.numbers[field] = n])
           \/ numbers = {} /\ Refuse

InputsFlagGiven ==
  /\ Parsing /\ argv[i].word = InputsFlag
  /\ LET names == {a.word : a \in require_value} \cap InputsNames[program]
     IN  \/ \E name \in names : TakeValue([config EXCEPT !.inputs = name])
         \/ names = {} /\ Refuse

CsvFlag ==
  /\ Parsing /\ argv[i].word = "--csv"
  /\ LET paths == {a \in require_value : a.word # "" \/ a.digits # <<>>}
     IN  \/ \E path \in paths : TakeValue([config EXCEPT !.csv_path = <<path>>])
         \/ paths = {} /\ Refuse

\* The program exits at once, whatever else is on the command line.
HelpFlag ==
  /\ Parsing /\ argv[i].word \in {"--help", "-h"}
  /\ outcome' = "help"
  /\ UNCHANGED <<program, argv, i, config>>

Flags == {FlagName[field] : field \in NumericField}
           \cup {InputsFlag, "--csv", "--help", "-h"}

UnknownArgument == Parsing /\ argv[i].word \notin Flags /\ Refuse

\* bench_parser bounds the batch by nothing but its type.
BatchFits == \/ program = "bench_parser"
             \/ config.numbers.batch_size <= Capacity

EndOfArguments ==
  /\ outcome = "parsing" /\ i > Len(argv)
  /\ outcome' = IF BatchFits THEN "ok" ELSE "usage"
  /\ UNCHANGED <<program, argv, i, config>>

ArgumentsNext == \/ NumericFlag \/ InputsFlagGiven \/ CsvFlag \/ HelpFlag
                 \/ UnknownArgument \/ EndOfArguments

----------------------------------------------------------------------------
(* The command line, read as a whole *)

\* The odd arguments are flags, each followed by its value.
FlagAt(flag) == {k \in 1..Len(argv) : k % 2 = 1 /\ argv[k].word = flag}

\* The number itself, of any size.
DecimalValue(digits) == FoldLeft(LAMBDA n, d : 10 * n + d, 0, digits)

\* What the last occurrence of a flag gives, or the default.
LastValue(flag, Value(_), default) ==
  IF FlagAt(flag) = {} THEN default ELSE Value(argv[Max(FlagAt(flag)) + 1])

ConfigMeant ==
  [numbers  |-> [field \in NumericField |->
                   LastValue(FlagName[field],
                        LAMBDA a : DecimalValue(a.digits) % 2^Width,
                        DefaultNumbers[field])],
   inputs   |-> LastValue(InputsFlag, LAMBDA a : a.word, DefaultInputs[program]),
   csv_path |-> LastValue("--csv", LAMBDA a : <<a>>, NoPath)]

IsWellFormed(flag, a) ==
  \/ /\ flag \in {FlagName[field] : field \in NumericField}
     /\ a.digits # <<>> /\ DecimalValue(a.digits) % 2^Width # 0
  \/ flag = InputsFlag /\ a.word \in InputsNames[program]
  \/ flag = "--csv" /\ <<a.word, a.digits>> # <<"", <<>>>>

----------------------------------------------------------------------------
(* Properties *)

\* An accepted command line is a sequence of flags and values, of which the
\* last of each flag counts, with numbers taken modulo the width of size_t.
\* What comes out is what the loops need: no number is zero, although it may
\* have wrapped on the way, the inputs exist, and a batch fits the
\* pipeline's buffer, in whatever order the flags came.
AcceptedConfigsAreMeant ==
  outcome = "ok" =>
    /\ Len(argv) % 2 = 0 /\ config = ConfigMeant
    /\ \A field \in NumericField : config.numbers[field] \in 1..(2^Width - 1)
    /\ config.inputs \in InputsNames[program]
    /\ program # "bench_parser" => config.numbers.batch_size <= Capacity

\* A command line is refused only for a flag without a proper value, an
\* argument that is no flag, or a batch that does not fit in the end, of a
\* program that has a pipeline; a larger batch size that a later flag
\* replaces is no reason.
RefusalsHaveACause ==
  outcome = "usage" =>
    \/ \E k \in 1..Len(argv) :
         /\ k % 2 = 1 /\ argv[k].word \notin {"--help", "-h"}
         /\ k = Len(argv) \/ ~IsWellFormed(argv[k].word, argv[k + 1])
    \/ /\ program # "bench_parser"
       /\ ConfigMeant.numbers.batch_size > Capacity

============================================================================
