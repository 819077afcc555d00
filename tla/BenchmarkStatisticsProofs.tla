--------------------- MODULE BenchmarkStatisticsProofs ---------------------
(***************************************************************************)
(* Proofs about what the benchmark programs do around their measurements,  *)
(* for every set of arguments, every width of size_t, and any samples: an  *)
(* accepted command line is read as it is meant and a refused one has a    *)
(* cause; percentiles are the samples of their ranks, and medians halve    *)
(* the trials.                                                             *)
(***************************************************************************)
EXTENDS BenchmarkStatistics, SequenceTheorems, FiniteSetTheorems,
        WellFoundedInduction, TLAPS

----------------------------------------------------------------------------
(* Numbers. *)

\* The number of values of a size_t.
Modulus == 2^Width

LEMMA ModulusType == Modulus \in Nat /\ Modulus > 1
BY ArgumentsAssumption DEF Modulus

WrappedDigit(n, d) == (n * 10 + d) % 2^Width

ExactDigit(n, d) == 10 * n + d

Wrapping == INSTANCE FoldLemmas WITH op <- WrappedDigit

Exact == INSTANCE FoldLemmas WITH op <- ExactDigit

LEMMA DecimalValueIsFold ==
  \A digits : DecimalValue(digits) = Exact!LeftFold(0, digits)
BY DEF DecimalValue, FoldLeft, MapThenFoldSet, Max, ExactDigit,
       Exact!LeftFold, Exact!IsFold, Exact!IsFoldOver, Exact!Latest

LEMMA ParseSizeTIsFold ==
  \A a : ParseSizeT(a) = IF a.digits = <<>> THEN {}
                         ELSE {Wrapping!LeftFold(0, a.digits)} \ {0}
BY DEF ParseSizeT, FoldLeft, MapThenFoldSet, Max, WrappedDigit,
       Wrapping!LeftFold, Wrapping!IsFold, Wrapping!IsFoldOver,
       Wrapping!Latest

\* A remainder is the only one.
LEMMA RemainderIs ==
  ASSUME NEW m \in Nat \ {0}, NEW q \in Nat, NEW r \in 0..(m - 1)
  PROVE  (m * q + r) % m = r
<1> DEFINE x == m * q + r
           p == x \div m
           y == x % m
<1>1. m * q \in Nat /\ x \in Nat
  OBVIOUS
<1>2. p \in Nat /\ y \in 0..(m - 1) /\ x = m * p + y
  <2> HIDE DEF x
  <2> QED BY <1>1
<1>3. m * q + r = m * p + y
  BY <1>2
<1> HIDE DEF x, p, y
<1>4. ~(q >= p + 1)
  <2> SUFFICES ASSUME q >= p + 1 PROVE FALSE
    OBVIOUS
  <2>1. PICK k \in Nat : q = p + 1 + k
    <3>1. q - (p + 1) \in Nat /\ q = p + 1 + (q - (p + 1))
      BY <1>2
    <3> QED BY <3>1
  <2>2. m * q = m * p + m + m * k /\ m * k >= 0 /\ m * p \in Nat
    BY <1>2, <2>1
  <2> QED BY <1>1, <1>2, <1>3, <2>2
<1>5. ~(p >= q + 1)
  <2> SUFFICES ASSUME p >= q + 1 PROVE FALSE
    OBVIOUS
  <2>1. PICK k \in Nat : p = q + 1 + k
    <3>1. p - (q + 1) \in Nat /\ p = q + 1 + (p - (q + 1))
      BY <1>2
    <3> QED BY <3>1
  <2>2. m * p = m * q + m + m * k /\ m * k >= 0 /\ m * q \in Nat
    BY <1>2, <2>1
  <2> QED BY <1>1, <1>2, <1>3, <2>2
<1>6. p = q
  BY <1>2, <1>4, <1>5
<1>7. y = r
  <2>1. m * q \in Nat /\ m * p = m * q
    BY <1>1, <1>6
  <2> QED BY <1>2, <1>3, <2>1
<1> QED BY <1>7 DEF x, y

\* Wrapping after each digit is wrapping in the end.
LEMMA WrapDigit ==
  ASSUME NEW m \in Nat \ {0}, NEW n \in Nat, NEW d \in Nat
  PROVE  ((n % m) * 10 + d) % m = (10 * n + d) % m
<1> DEFINE q == n \div m
           r == n % m
           x == r * 10 + d
           p == x \div m
           y == x % m
<1>1. q \in Nat /\ r \in Nat /\ n = m * q + r
  OBVIOUS
<1>2. x \in Nat
  BY <1>1
<1>3. p \in Nat /\ y \in 0..(m - 1) /\ x = m * p + y
  <2> HIDE DEF x
  <2> QED BY <1>2
<1> HIDE DEF q, r, x, p, y
<1>4. 10 * n + d = m * (10 * q + p) + y
  <2>1. m * q \in Nat /\ m * p \in Nat /\ y \in Nat
    BY <1>1, <1>3
  <2>2. 10 * n + d = 10 * (m * q) + 10 * r + d
    BY <1>1, <2>1
  <2>3. 10 * n + d = 10 * (m * q) + x
    BY <1>1, <2>1, <2>2 DEF x
  <2>4. m * (10 * q + p) = 10 * (m * q) + m * p
    BY <1>1, <1>3
  <2> QED BY <1>3, <2>1, <2>3, <2>4
<1>5. (10 * n + d) % m = y
  <2>1. 10 * q + p \in Nat
    BY <1>1, <1>3
  <2> DEFINE k == 10 * q + p
  <2> HIDE DEF k
  <2>2. k \in Nat /\ 10 * n + d = m * k + y
    BY <1>4, <2>1 DEF k
  <2>3. (m * k + y) % m = y
    BY <1>3, <2>2, RemainderIs
  <2> QED BY <2>2, <2>3
<1> QED BY <1>5 DEF y, x, r

LEMMA ParsedIsValue ==
  \A digits \in Seq(0..9) :
    /\ DecimalValue(digits) \in Nat
    /\ Wrapping!LeftFold(0, digits) = DecimalValue(digits) % Modulus
<1> DEFINE Read(digits) ==
             /\ Exact!LeftFold(0, digits) \in Nat
             /\ Wrapping!LeftFold(0, digits) =
                  Exact!LeftFold(0, digits) % Modulus
           Done == {n \in Nat : \A digits \in Seq(0..9) :
                                  Len(digits) = n => Read(digits)}
<1>1. 0 \in Done
  <2>1. \A digits \in Seq(0..9) : Len(digits) = 0 => digits = <<>>
    BY EmptySeq
  <2>2. 0 % Modulus = 0
    BY ModulusType
  <2> QED BY <2>1, <2>2, Exact!FoldEmpty, Wrapping!FoldEmpty
<1>2. ASSUME NEW n \in Nat, n \in Done PROVE n + 1 \in Done
  <2> SUFFICES ASSUME NEW digits \in Seq(0..9), Len(digits) = n + 1
               PROVE  Read(digits)
    OBVIOUS
  <2> DEFINE d == digits[n + 1]
             rest == SubSeq(digits, 1, n)
  <2>1. /\ rest \in Seq(0..9) /\ Len(rest) = n /\ d \in 0..9
        /\ digits = Append(rest, d)
    OBVIOUS
  <2> HIDE DEF d, rest
  <2> DEFINE before == Exact!LeftFold(0, rest)
  <2>2. before \in Nat /\ Wrapping!LeftFold(0, rest) = before % Modulus
    BY <1>2, <2>1
  <2>3. Exact!LeftFold(0, digits) = ExactDigit(before, d)
    BY <2>1, Exact!FoldAppend
  <2>4. Wrapping!LeftFold(0, digits) = WrappedDigit(before % Modulus, d)
    <3>1. Wrapping!LeftFold(0, digits) =
            WrappedDigit(Wrapping!LeftFold(0, rest), d)
      BY <2>1, Wrapping!FoldAppend
    <3> QED BY <2>2, <3>1
  <2> HIDE DEF before
  <2>5. ((before % Modulus) * 10 + d) % Modulus = (10 * before + d) % Modulus
    <3>1. Modulus \in Nat \ {0} /\ d \in Nat
      BY <2>1, ModulusType
    <3> QED BY <2>2, <3>1, WrapDigit
  <2>6. WrappedDigit(before % Modulus, d) = ExactDigit(before, d) % Modulus
    BY <2>5 DEF WrappedDigit, ExactDigit, Modulus
  <2>7. ExactDigit(before, d) \in Nat
    BY <2>1, <2>2 DEF ExactDigit
  <2> QED BY <2>3, <2>4, <2>6, <2>7
<1>3. Nat \subseteq Done
  <2> HIDE DEF Done
  <2> QED BY <1>1, <1>2, Exact!EveryNat
<1>4. \A digits \in Seq(0..9) : Len(digits) \in Nat
  OBVIOUS
<1> HIDE DEF Read
<1>5. \A digits \in Seq(0..9) : Read(digits)
  BY <1>3, <1>4
<1> QED BY <1>5, DecimalValueIsFold DEF Read

----------------------------------------------------------------------------
(* The command line. *)

\* The largest of a set of numbers, if there is one.
LEMMA MaxIs ==
  ASSUME NEW S \in SUBSET Nat, NEW n \in S, \A k \in S : k <= n
  PROVE  Max(S) = n
<1>1. \A x \in S : (\A y \in S : x >= y) => x = n
  OBVIOUS
<1>2. \A y \in S : n >= y
  OBVIOUS
<1> QED BY <1>1, <1>2 DEF Max

\* No two flags have the same name.
LEMMA FlagsDiffer ==
  /\ \A field \in NumericField :
       /\ FlagName[field] \notin {InputsFlag, "--csv", "--help", "-h"}
       /\ \A other \in NumericField :
            FlagName[field] = FlagName[other] => field = other
  /\ InputsFlag \notin {"--csv", "--help", "-h"}
BY DEF NumericField, FlagName, InputsFlag

\* Where a flag is, among the arguments that have been read.
ReadFlags(flag) == {k \in FlagAt(flag) : k < i}

\* What the arguments that have been read give a field.
NumberRead(field) ==
  IF ReadFlags(FlagName[field]) = {} THEN DefaultNumbers[field]
  ELSE DecimalValue(argv[Max(ReadFlags(FlagName[field])) + 1].digits)
         % 2^Width

InputsRead == IF ReadFlags(InputsFlag) = {} THEN DefaultInputs[program]
              ELSE argv[Max(ReadFlags(InputsFlag)) + 1].word

CsvRead == IF ReadFlags("--csv") = {} THEN NoPath
           ELSE <<argv[Max(ReadFlags("--csv")) + 1]>>

ConfigRead == [numbers |-> [field \in NumericField |-> NumberRead(field)],
               inputs |-> InputsRead, csv_path |-> CsvRead]

\* The values that the loops can use.
ConfigUsable ==
  /\ \A field \in NumericField : config.numbers[field] \in 1..(2^Width - 1)
  /\ config.inputs \in InputsNames[program]

\* ParseArgs is at a flag, those before it had proper values, and the
\* configuration is what they say.
ArgumentsInv ==
  /\ program \in Program /\ argv \in Seq(Argument)
  /\ i \in 1..(Len(argv) + 1) /\ i % 2 = 1
  /\ config = ConfigRead
  /\ ConfigUsable
  /\ outcome \in {"parsing", "ok", "usage", "help"}
  /\ outcome = "ok" => i = Len(argv) + 1 /\ BatchFits
  /\ RefusalsHaveACause

LEMMA ArgumentsInitInv == ArgumentsInit => ArgumentsInv
<1> SUFFICES ASSUME ArgumentsInit PROVE ArgumentsInv
  OBVIOUS
<1>1. program \in Program /\ i = 1 /\ outcome = "parsing"
  BY DEF ArgumentsInit
<1>2. argv \in Seq(Argument)
  BY ArgumentsAssumption DEF ArgumentsInit, BoundedSeq, SeqOf
<1>3. Len(argv) \in Nat /\ i \in 1..(Len(argv) + 1) /\ i % 2 = 1
  BY <1>1, <1>2
<1>4. \A flag : ReadFlags(flag) = {}
  BY <1>1, <1>3 DEF ReadFlags, FlagAt
<1>5. config = ConfigRead
  <2>1. config = [numbers |-> DefaultNumbers,
                  inputs |-> DefaultInputs[program], csv_path |-> NoPath]
    BY DEF ArgumentsInit
  <2>2. DefaultNumbers = [field \in NumericField |-> DefaultNumbers[field]]
    BY ArgumentsAssumption
  <2>3. \A field \in NumericField : NumberRead(field) = DefaultNumbers[field]
    BY <1>4 DEF NumberRead
  <2>4. InputsRead = DefaultInputs[program] /\ CsvRead = NoPath
    BY <1>4 DEF InputsRead, CsvRead
  <2> QED BY <2>1, <2>2, <2>3, <2>4 DEF ConfigRead
<1>6. ConfigUsable
  <2>1. config.numbers = DefaultNumbers
        /\ config.inputs = DefaultInputs[program]
    BY DEF ArgumentsInit
  <2>2. \A field \in NumericField :
          DefaultNumbers[field] \in 1..(2^Width - 1)
    BY ArgumentsAssumption
  <2>3. DefaultInputs[program] \in InputsNames[program]
    BY <1>1 DEF DefaultInputs, InputsNames, Program
  <2> QED BY <2>1, <2>2, <2>3 DEF ConfigUsable
<1> QED BY <1>1, <1>2, <1>3, <1>5, <1>6 DEF ArgumentsInv, RefusalsHaveACause

\* One flag more has been read.
LEMMA NextFlagRead ==
  ASSUME ArgumentsInv, Parsing, i' = i + 2, argv' = argv, NEW flag
  PROVE  IF argv[i].word = flag
         THEN ReadFlags(flag)' # {} /\ Max(ReadFlags(flag)') = i
         ELSE ReadFlags(flag)' = ReadFlags(flag)
<1>1. /\ Len(argv) \in Nat /\ i \in 1..Len(argv) /\ i \in Nat /\ i % 2 = 1
      /\ (i + 1) % 2 = 0
  BY DEF ArgumentsInv, Parsing
<1>2. ReadFlags(flag)' = {k \in FlagAt(flag) : k < i + 2}
  BY DEF ReadFlags, FlagAt
<1>3. \A k \in FlagAt(flag) : k \in Nat /\ (k < i + 2 <=> k < i \/ k = i)
  BY <1>1 DEF FlagAt
<1>4. i \in FlagAt(flag) <=> argv[i].word = flag
  BY <1>1 DEF FlagAt
<1>5. CASE argv[i].word = flag
  <2> DEFINE S == ReadFlags(flag)'
  <2>1. S \in SUBSET Nat /\ i \in S /\ \A k \in S : k <= i
    BY <1>1, <1>2, <1>3, <1>4, <1>5
  <2> HIDE DEF S
  <2>2. Max(S) = i /\ S # {}
    BY <2>1, MaxIs
  <2> QED BY <1>5, <2>2 DEF S
<1>6. CASE argv[i].word # flag
  <2>1. ReadFlags(flag)' = ReadFlags(flag)
    BY <1>2, <1>3, <1>4, <1>6 DEF ReadFlags
  <2> QED BY <1>6, <2>1
<1> QED BY <1>5, <1>6

LEMMA FieldsRead ==
  ASSUME ArgumentsInv, Parsing, i' = i + 2, argv' = argv, program' = program
  PROVE  /\ \A field \in NumericField :
              NumberRead(field)' =
                IF argv[i].word = FlagName[field]
                THEN DecimalValue(argv[i + 1].digits) % 2^Width
                ELSE NumberRead(field)
         /\ InputsRead' = IF argv[i].word = InputsFlag
                          THEN argv[i + 1].word ELSE InputsRead
         /\ CsvRead' = IF argv[i].word = "--csv"
                       THEN <<argv[i + 1]>> ELSE CsvRead
<1>1. ASSUME NEW field \in NumericField
      PROVE  NumberRead(field)' =
                IF argv[i].word = FlagName[field]
                THEN DecimalValue(argv[i + 1].digits) % 2^Width
                ELSE NumberRead(field)
  <2> DEFINE flag == FlagName[field]
             S == ReadFlags(flag)'
             Value(k) == DecimalValue(argv[k + 1].digits) % 2^Width
  <2>1. NumberRead(field)' = IF S = {} THEN DefaultNumbers[field]
                             ELSE Value(Max(S))
    BY DEF NumberRead
  <2>2. IF argv[i].word = flag THEN S # {} /\ Max(S) = i
        ELSE S = ReadFlags(flag)
    BY NextFlagRead
  <2>3. NumberRead(field) =
          IF ReadFlags(flag) = {} THEN DefaultNumbers[field]
          ELSE Value(Max(ReadFlags(flag)))
    BY DEF NumberRead
  <2> HIDE DEF S, Value
  <2>4. NumberRead(field)' = IF argv[i].word = FlagName[field]
                             THEN Value(i) ELSE NumberRead(field)
    BY <2>1, <2>2, <2>3
  <2> QED BY <2>4 DEF Value
<1>2. InputsRead' = IF argv[i].word = InputsFlag
                    THEN argv[i + 1].word ELSE InputsRead
  <2> SUFFICES ASSUME NEW flag \in {"--input-set", "--workload"},
                      InputsFlag = flag
               PROVE  InputsRead' = IF argv[i].word = flag
                                    THEN argv[i + 1].word ELSE InputsRead
    BY DEF InputsFlag
  <2> DEFINE S == ReadFlags(flag)'
  <2>1. InputsFlag' = flag
    BY DEF InputsFlag
  <2>2. InputsRead' = IF S = {} THEN DefaultInputs[program]
                      ELSE argv[Max(S) + 1].word
    BY <2>1 DEF InputsRead, DefaultInputs
  <2>3. IF argv[i].word = flag THEN S # {} /\ Max(S) = i
        ELSE S = ReadFlags(flag)
    BY NextFlagRead
  <2> HIDE DEF S
  <2> QED BY <2>2, <2>3 DEF InputsRead
<1>3. CsvRead' = IF argv[i].word = "--csv"
                 THEN <<argv[i + 1]>> ELSE CsvRead
  <2> DEFINE S == ReadFlags("--csv")'
  <2>1. CsvRead' = IF S = {} THEN NoPath ELSE <<argv[Max(S) + 1]>>
    BY DEF CsvRead, NoPath
  <2>2. IF argv[i].word = "--csv" THEN S # {} /\ Max(S) = i
        ELSE S = ReadFlags("--csv")
    BY NextFlagRead
  <2> HIDE DEF S
  <2> QED BY <2>1, <2>2 DEF CsvRead
<1> QED BY <1>1, <1>2, <1>3

\* A flag with a proper value is one more pair read.
LEMMA TakeValueInv ==
  ASSUME ArgumentsInv, Parsing, i < Len(argv), NEW new, TakeValue(new),
         new = ConfigRead', ConfigUsable'
  PROVE  ArgumentsInv'
<1>1. /\ config' = new /\ i' = i + 2 /\ program' = program /\ argv' = argv
      /\ outcome' = "parsing"
  BY DEF TakeValue, Parsing
<1>2. i' \in 1..(Len(argv) + 1) /\ i' % 2 = 1
  <2>1. Len(argv) \in Nat /\ i \in Nat /\ i >= 1 /\ i % 2 = 1
    BY DEF ArgumentsInv
  <2> QED BY <1>1, <2>1
<1>3. RefusalsHaveACause'
  BY <1>1 DEF RefusalsHaveACause
<1> QED BY <1>1, <1>2, <1>3 DEF ArgumentsInv

\* An argument is no flag, or is one without a proper value.
Caused ==
  \E k \in 1..Len(argv) :
    /\ k % 2 = 1 /\ argv[k].word \notin {"--help", "-h"}
    /\ k = Len(argv) \/ ~IsWellFormed(argv[k].word, argv[k + 1])

\* A refusal has the flag that is read for its cause.
LEMMA RefuseInv ==
  ASSUME ArgumentsInv, Parsing, Refuse, argv[i].word \notin {"--help", "-h"},
         i = Len(argv) \/ ~IsWellFormed(argv[i].word, argv[i + 1])
  PROVE  ArgumentsInv'
<1>1. /\ config' = config /\ i' = i /\ program' = program /\ argv' = argv
      /\ outcome' = "usage"
  BY DEF Refuse
<1>2. i \in 1..Len(argv) /\ i % 2 = 1
  BY DEF ArgumentsInv, Parsing
<1>3. RefusalsHaveACause'
  <2>1. Caused
    BY <1>2 DEF Caused
  <2>2. Caused'
    BY <1>1, <2>1 DEF Caused, IsWellFormed, InputsFlag
  <2> QED BY <2>2 DEF RefusalsHaveACause, Caused
<1>4. ConfigRead' = ConfigRead /\ ConfigUsable' = ConfigUsable
  <2>1. \A flag : ReadFlags(flag)' = ReadFlags(flag)
    BY <1>1 DEF ReadFlags, FlagAt
  <2> QED BY <1>1, <2>1
      DEF ConfigRead, NumberRead, InputsRead, CsvRead, ConfigUsable,
          InputsFlag
<1> QED BY <1>1, <1>3, <1>4 DEF ArgumentsInv

LEMMA NumericFlagInv == ArgumentsInv /\ NumericFlag => ArgumentsInv'
<1> SUFFICES ASSUME ArgumentsInv, NEW field \in NumericField, Parsing,
                    argv[i].word = FlagName[field],
                    LET numbers == UNION {ParseSizeT(a) : a \in require_value}
                    IN  \/ \E n \in numbers :
                             TakeValue([config EXCEPT !.numbers[field] = n])
                        \/ numbers = {} /\ Refuse
             PROVE  ArgumentsInv'
  BY DEF NumericFlag
<1> DEFINE numbers == UNION {ParseSizeT(a) : a \in require_value}
           Value == DecimalValue(argv[i + 1].digits) % 2^Width
<1>1. /\ i \in 1..Len(argv) /\ Len(argv) \in Nat /\ argv \in Seq(Argument)
      /\ argv[i].word \notin {InputsFlag, "--csv", "--help", "-h"}
  BY FlagsDiffer DEF ArgumentsInv, Parsing
<1>2. ASSUME i < Len(argv)
      PROVE  /\ numbers = IF argv[i + 1].digits = <<>> \/ Value = 0 THEN {}
                          ELSE {Value}
             /\ Value \in 0..(2^Width - 1)
  <2>1. numbers = ParseSizeT(argv[i + 1])
    BY <1>2 DEF require_value
  <2>2. argv[i + 1].digits \in Seq(0..9)
    <3>1. argv[i + 1] \in Argument
      BY <1>1, <1>2
    <3> QED BY <3>1, ArgumentsAssumption DEF IsArgument
  <2>3. /\ Wrapping!LeftFold(0, argv[i + 1].digits) = Value
        /\ DecimalValue(argv[i + 1].digits) \in Nat
    BY <2>2, ParsedIsValue DEF Modulus
  <2>4. Value \in 0..(2^Width - 1)
    BY <2>3, ModulusType DEF Modulus
  <2> HIDE DEF Value
  <2> QED BY <2>1, <2>3, <2>4, ParseSizeTIsFold
<1>3. CASE \E n \in numbers :
             TakeValue([config EXCEPT !.numbers[field] = n])
  <2>1. i < Len(argv)
    BY <1>1, <1>3 DEF require_value
  <2>2. Value \in 1..(2^Width - 1)
    BY <1>2, <1>3, <2>1, ModulusType DEF Modulus
  <2> DEFINE new == [config EXCEPT !.numbers[field] = Value]
  <2>3. TakeValue(new)
    BY <1>2, <1>3, <2>1
  <2>4. /\ i' = i + 2 /\ argv' = argv /\ program' = program
        /\ config' = new
    BY <2>3 DEF TakeValue
  <2>5. /\ \A f \in NumericField :
             NumberRead(f)' = IF f = field THEN Value ELSE NumberRead(f)
        /\ InputsRead' = InputsRead /\ CsvRead' = CsvRead
    <3>1. \A f \in NumericField : argv[i].word = FlagName[f] <=> f = field
      BY FlagsDiffer
    <3> QED BY <1>1, <2>4, <3>1, FieldsRead
  <2> HIDE DEF Value
  <2>6. config = ConfigRead
    BY DEF ArgumentsInv
  <2>7. new = ConfigRead'
    <3>1. new = [numbers |-> [f \in NumericField |->
                                IF f = field THEN Value ELSE NumberRead(f)],
                 inputs |-> InputsRead, csv_path |-> CsvRead]
      BY <2>6 DEF ConfigRead
    <3> QED BY <2>5, <3>1 DEF ConfigRead
  <2>8. ConfigUsable'
    <3>1. /\ \A f \in NumericField : new.numbers[f] \in 1..(2^Width - 1)
          /\ new.inputs \in InputsNames[program]
      BY <2>2, <2>6 DEF ArgumentsInv, ConfigUsable, ConfigRead
    <3> HIDE DEF new
    <3> QED BY <2>4, <3>1 DEF ConfigUsable
  <2> HIDE DEF new
  <2> QED BY <2>1, <2>3, <2>7, <2>8, TakeValueInv
<1>4. CASE numbers = {} /\ Refuse
  <2>1. i = Len(argv) \/ ~IsWellFormed(argv[i].word, argv[i + 1])
    <3> SUFFICES ASSUME i < Len(argv)
                 PROVE  ~IsWellFormed(argv[i].word, argv[i + 1])
      BY <1>1
    <3>1. argv[i + 1].digits = <<>> \/ Value = 0
      BY <1>2, <1>4
    <3> QED BY <1>1, <3>1 DEF IsWellFormed
  <2> QED BY <1>1, <1>4, <2>1, RefuseInv
<1> QED BY <1>3, <1>4

LEMMA InputsFlagInv == ArgumentsInv /\ InputsFlagGiven => ArgumentsInv'
<1> SUFFICES ASSUME ArgumentsInv, InputsFlagGiven PROVE ArgumentsInv'
  OBVIOUS
<1> DEFINE names == {a.word : a \in require_value} \cap InputsNames[program]
<1>1. /\ i \in 1..Len(argv) /\ Len(argv) \in Nat /\ Parsing
      /\ argv[i].word = InputsFlag
      /\ argv[i].word \notin {"--csv", "--help", "-h"}
      /\ \A f \in NumericField : argv[i].word # FlagName[f]
  BY FlagsDiffer DEF ArgumentsInv, Parsing, InputsFlagGiven
<1>2. CASE \E name \in names : TakeValue([config EXCEPT !.inputs = name])
  <2> DEFINE name == argv[i + 1].word
             new == [config EXCEPT !.inputs = name]
  <2>1. i < Len(argv) /\ name \in InputsNames[program] /\ TakeValue(new)
    BY <1>1, <1>2 DEF require_value
  <2>2. /\ i' = i + 2 /\ argv' = argv /\ program' = program
        /\ config' = new
    BY <2>1 DEF TakeValue
  <2>3. /\ \A f \in NumericField : NumberRead(f)' = NumberRead(f)
        /\ InputsRead' = name /\ CsvRead' = CsvRead
    BY <1>1, <2>2, FieldsRead
  <2> HIDE DEF name
  <2>4. config = ConfigRead
    BY DEF ArgumentsInv
  <2>5. new = ConfigRead'
    <3>1. new = [numbers |-> [f \in NumericField |-> NumberRead(f)],
                 inputs |-> name, csv_path |-> CsvRead]
      BY <2>4 DEF ConfigRead
    <3> QED BY <2>3, <3>1 DEF ConfigRead
  <2>6. ConfigUsable'
    <3>1. /\ \A f \in NumericField : new.numbers[f] \in 1..(2^Width - 1)
          /\ new.inputs \in InputsNames[program]
      BY <2>1, <2>4 DEF ArgumentsInv, ConfigUsable, ConfigRead
    <3> HIDE DEF new
    <3> QED BY <2>2, <3>1 DEF ConfigUsable
  <2> HIDE DEF new
  <2> QED BY <1>1, <2>1, <2>5, <2>6, TakeValueInv
<1>3. CASE names = {} /\ Refuse
  <2>1. i = Len(argv) \/ ~IsWellFormed(argv[i].word, argv[i + 1])
    <3> SUFFICES ASSUME i < Len(argv)
                 PROVE  ~IsWellFormed(argv[i].word, argv[i + 1])
      BY <1>1
    <3>1. argv[i + 1].word \notin InputsNames[program]
      BY <1>3 DEF require_value
    <3> QED BY <1>1, <3>1 DEF IsWellFormed
  <2> QED BY <1>1, <1>3, <2>1, RefuseInv
<1> QED BY <1>2, <1>3 DEF InputsFlagGiven

LEMMA CsvFlagInv == ArgumentsInv /\ CsvFlag => ArgumentsInv'
<1> SUFFICES ASSUME ArgumentsInv, CsvFlag PROVE ArgumentsInv'
  OBVIOUS
<1> DEFINE paths == {a \in require_value : a.word # "" \/ a.digits # <<>>}
<1>1. /\ i \in 1..Len(argv) /\ Len(argv) \in Nat /\ Parsing
      /\ argv[i].word = "--csv" /\ argv[i].word # InputsFlag
      /\ argv[i].word \notin {"--help", "-h"}
      /\ \A f \in NumericField : argv[i].word # FlagName[f]
  <2>1. Parsing /\ argv[i].word = "--csv"
    BY DEF CsvFlag
  <2>2. i \in 1..Len(argv) /\ Len(argv) \in Nat
    BY <2>1 DEF ArgumentsInv, Parsing
  <2> QED BY <2>1, <2>2, FlagsDiffer
<1>2. CASE \E path \in paths : TakeValue([config EXCEPT !.csv_path = <<path>>])
  <2> DEFINE path == argv[i + 1]
             new == [config EXCEPT !.csv_path = <<path>>]
  <2>1. i < Len(argv) /\ TakeValue(new)
    BY <1>1, <1>2 DEF require_value
  <2>2. /\ i' = i + 2 /\ argv' = argv /\ program' = program
        /\ config' = new
    BY <2>1 DEF TakeValue
  <2>3. /\ \A f \in NumericField : NumberRead(f)' = NumberRead(f)
        /\ InputsRead' = InputsRead /\ CsvRead' = <<path>>
    BY <1>1, <2>2, FieldsRead
  <2> HIDE DEF path
  <2>4. config = ConfigRead
    BY DEF ArgumentsInv
  <2>5. new = ConfigRead'
    <3>1. new = [numbers |-> [f \in NumericField |-> NumberRead(f)],
                 inputs |-> InputsRead, csv_path |-> <<path>>]
      BY <2>4 DEF ConfigRead
    <3> QED BY <2>3, <3>1 DEF ConfigRead
  <2>6. ConfigUsable'
    <3>1. /\ \A f \in NumericField : new.numbers[f] \in 1..(2^Width - 1)
          /\ new.inputs \in InputsNames[program]
      BY <2>4 DEF ArgumentsInv, ConfigUsable, ConfigRead
    <3> HIDE DEF new
    <3> QED BY <2>2, <3>1 DEF ConfigUsable
  <2> HIDE DEF new
  <2> QED BY <1>1, <2>1, <2>5, <2>6, TakeValueInv
<1>3. CASE paths = {} /\ Refuse
  <2>1. i = Len(argv) \/ ~IsWellFormed(argv[i].word, argv[i + 1])
    <3> SUFFICES ASSUME i < Len(argv)
                 PROVE  ~IsWellFormed(argv[i].word, argv[i + 1])
      BY <1>1
    <3>1. argv[i + 1].word = "" /\ argv[i + 1].digits = <<>>
      BY <1>3 DEF require_value
    <3> QED BY <1>1, <3>1 DEF IsWellFormed
  <2> QED BY <1>1, <1>3, <2>1, RefuseInv
<1> QED BY <1>2, <1>3 DEF CsvFlag

\* Where nothing more is read, the configuration stays what was read.
LEMMA ReadUnchanged ==
  ASSUME UNCHANGED <<program, argv, i, config>>
  PROVE  /\ ConfigRead' = ConfigRead /\ ConfigUsable' = ConfigUsable
         /\ BatchFits' = BatchFits /\ ConfigMeant' = ConfigMeant
<1>1. /\ \A flag : ReadFlags(flag)' = ReadFlags(flag)
      /\ \A flag : FlagAt(flag)' = FlagAt(flag)
  BY DEF ReadFlags, FlagAt
<1>2. ConfigRead' = ConfigRead /\ ConfigUsable' = ConfigUsable
  BY <1>1 DEF ConfigRead, NumberRead, InputsRead, CsvRead, ConfigUsable,
              InputsFlag
<1>3. ConfigMeant' = ConfigMeant
  BY <1>1 DEF ConfigMeant, LastValue, InputsFlag
<1>4. BatchFits' = BatchFits
  BY DEF BatchFits
<1> QED BY <1>2, <1>3, <1>4

LEMMA HelpFlagInv == ArgumentsInv /\ HelpFlag => ArgumentsInv'
<1> SUFFICES ASSUME ArgumentsInv, HelpFlag PROVE ArgumentsInv'
  OBVIOUS
<1>1. UNCHANGED <<program, argv, i, config>> /\ outcome' = "help"
  BY DEF HelpFlag
<1> QED BY <1>1, ReadUnchanged DEF ArgumentsInv, RefusalsHaveACause

LEMMA UnknownArgumentInv == ArgumentsInv /\ UnknownArgument => ArgumentsInv'
<1> SUFFICES ASSUME ArgumentsInv, UnknownArgument PROVE ArgumentsInv'
  OBVIOUS
<1>1. Parsing /\ Refuse /\ argv[i].word \notin Flags
  BY DEF UnknownArgument
<1>2. ~IsWellFormed(argv[i].word, argv[i + 1])
  BY <1>1 DEF IsWellFormed, Flags
<1>3. argv[i].word \notin {"--help", "-h"}
  BY <1>1 DEF Flags
<1> QED BY <1>1, <1>2, <1>3, RefuseInv

\* In the end all has been read.
LEMMA AllIsRead ==
  ASSUME ArgumentsInv, i = Len(argv) + 1
  PROVE  ConfigRead = ConfigMeant
<1>1. \A flag : ReadFlags(flag) = FlagAt(flag)
  <2>1. \A k \in 1..Len(argv) : k < i
    BY DEF ArgumentsInv
  <2> QED BY <2>1 DEF ReadFlags, FlagAt
<1>2. ASSUME NEW field \in NumericField
      PROVE  NumberRead(field) =
               LastValue(FlagName[field],
                    LAMBDA a : DecimalValue(a.digits) % 2^Width,
                    DefaultNumbers[field])
  BY <1>1 DEF NumberRead, LastValue
<1>3. InputsRead =
        LastValue(InputsFlag, LAMBDA a : a.word, DefaultInputs[program])
  BY <1>1 DEF InputsRead, LastValue
<1>4. CsvRead = LastValue("--csv", LAMBDA a : <<a>>, NoPath)
  BY <1>1 DEF CsvRead, LastValue
<1> QED BY <1>2, <1>3, <1>4 DEF ConfigRead, ConfigMeant

LEMMA EndOfArgumentsInv == ArgumentsInv /\ EndOfArguments => ArgumentsInv'
<1> SUFFICES ASSUME ArgumentsInv, EndOfArguments PROVE ArgumentsInv'
  OBVIOUS
<1>1. /\ UNCHANGED <<program, argv, i, config>> /\ i > Len(argv)
      /\ outcome' = IF BatchFits THEN "ok" ELSE "usage"
  BY DEF EndOfArguments
<1>2. i = Len(argv) + 1
  BY <1>1 DEF ArgumentsInv
<1>3. RefusalsHaveACause'
  <2> SUFFICES ASSUME ~BatchFits
               PROVE  /\ program # "bench_parser"
                      /\ ConfigMeant'.numbers.batch_size > Capacity
    BY <1>1 DEF RefusalsHaveACause
  <2>1. ConfigMeant' = config
    BY <1>1, <1>2, AllIsRead, ReadUnchanged DEF ArgumentsInv
  <2>2. /\ program # "bench_parser"
        /\ Capacity \in Nat /\ config.numbers.batch_size \in Nat
        /\ ~(config.numbers.batch_size <= Capacity)
    <3>1. "batch_size" \in NumericField
      BY DEF NumericField
    <3>2. config.numbers.batch_size \in Nat
      BY <3>1 DEF ArgumentsInv, ConfigUsable
    <3> QED BY <3>2, ArgumentsAssumption DEF BatchFits
  <2> QED BY <2>1, <2>2
<1> QED BY <1>1, <1>2, <1>3, ReadUnchanged DEF ArgumentsInv

LEMMA ArgumentsNextInv == ArgumentsInv /\ [Next]_vars => ArgumentsInv'
<1> SUFFICES ASSUME ArgumentsInv, [Next]_vars PROVE ArgumentsInv'
  OBVIOUS
<1>1. CASE ArgumentsNext
  BY <1>1, NumericFlagInv, InputsFlagInv, CsvFlagInv, HelpFlagInv,
     UnknownArgumentInv, EndOfArgumentsInv DEF ArgumentsNext
<1>2. CASE UNCHANGED argumentVars
  <2>1. UNCHANGED <<program, argv, i, config>> /\ outcome' = outcome
    BY <1>2 DEF argumentVars
  <2>2. RefusalsHaveACause'
    <3>1. RefusalsHaveACause
      BY DEF ArgumentsInv
    <3>2. Caused' = Caused
      BY <2>1 DEF Caused, IsWellFormed, InputsFlag
    <3> QED BY <2>1, <3>1, <3>2, ReadUnchanged
        DEF RefusalsHaveACause, Caused
  <2> QED BY <2>1, <2>2, ReadUnchanged DEF ArgumentsInv
<1>3. Next => ArgumentsNext \/ UNCHANGED argumentVars
  BY DEF Next, TakeSamples, FinishTrial
<1> QED BY <1>1, <1>2, <1>3 DEF vars

LEMMA ArgumentsStayInv == Spec => []ArgumentsInv
<1>1. Init => ArgumentsInv
  BY ArgumentsInitInv DEF Init
<1> QED BY <1>1, ArgumentsNextInv, PTL DEF Spec

\* A command line is refused only for a flag without a proper value, for an
\* argument that is no flag, or for a batch that does not fit in the end.
THEOREM RefusalsAreCaused == Spec => []RefusalsHaveACause
<1>1. ArgumentsInv => RefusalsHaveACause
  BY DEF ArgumentsInv
<1> QED BY <1>1, ArgumentsStayInv, PTL

\* An accepted command line is flags with values, the last of each flag
\* counts, and what comes out can be run: no number has wrapped to zero, and
\* the batch fits the pipeline.
THEOREM ConfigsAreMeant == Spec => []AcceptedConfigsAreMeant
<1>1. ArgumentsInv => AcceptedConfigsAreMeant
  <2> SUFFICES ASSUME ArgumentsInv, outcome = "ok"
               PROVE  /\ Len(argv) % 2 = 0 /\ config = ConfigMeant
                      /\ ConfigUsable /\ BatchFits
    BY DEF AcceptedConfigsAreMeant, ConfigUsable, BatchFits
  <2>1. /\ i = Len(argv) + 1 /\ BatchFits /\ i % 2 = 1 /\ Len(argv) \in Nat
        /\ config = ConfigRead /\ ConfigUsable
    BY DEF ArgumentsInv
  <2>2. Len(argv) % 2 = 0
    BY <2>1
  <2> QED BY <2>1, <2>2, AllIsRead
<1> QED BY <1>1, ArgumentsStayInv, PTL

----------------------------------------------------------------------------
(* Sorting. *)

LEMMA MinIs ==
  ASSUME NEW S \in SUBSET Nat, S # {}
  PROVE  Min(S) \in S /\ \A k \in S : Min(S) <= k
<1>1. PICK n \in S : \A k \in S : <<k, n>> \notin OpToRel(<, Nat)
  BY NatLessThanWellFounded, WFMin
<1>2. \A k \in S : n <= k
  <2> SUFFICES ASSUME NEW k \in S, k < n PROVE FALSE
    OBVIOUS
  <2>1. <<k, n>> \in Nat \X Nat /\ <<k, n>>[1] < <<k, n>>[2]
    OBVIOUS
  <2> QED BY <1>1, <2>1 DEF OpToRel
<1> QED BY <1>2 DEF Min

Ascending(t) == \A j, k \in 1..Len(t) : j <= k => t[j] <= t[k]

\* t has the elements of s in ascending order, as many times each.
Sorts(t, s) ==
  /\ t \in Seq(Nat) /\ Len(t) = Len(s) /\ Ascending(t)
  /\ \E q \in Bijection(1..Len(s), 1..Len(s)) :
       \A k \in 1..Len(s) : t[k] = s[q[k]]

\* A value is inserted behind those that are not larger.
LEMMA InsertedIs ==
  ASSUME NEW t \in Seq(Nat), Ascending(t), NEW v \in Nat
  PROVE  \E p \in 1..(Len(t) + 1) :
           /\ \A k \in 1..(p - 1) : t[k] <= v
           /\ \A k \in p..Len(t) : t[k] > v
           /\ Inserted(t, v) = [k \in 1..(Len(t) + 1) |->
                IF k < p THEN t[k] ELSE IF k = p THEN v ELSE t[k - 1]]
<1> DEFINE n == Len(t)
           S == {k \in DOMAIN t : t[k] > v} \cup {n + 1}
           p == Min(S)
<1>1. n \in Nat /\ DOMAIN t = 1..n /\ \A k \in 1..n : t[k] \in Nat
  OBVIOUS
<1>2. S \in SUBSET (1..(n + 1)) /\ n + 1 \in S
  BY <1>1
<1>3. p \in S /\ \A k \in S : p <= k
  <2> HIDE DEF S
  <2>1. S \in SUBSET Nat /\ S # {}
    BY <1>1, <1>2
  <2> QED BY <2>1, MinIs
<1>4. p \in 1..(n + 1)
  BY <1>2, <1>3
<1>5. Inserted(t, v) = SubSeq(t, 1, p - 1) \o <<v>> \o SubSeq(t, p, n)
  BY DEF Inserted, InsertAt
<1> HIDE DEF p
<1>6. \A k \in 1..(p - 1) : t[k] <= v
  <2> SUFFICES ASSUME NEW k \in 1..(p - 1), ~(t[k] <= v) PROVE FALSE
    OBVIOUS
  <2>1. k \in 1..n /\ k < p
    BY <1>1, <1>4
  <2>2. t[k] > v
    BY <1>1, <2>1
  <2>3. k \in S
    BY <1>1, <2>1, <2>2
  <2> HIDE DEF S, n
  <2> QED BY <1>1, <1>3, <1>4, <2>1, <2>3
<1>7. \A k \in p..n : t[k] > v
  <2> SUFFICES ASSUME NEW k \in p..n PROVE t[k] > v
    OBVIOUS
  <2>1. p \in 1..n /\ k \in 1..n /\ p <= k
    BY <1>1, <1>4
  <2>2. t[p] > v
    BY <1>1, <1>3, <2>1
  <2>3. t[p] <= t[k]
    BY <2>1 DEF Ascending
  <2> QED BY <1>1, <2>1, <2>2, <2>3
<1> HIDE DEF S, n
<1>8. /\ SubSeq(t, 1, p - 1) \in Seq(Nat)
      /\ Len(SubSeq(t, 1, p - 1)) = p - 1
      /\ \A k \in 1..(p - 1) : SubSeq(t, 1, p - 1)[k] = t[k]
  BY <1>1, <1>4 DEF n
<1>9. /\ SubSeq(t, p, n) \in Seq(Nat)
      /\ Len(SubSeq(t, p, n)) = n - p + 1
      /\ \A k \in 1..(n - p + 1) : SubSeq(t, p, n)[k] = t[p + k - 1]
  BY <1>1, <1>4 DEF n
<1> DEFINE u == SubSeq(t, 1, p - 1)
           w == SubSeq(t, p, n)
           x == u \o <<v>> \o w
<1> HIDE DEF u, w
<1>10. u \in Seq(Nat) /\ w \in Seq(Nat) /\ Len(u) = p - 1
       /\ Len(w) = n - p + 1
  BY <1>8, <1>9 DEF u, w
<1>11. /\ x \in Seq(Nat) /\ Len(x) = n + 1
       /\ \A k \in 1..(n + 1) :
            x[k] = IF k < p THEN u[k] ELSE IF k = p THEN v ELSE w[k - p]
  <2> DEFINE y == u \o <<v>>
  <2>1. /\ y \in Seq(Nat) /\ Len(y) = p
        /\ \A k \in 1..p : y[k] = IF k < p THEN u[k] ELSE v
    <3>1. <<v>> \in Seq(Nat) /\ Len(<<v>>) = 1 /\ <<v>>[1] = v
      OBVIOUS
    <3>2. /\ y \in Seq(Nat) /\ Len(y) = Len(u) + Len(<<v>>)
          /\ \A k \in 1..(Len(u) + Len(<<v>>)) :
               y[k] = IF k <= Len(u) THEN u[k] ELSE <<v>>[k - Len(u)]
      BY <1>10, <3>1, ConcatProperties
    <3>3. p \in Nat /\ Len(u) = p - 1 /\ Len(u) + Len(<<v>>) = p
      BY <1>1, <1>4, <1>10, <3>1
    <3> HIDE DEF y
    <3>4. ASSUME NEW k \in 1..p PROVE y[k] = IF k < p THEN u[k] ELSE v
      <4>1. y[k] = IF k <= Len(u) THEN u[k] ELSE <<v>>[k - Len(u)]
        BY <3>2, <3>3
      <4>2. CASE k < p
        BY <3>3, <4>1, <4>2
      <4>3. CASE k = p
        <5>1. k - Len(u) = 1 /\ ~(k <= Len(u))
          BY <3>3, <4>3
        <5> QED BY <3>1, <3>3, <4>1, <4>3, <5>1
      <4> QED BY <3>3, <4>2, <4>3
    <3> QED BY <3>2, <3>3, <3>4
  <2> HIDE DEF y
  <2>2. /\ y \o w \in Seq(Nat) /\ Len(y \o w) = n + 1
        /\ \A k \in 1..(n + 1) :
             (y \o w)[k] = IF k <= p THEN y[k] ELSE w[k - p]
    <3>1. /\ y \o w \in Seq(Nat) /\ Len(y \o w) = Len(y) + Len(w)
          /\ \A k \in 1..(Len(y) + Len(w)) :
               (y \o w)[k] = IF k <= Len(y) THEN y[k] ELSE w[k - Len(y)]
      BY <1>10, <2>1, ConcatProperties
    <3>2. Len(y) = p /\ Len(y) + Len(w) = n + 1
      BY <1>1, <1>4, <1>10, <2>1
    <3> QED BY <3>1, <3>2
  <2>3. x = y \o w
    BY <1>10 DEF y
  <2> HIDE DEF x
  <2>4. ASSUME NEW k \in 1..(n + 1)
        PROVE  x[k] = IF k < p THEN u[k] ELSE IF k = p THEN v ELSE w[k - p]
    <3>1. CASE k <= p
      <4>1. k \in 1..p /\ x[k] = y[k]
        BY <1>1, <1>4, <2>2, <2>3, <3>1
      <4> QED BY <1>4, <2>1, <4>1
    <3>2. CASE k > p
      BY <1>1, <1>4, <2>2, <2>3, <3>2
    <3> QED BY <1>1, <1>4, <3>1, <3>2
  <2> QED BY <2>2, <2>3, <2>4
<1>12. \A k \in 1..(n + 1) :
         x[k] = IF k < p THEN t[k] ELSE IF k = p THEN v ELSE t[k - 1]
  <2> HIDE DEF x
  <2>1. \A k \in 1..(n + 1) : k < p => u[k] = t[k]
    BY <1>1, <1>4, <1>8 DEF u
  <2>2. \A k \in 1..(n + 1) : k > p => w[k - p] = t[k - 1]
    <3> SUFFICES ASSUME NEW k \in 1..(n + 1), k > p
                 PROVE  w[k - p] = t[k - 1]
      OBVIOUS
    <3>1. k - p \in 1..(n - p + 1) /\ p + (k - p) - 1 = k - 1
      BY <1>1, <1>4
    <3>2. w[k - p] = t[p + (k - p) - 1]
      BY <1>9, <3>1 DEF w
    <3> QED BY <3>1, <3>2
  <2> TAKE k \in 1..(n + 1)
  <2>3. CASE k < p
    BY <1>11, <2>1, <2>3
  <2>4. CASE k = p
    BY <1>4, <1>11, <2>4
  <2>5. CASE k > p
    <3>1. ~(k < p) /\ k # p
      BY <1>1, <1>4, <2>5
    <3>2. x[k] = IF k < p THEN u[k] ELSE IF k = p THEN v ELSE w[k - p]
      BY <1>11
    <3>3. w[k - p] = t[k - 1]
      BY <2>2, <2>5
    <3> QED BY <3>1, <3>2, <3>3
  <2> QED BY <1>1, <1>4, <2>3, <2>4, <2>5
<1>13. Inserted(t, v) = [k \in 1..(n + 1) |->
         IF k < p THEN t[k] ELSE IF k = p THEN v ELSE t[k - 1]]
  <2>1. x = [k \in 1..(n + 1) |-> x[k]]
    BY <1>11
  <2>2. Inserted(t, v) = x
    BY <1>5 DEF u, w
  <2> HIDE DEF x
  <2> QED BY <1>12, <2>1, <2>2
<1> QED BY <1>4, <1>6, <1>7, <1>13 DEF n

LEMMA InsertedSorts ==
  ASSUME NEW s \in Seq(Nat), NEW t, Sorts(t, s), NEW v \in Nat
  PROVE  Sorts(Inserted(t, v), Append(s, v))
<1> DEFINE n == Len(s)
           u == Inserted(t, v)
           r == Append(s, v)
<1>1. /\ n \in Nat /\ t \in Seq(Nat) /\ Len(t) = n /\ Ascending(t)
      /\ \A k \in 1..n : t[k] \in Nat
  BY DEF Sorts
<1>2. PICK q \in Bijection(1..n, 1..n) : \A k \in 1..n : t[k] = s[q[k]]
  BY DEF Sorts
<1>3. PICK p \in 1..(n + 1) :
        /\ \A k \in 1..(p - 1) : t[k] <= v
        /\ \A k \in p..n : t[k] > v
        /\ u = [k \in 1..(n + 1) |->
                  IF k < p THEN t[k] ELSE IF k = p THEN v ELSE t[k - 1]]
  <2>1. Len(t) = n /\ Ascending(t) /\ t \in Seq(Nat)
    BY <1>1
  <2>2. PICK p \in 1..(Len(t) + 1) :
          /\ \A k \in 1..(p - 1) : t[k] <= v
          /\ \A k \in p..Len(t) : t[k] > v
          /\ u = [k \in 1..(Len(t) + 1) |->
                    IF k < p THEN t[k] ELSE IF k = p THEN v ELSE t[k - 1]]
    BY <2>1, InsertedIs
  <2>3. p \in 1..(n + 1)
    BY <2>1
  <2> HIDE DEF n, u
  <2> WITNESS p \in 1..(n + 1)
  <2> QED BY <2>1, <2>2
<1>4. /\ r \in Seq(Nat) /\ Len(r) = n + 1 /\ r[n + 1] = v
      /\ \A k \in 1..n : r[k] = s[k]
  OBVIOUS
<1> HIDE DEF n, u, r
<1>5. \A k \in 1..(n + 1) :
        u[k] = IF k < p THEN t[k] ELSE IF k = p THEN v ELSE t[k - 1]
  BY <1>3
<1>6. \A k \in 1..(n + 1) : /\ k < p => k \in 1..n
                            /\ k > p => k - 1 \in 1..n
  BY <1>1, <1>3
<1>7. u \in Seq(Nat) /\ Len(u) = n + 1
  <2>1. ASSUME NEW k \in 1..(n + 1) PROVE u[k] \in Nat
    <3>1. k < p => u[k] \in Nat
      BY <1>1, <1>5, <1>6
    <3>2. k = p => u[k] \in Nat
      BY <1>3, <1>5
    <3>3. k > p => u[k] \in Nat
      BY <1>1, <1>3, <1>5, <1>6
    <3> QED BY <1>1, <1>3, <3>1, <3>2, <3>3
  <2>2. u \in [1..(n + 1) -> Nat]
    BY <1>3, <2>1
  <2> QED BY <1>1, <2>2
<1>8. Ascending(u)
  <2> SUFFICES ASSUME NEW j \in 1..(n + 1), NEW k \in 1..(n + 1), j <= k
               PROVE  u[j] <= u[k]
    BY <1>7 DEF Ascending
  <2>0. \A a, b \in 1..n : a <= b => t[a] <= t[b]
    BY <1>1 DEF Ascending
  <2>1. CASE k < p
    <3>1. j \in 1..n /\ k \in 1..n /\ u[j] = t[j] /\ u[k] = t[k]
      BY <1>3, <1>5, <1>6, <2>1
    <3> QED BY <2>0, <3>1
  <2>2. CASE k = p
    <3>1. u[k] = v
      BY <1>5, <2>2
    <3>2. CASE j = p
      BY <2>2, <3>1, <3>2
    <3>3. CASE j < p
      BY <1>1, <1>3, <1>5, <3>1, <3>3
    <3> QED BY <1>3, <2>2, <3>2, <3>3
  <2>3. CASE k > p
    <3>1. k - 1 \in 1..n /\ u[k] = t[k - 1]
      BY <1>3, <1>5, <1>6, <2>3
    <3>2. CASE j < p
      <4>1. j \in 1..n /\ u[j] = t[j] /\ j <= k - 1
        BY <1>3, <1>5, <1>6, <2>3, <3>2
      <4> QED BY <2>0, <3>1, <4>1
    <3>3. CASE j = p
      <4>1. u[j] = v /\ k - 1 \in p..n
        BY <1>3, <1>5, <2>3, <3>1, <3>3
      <4> QED BY <1>1, <1>3, <3>1, <4>1
    <3>4. CASE j > p
      <4>1. j - 1 \in 1..n /\ u[j] = t[j - 1] /\ j - 1 <= k - 1
        BY <1>3, <1>5, <1>6, <3>4
      <4> QED BY <2>0, <3>1, <4>1
    <3> QED BY <1>3, <3>2, <3>3, <3>4
  <2> QED BY <1>3, <2>1, <2>2, <2>3
<1> DEFINE Source(k) == IF k < p THEN q[k]
                        ELSE IF k = p THEN n + 1 ELSE q[k - 1]
           x == [k \in 1..(n + 1) |-> Source(k)]
<1>9. /\ q \in [1..n -> 1..n]
      /\ \A a, b \in 1..n : q[a] = q[b] => a = b
      /\ \A b \in 1..n : \E a \in 1..n : q[a] = b
  BY DEF Bijection, Injection, Surjection, IsInjective
<1>10. x \in Bijection(1..(n + 1), 1..(n + 1))
  <2>1. ASSUME NEW k \in 1..(n + 1) PROVE Source(k) \in 1..(n + 1)
    <3>0. \A a \in 1..n : q[a] \in 1..(n + 1)
      BY <1>1, <1>9
    <3>1. CASE k < p
      BY <1>6, <3>0, <3>1
    <3>2. CASE k = p
      BY <1>1, <1>3, <3>2
    <3>3. CASE k > p
      BY <1>3, <1>6, <3>0, <3>3
    <3> QED BY <1>1, <1>3, <3>1, <3>2, <3>3
  <2>2. \A j, k \in 1..(n + 1) : Source(j) = Source(k) => j = k
    <3> SUFFICES ASSUME NEW j \in 1..(n + 1), NEW k \in 1..(n + 1),
                        Source(j) = Source(k)
                 PROVE  j = k
      OBVIOUS
    <3>1. \A a \in 1..n : q[a] # n + 1
      BY <1>1, <1>9
    <3>2. CASE j = p \/ k = p
      BY <1>3, <1>6, <3>1, <3>2
    <3>3. \A a, b \in 1..n : q[a] = q[b] => a = b
      BY <1>9
    <3>4. CASE j < p /\ k < p
      BY <1>6, <3>3, <3>4
    <3>5. CASE j < p /\ k > p
      <4>1. j \in 1..n /\ k - 1 \in 1..n
        BY <1>6, <3>5
      <4>2. q[j] = q[k - 1]
        BY <1>3, <3>5
      <4>3. j = k - 1
        BY <3>3, <4>1, <4>2
      <4> QED BY <1>1, <1>3, <3>5, <4>3
    <3>6. CASE j > p /\ k < p
      <4>1. j - 1 \in 1..n /\ k \in 1..n
        BY <1>6, <3>6
      <4>2. q[j - 1] = q[k]
        BY <1>3, <3>6
      <4>3. j - 1 = k
        BY <3>3, <4>1, <4>2
      <4> QED BY <1>1, <1>3, <3>6, <4>3
    <3>7. CASE j > p /\ k > p
      <4>1. j - 1 \in 1..n /\ k - 1 \in 1..n
        BY <1>6, <3>7
      <4>2. q[j - 1] = q[k - 1]
        BY <1>3, <3>7
      <4>3. j - 1 = k - 1
        BY <3>3, <4>1, <4>2
      <4> QED BY <1>1, <4>3
    <3> QED BY <1>1, <1>3, <3>2, <3>4, <3>5, <3>6, <3>7
  <2>3. \A b \in 1..(n + 1) : \E a \in 1..(n + 1) : Source(a) = b
    <3> SUFFICES ASSUME NEW b \in 1..(n + 1)
                 PROVE  \E a \in 1..(n + 1) : Source(a) = b
      OBVIOUS
    <3>1. CASE b = n + 1
      <4>1. Source(p) = b
        BY <1>3, <3>1
      <4> QED BY <1>3, <4>1
    <3>2. CASE b \in 1..n
      <4>1. PICK a \in 1..n : q[a] = b
        BY <1>9, <3>2
      <4>2. CASE a < p
        <5>1. a \in 1..(n + 1) /\ Source(a) = b
          BY <1>1, <4>1, <4>2
        <5> QED BY <5>1
      <4>3. CASE a >= p
        <5>1. /\ a + 1 \in 1..(n + 1) /\ ~(a + 1 < p) /\ a + 1 # p
              /\ a + 1 - 1 = a
          BY <1>1, <1>3, <4>3
        <5>2. Source(a + 1) = b
          BY <4>1, <5>1
        <5> QED BY <5>1, <5>2
      <4> QED BY <1>3, <4>2, <4>3
    <3> QED BY <1>1, <3>1, <3>2
  <2> HIDE DEF Source
  <2> QED BY <2>1, <2>2, <2>3 DEF Bijection, Injection, Surjection, IsInjective
<1>11. \A k \in 1..(n + 1) : u[k] = r[x[k]]
  <2> SUFFICES ASSUME NEW k \in 1..(n + 1) PROVE u[k] = r[Source(k)]
    OBVIOUS
  <2>1. CASE k < p
    BY <1>2, <1>4, <1>5, <1>6, <1>9, <2>1
  <2>2. CASE k = p
    BY <1>3, <1>4, <1>5, <2>2
  <2>3. CASE k > p
    <3>1. k - 1 \in 1..n /\ u[k] = t[k - 1] /\ Source(k) = q[k - 1]
      BY <1>3, <1>5, <1>6, <2>3
    <3>2. q[k - 1] \in 1..n
      BY <1>9, <3>1
    <3>3. t[k - 1] = s[q[k - 1]] /\ r[q[k - 1]] = s[q[k - 1]]
      BY <1>2, <1>4, <3>1, <3>2
    <3> HIDE DEF Source
    <3> QED BY <3>1, <3>3
  <2> QED BY <1>3, <2>1, <2>2, <2>3
<1> HIDE DEF x
<1>12. Sorts(u, r)
  BY <1>4, <1>7, <1>8, <1>10, <1>11 DEF Sorts
<1> QED BY <1>12 DEF u, r

Sorting == INSTANCE FoldLemmas WITH op <- Inserted

LEMMA SortedIsFold == \A s : sorted(s) = Sorting!LeftFold(<<>>, s)
BY DEF sorted, FoldLeft, MapThenFoldSet, Max, Sorting!LeftFold,
       Sorting!IsFold, Sorting!IsFoldOver, Sorting!Latest

LEMMA SortedSorts == \A s \in Seq(Nat) : Sorts(sorted(s), s)
<1> DEFINE Fold(s) == Sorting!LeftFold(<<>>, s)
           Done == {n \in Nat : \A s \in Seq(Nat) :
                                  Len(s) = n => Sorts(Fold(s), s)}
<1>1. 0 \in Done
  <2>1. \A s \in Seq(Nat) : Len(s) = 0 => s = <<>>
    BY EmptySeq
  <2>2. Sorts(<<>>, <<>>)
    <3> DEFINE q == [k \in 1..0 |-> k]
    <3>1. 1..0 = {} /\ Len(<<>>) = 0 /\ <<>> \in Seq(Nat)
      BY EmptySeq
    <3>2. q \in Bijection(1..0, 1..0)
      BY <3>1 DEF Bijection, Injection, Surjection, IsInjective
    <3> QED BY <3>1, <3>2 DEF Sorts, Ascending
  <2> QED BY <2>1, <2>2, Sorting!FoldEmpty
<1>2. ASSUME NEW n \in Nat, n \in Done PROVE n + 1 \in Done
  <2> SUFFICES ASSUME NEW s \in Seq(Nat), Len(s) = n + 1
               PROVE  Sorts(Fold(s), s)
    OBVIOUS
  <2> DEFINE v == s[n + 1]
             rest == SubSeq(s, 1, n)
  <2>1. /\ rest \in Seq(Nat) /\ Len(rest) = n /\ v \in Nat
        /\ s = Append(rest, v)
    OBVIOUS
  <2> HIDE DEF v, rest
  <2>2. Sorts(Fold(rest), rest)
    BY <1>2, <2>1
  <2>3. Fold(s) = Inserted(Fold(rest), v)
    BY <2>1, Sorting!FoldAppend
  <2> HIDE DEF Fold
  <2> QED BY <2>1, <2>2, <2>3, InsertedSorts
<1>3. Nat \subseteq Done
  <2> HIDE DEF Done
  <2> QED BY <1>1, <1>2, Exact!EveryNat
<1>4. \A s \in Seq(Nat) : Len(s) \in Nat
  OBVIOUS
<1> HIDE DEF Fold
<1>5. \A s \in Seq(Nat) : Sorts(Fold(s), s)
  BY <1>3, <1>4
<1> QED BY <1>5, SortedIsFold DEF Fold

----------------------------------------------------------------------------
(* Counting. *)

LEMMA CardinalityIn ==
  ASSUME NEW n \in Nat, NEW A \in SUBSET (1..n)
  PROVE  IsFiniteSet(A) /\ Cardinality(A) \in Nat
<1>1. IsFiniteSet(1..n)
  BY FS_Interval
<1>2. IsFiniteSet(A)
  BY <1>1, FS_Subset
<1> QED BY <1>2, FS_CardinalityType

\* Two sets without a common member fill no more than there is.
LEMMA DisjointFit ==
  ASSUME NEW n \in Nat, NEW A \in SUBSET (1..n), NEW B \in SUBSET (1..n),
         A \cap B = {}
  PROVE  Cardinality(A) + Cardinality(B) <= n
<1>1. /\ IsFiniteSet(A) /\ IsFiniteSet(B)
      /\ Cardinality(A) \in Nat /\ Cardinality(B) \in Nat
  BY CardinalityIn
<1>2. Cardinality(A \cup B) = Cardinality(A) + Cardinality(B)
  <2>1. Cardinality(A \cup B) =
          Cardinality(A) + Cardinality(B) - Cardinality(A \cap B)
    BY <1>1, FS_Union
  <2>2. Cardinality(A \cap B) = 0
    BY FS_EmptySet
  <2> QED BY <1>1, <2>1, <2>2
<1>3. A \cup B \in SUBSET (1..n)
  OBVIOUS
<1>4. IsFiniteSet(1..n) /\ Cardinality(1..n) = n
  BY FS_Interval
<1>5. Cardinality(A \cup B) <= n
  BY <1>3, <1>4, FS_Subset
<1> QED BY <1>2, <1>5

\* The positions of the elements up to a value, and from a value on.
UpTo(s, v) == {k \in 1..Len(s) : s[k] <= v}

From(s, v) == {k \in 1..Len(s) : s[k] >= v}

\* As many elements of a sequence are in a set of positions of its sorted
\* form as that has positions.
LEMMA CountSorted ==
  ASSUME NEW s \in Seq(Nat), NEW J \in SUBSET (1..Len(s)),
         NEW q \in Bijection(1..Len(s), 1..Len(s)),
         NEW A \in SUBSET (1..Len(s)), \A j \in J : q[j] \in A
  PROVE  Cardinality(J) <= Cardinality(A)
<1> DEFINE f == [j \in J |-> q[j]]
<1>1. Len(s) \in Nat
  OBVIOUS
<1>2. f \in Injection(J, A)
  BY DEF Bijection, Injection, IsInjective
<1>3. IsFiniteSet(A)
  BY <1>1, CardinalityIn
<1> HIDE DEF f
<1> QED BY <1>2, <1>3, FS_Injection

\* At least r elements are at or below the one of rank r, and those from
\* that rank on are at or above it.
LEMMA RankCounts ==
  ASSUME NEW s \in Seq(Nat), NEW r \in 1..Len(s)
  PROVE  /\ sorted(s)[r] \in Nat
         /\ Cardinality(UpTo(s, sorted(s)[r])) >= r
         /\ Cardinality(From(s, sorted(s)[r])) >= Len(s) - r + 1
<1> DEFINE t == sorted(s)
           n == Len(s)
<1>1. Sorts(t, s)
  BY SortedSorts
<1> HIDE DEF t
<1>2. PICK q \in Bijection(1..n, 1..n) : \A k \in 1..n : t[k] = s[q[k]]
  BY <1>1 DEF Sorts
<1>3. /\ n \in Nat /\ t \in Seq(Nat) /\ Len(t) = n
      /\ \A j, k \in 1..n : j <= k => t[j] <= t[k]
      /\ \A k \in 1..n : t[k] \in Nat /\ q[k] \in 1..n
  <2>1. n \in Nat /\ t \in Seq(Nat) /\ Len(t) = n
    BY <1>1 DEF Sorts
  <2>2. \A j, k \in 1..n : j <= k => t[j] <= t[k]
    BY <1>1, <2>1 DEF Sorts, Ascending
  <2>3. \A k \in 1..n : q[k] \in 1..n
    BY DEF Bijection, Injection
  <2>4. \A k \in 1..n : t[k] \in Nat
    <3>1. \A k \in 1..Len(t) : t[k] \in Nat
      BY <2>1
    <3> HIDE DEF n
    <3> QED BY <2>1, <3>1
  <2> QED BY <2>1, <2>2, <2>3, <2>4
<1>4. /\ UpTo(s, t[r]) \in SUBSET (1..n) /\ From(s, t[r]) \in SUBSET (1..n)
      /\ Cardinality(UpTo(s, t[r])) \in Nat
      /\ Cardinality(From(s, t[r])) \in Nat
  <2>1. /\ UpTo(s, t[r]) \in SUBSET (1..n)
        /\ From(s, t[r]) \in SUBSET (1..n)
    BY DEF UpTo, From
  <2> QED BY <1>3, <2>1, CardinalityIn
<1>5. Cardinality(UpTo(s, t[r])) >= r
  <2>1. 1..r \in SUBSET (1..n) /\ Cardinality(1..r) = r
    <3>1. r \in Int /\ 1 \in Int /\ 1 <= r /\ r <= n
      BY <1>3
    <3>2. Cardinality(1..r) = r
      BY <3>1, FS_Interval
    <3> QED BY <1>3, <3>1, <3>2
  <2>2. \A j \in 1..r : q[j] \in UpTo(s, t[r])
    <3> SUFFICES ASSUME NEW j \in 1..r PROVE q[j] \in UpTo(s, t[r])
      OBVIOUS
    <3>1. j \in 1..n /\ j <= r
      BY <1>3
    <3>2. t[j] <= t[r] /\ t[j] = s[q[j]] /\ q[j] \in 1..n
      BY <1>2, <1>3, <3>1
    <3> QED BY <3>2 DEF UpTo
  <2> HIDE DEF n
  <2>3. Cardinality(1..r) <= Cardinality(UpTo(s, t[r]))
    BY <1>4, <2>1, <2>2, CountSorted DEF n
  <2> QED BY <1>3, <1>4, <2>1, <2>3
<1>6. Cardinality(From(s, t[r])) >= n - r + 1
  <2>1. r..n \in SUBSET (1..n) /\ Cardinality(r..n) = n - r + 1
    <3>1. r \in Int /\ n \in Int /\ 1 <= r /\ r <= n
      BY <1>3
    <3>2. Cardinality(r..n) = n - r + 1
      BY <3>1, FS_Interval
    <3> QED BY <1>3, <3>1, <3>2
  <2>2. \A j \in r..n : q[j] \in From(s, t[r])
    <3> SUFFICES ASSUME NEW j \in r..n PROVE q[j] \in From(s, t[r])
      OBVIOUS
    <3>1. j \in 1..n /\ r <= j
      BY <1>3
    <3>2. t[r] <= t[j] /\ t[j] = s[q[j]] /\ q[j] \in 1..n
      BY <1>2, <1>3, <3>1
    <3> QED BY <1>3, <3>2 DEF From
  <2> HIDE DEF n
  <2>3. Cardinality(r..n) <= Cardinality(From(s, t[r]))
    BY <1>4, <2>1, <2>2, CountSorted DEF n
  <2> QED BY <1>3, <1>4, <2>1, <2>3
<1> QED BY <1>3, <1>5, <1>6 DEF t

\* The rank of a percentile.
RankIn(n, numerator) == ((n - 1) * numerator) \div 100 + 1

Numerators == {50, 95, 99}

LEMMA RankIs ==
  ASSUME NEW n \in Nat \ {0}, NEW numerator \in Numerators
  PROVE  /\ RankIn(n, numerator) \in 1..n
         /\ 100 * (RankIn(n, numerator) - 1) <= (n - 1) * numerator
         /\ 100 * RankIn(n, numerator) > (n - 1) * numerator
BY DEF RankIn, Numerators

LEMMA PercentileIs ==
  ASSUME NEW s \in Seq(Nat), s # <<>>, NEW numerator \in Numerators
  PROVE  Percentile(sorted(s), numerator) =
           sorted(s)[RankIn(Len(s), numerator)]
<1>1. Sorts(sorted(s), s)
  BY SortedSorts
<1>2. Len(sorted(s)) = Len(s) /\ sorted(s) # <<>>
  BY <1>1 DEF Sorts
<1> QED BY <1>2 DEF Percentile, RankIn

----------------------------------------------------------------------------
(* The distribution of a trial. *)

\* A percentile, at its rank.
LEMMA SummaryIs ==
  ASSUME NEW s \in Seq(Nat), s # <<>>, NEW p \in DOMAIN Rank
  PROVE  /\ Rank[p] \in Numerators
         /\ Summarize(s)[p] = sorted(s)[RankIn(Len(s), Rank[p])]
         /\ Summarize(s)[p] \in Nat
<1>1. Rank[p] \in Numerators
  BY DEF Rank, Numerators
<1>2. Summarize(s)[p] = Percentile(sorted(s), Rank[p])
  BY DEF Summarize, Distribution, Rank
<1>3. Len(s) \in Nat \ {0}
  BY EmptySeq
<1>4. RankIn(Len(s), Rank[p]) \in 1..Len(s)
  BY <1>1, <1>3, RankIs
<1> QED BY <1>1, <1>2, <1>4, PercentileIs, RankCounts

\* The counts of the property are complements of those above.
LEMMA CountsBelow ==
  ASSUME NEW s \in Seq(Nat), NEW v \in Nat
  PROVE  /\ Count(s, LAMBDA x : x <= v) = Cardinality(UpTo(s, v))
         /\ Count(s, LAMBDA x : x >= v) = Cardinality(From(s, v))
         /\ Count(s, LAMBDA x : x < v) + Cardinality(From(s, v)) <= Len(s)
         /\ Count(s, LAMBDA x : x < v) \in Nat
<1>1. /\ DOMAIN s = 1..Len(s) /\ Len(s) \in Nat
      /\ \A k \in 1..Len(s) : s[k] \in Nat
  OBVIOUS
<1>2. /\ Count(s, LAMBDA x : x <= v) = Cardinality(UpTo(s, v))
      /\ Count(s, LAMBDA x : x >= v) = Cardinality(From(s, v))
  BY <1>1 DEF Count, UpTo, From
<1> DEFINE Less == {k \in 1..Len(s) : s[k] < v}
<1>3. Count(s, LAMBDA x : x < v) = Cardinality(Less)
  BY <1>1 DEF Count
<1>4. /\ Less \in SUBSET (1..Len(s)) /\ From(s, v) \in SUBSET (1..Len(s))
      /\ Less \cap From(s, v) = {}
  BY <1>1 DEF From
<1> HIDE DEF Less
<1>5. Cardinality(Less) + Cardinality(From(s, v)) <= Len(s)
  BY <1>1, <1>4, DisjointFit
<1>6. Cardinality(Less) \in Nat
  BY <1>1, <1>4, CardinalityIn
<1> QED BY <1>2, <1>3, <1>5, <1>6

LEMMA RanksOfSamples ==
  ASSUME samples \in Seq(Nat)
  PROVE  PercentilesAreRanks
<1> SUFFICES ASSUME samples # <<>>
             PROVE
    LET d == Summarize(samples)
        share(p) == (Len(samples) - 1) * Rank[p]
    IN  /\ \A p \in DOMAIN Rank :
             /\ 100 * Count(samples, LAMBDA v : v < d[p]) <= share(p)
             /\ 100 * Count(samples, LAMBDA v : v <= d[p]) > share(p)
        /\ \A k \in DOMAIN samples : samples[k] \in d.min..d.max
  BY DEF PercentilesAreRanks
<1> DEFINE n == Len(samples)
           d == Summarize(samples)
           t == sorted(samples)
<1>1. n \in Nat \ {0} /\ DOMAIN samples = 1..n
  BY EmptySeq
<1>2. ASSUME NEW p \in DOMAIN Rank
      PROVE  /\ 100 * Count(samples, LAMBDA v : v < d[p]) <= (n - 1) * Rank[p]
             /\ 100 * Count(samples, LAMBDA v : v <= d[p]) > (n - 1) * Rank[p]
  <2> DEFINE r == RankIn(n, Rank[p])
             x == d[p]
             less == Count(samples, LAMBDA v : v < x)
             upTo == Cardinality(UpTo(samples, x))
             from == Cardinality(From(samples, x))
             share == (n - 1) * Rank[p]
  <2>1. Rank[p] \in Numerators /\ x = t[r] /\ x \in Nat
    BY SummaryIs
  <2>2. r \in 1..n /\ 100 * (r - 1) <= share /\ 100 * r > share
    BY <1>1, <2>1, RankIs
  <2>3. upTo >= r /\ from >= n - r + 1
    <3> HIDE DEF r, x
    <3> QED BY <2>1, <2>2, RankCounts DEF n
  <2>4. /\ Count(samples, LAMBDA v : v <= x) = upTo
        /\ less + from <= n /\ less \in Nat
    <3> HIDE DEF x
    <3> QED BY <2>1, CountsBelow DEF n
  <2>5. upTo \in Nat /\ from \in Nat
    <3>1. /\ UpTo(samples, x) \in SUBSET (1..n)
          /\ From(samples, x) \in SUBSET (1..n)
      BY DEF UpTo, From
    <3> HIDE DEF x
    <3> QED BY <1>1, <3>1, CardinalityIn
  <2>6. share \in Int
    BY <1>1, <2>1 DEF Numerators
  <2> HIDE DEF less, upTo, from, share, r, n
  <2>7. 100 * less <= share
    BY <1>1, <2>2, <2>3, <2>4, <2>5, <2>6
  <2>8. 100 * upTo > share
    BY <1>1, <2>2, <2>3, <2>5, <2>6
  <2> QED BY <2>4, <2>7, <2>8 DEF less, share, n
<1>3. \A k \in DOMAIN samples : samples[k] \in d.min..d.max
  <2>1. Sorts(t, samples)
    BY SortedSorts
  <2>2. d.min = t[1] /\ d.max = t[Len(t)]
    BY DEF Summarize, Distribution
  <2> HIDE DEF t, d
  <2>3. PICK q \in Bijection(1..n, 1..n) :
          \A k \in 1..n : t[k] = samples[q[k]]
    BY <2>1 DEF Sorts
  <2>4. /\ Len(t) = n /\ t \in Seq(Nat)
        /\ \A k \in 1..n : t[1] <= t[k] /\ t[k] <= t[n]
    BY <1>1, <2>1 DEF Sorts, Ascending
  <2>5. \A k \in 1..n : \E a \in 1..n : q[a] = k
    BY DEF Bijection, Surjection
  <2>6. \A k \in 1..n : t[k] \in Nat
    <3> HIDE DEF n
    <3> QED BY <1>1, <2>4
  <2> SUFFICES ASSUME NEW k \in 1..n
               PROVE  samples[k] \in d.min..d.max
    BY <1>1
  <2>7. PICK a \in 1..n : q[a] = k
    BY <2>5
  <2>8. samples[k] = t[a]
    BY <2>3, <2>7
  <2>9. 1 \in 1..n /\ n \in 1..n
    BY <1>1
  <2> HIDE DEF n
  <2> QED BY <2>2, <2>4, <2>6, <2>8, <2>9
<1> QED BY <1>2, <1>3

----------------------------------------------------------------------------
(* More samples. *)

\* A longer sequence whose new elements are all the same.
Extends(s, longer, v) ==
  /\ Len(longer) >= Len(s)
  /\ \A k \in 1..Len(s) : longer[k] = s[k]
  /\ \A k \in (Len(s) + 1)..Len(longer) : longer[k] = v

\* A rank grows with the samples, and by no more than they do.
LEMMA RankGrows ==
  ASSUME NEW n \in Nat \ {0}, NEW m \in Nat, n <= m, NEW x \in Numerators
  PROVE  RankIn(n, x) <= RankIn(m, x) /\ RankIn(m, x) - RankIn(n, x) <= m - n
BY DEF RankIn, Numerators

\* A set of positions and the new ones.
LEMMA WithNewPositions ==
  ASSUME NEW n \in Nat, NEW m \in Nat, n <= m, NEW A \in SUBSET (1..n),
         NEW B \in SUBSET (1..m), A \subseteq B, (n + 1)..m \subseteq B
  PROVE  Cardinality(B) >= Cardinality(A) + (m - n)
<1> DEFINE C == (n + 1)..m
<1>1. C \in SUBSET (1..m) /\ A \in SUBSET (1..m) /\ A \cap C = {}
  OBVIOUS
<1>2. Cardinality(C) = m - n
  <2>1. Cardinality((n + 1)..m) =
          IF n + 1 > m THEN 0 ELSE m - (n + 1) + 1
    <3>1. n + 1 \in Int /\ m \in Int
      OBVIOUS
    <3> QED BY <3>1, FS_Interval
  <2> QED BY <2>1
<1> HIDE DEF C
<1>3. /\ IsFiniteSet(A) /\ IsFiniteSet(C) /\ IsFiniteSet(B)
      /\ Cardinality(A) \in Nat /\ Cardinality(B) \in Nat
  BY <1>1, CardinalityIn
<1>4. Cardinality(A \cup C) = Cardinality(A) + Cardinality(C)
  <2>1. Cardinality(A \cup C) =
          Cardinality(A) + Cardinality(C) - Cardinality(A \cap C)
    BY <1>3, FS_Union
  <2>2. Cardinality(A \cap C) = 0
    BY <1>1, FS_EmptySet
  <2> QED BY <1>2, <1>3, <2>1, <2>2
<1>5. A \cup C \in SUBSET B
  BY DEF C
<1>6. Cardinality(A \cup C) <= Cardinality(B)
  BY <1>3, <1>5, FS_Subset
<1> QED BY <1>2, <1>3, <1>4, <1>6

LEMMA PercentilesDrawn ==
  ASSUME NEW s \in Seq(Nat), s # <<>>, NEW longer \in Seq(Nat),
         NEW v \in Nat, Extends(s, longer, v), NEW p \in DOMAIN Rank
  PROVE  /\ v >= Summarize(s)[p] => Summarize(longer)[p] >= Summarize(s)[p]
         /\ v <= Summarize(s)[p] => Summarize(longer)[p] <= Summarize(s)[p]
<1> DEFINE n == Len(s)
           m == Len(longer)
           before == Summarize(s)[p]
           after == Summarize(longer)[p]
           r == RankIn(n, Rank[p])
           r2 == RankIn(m, Rank[p])
<1>1. n \in Nat \ {0} /\ m \in Nat \ {0} /\ n <= m /\ longer # <<>>
  BY EmptySeq DEF Extends
<1>2. /\ Rank[p] \in Numerators /\ before \in Nat /\ after \in Nat
      /\ before = sorted(s)[r] /\ after = sorted(longer)[r2]
  BY <1>1, SummaryIs
<1>3. r \in 1..n /\ r2 \in 1..m /\ r <= r2 /\ r2 - r <= m - n
  <2> HIDE DEF n, m
  <2> QED BY <1>1, <1>2, RankIs, RankGrows
<1> HIDE DEF n, m, before, after, r, r2
<1>4. /\ Cardinality(UpTo(s, before)) >= r
      /\ Cardinality(From(s, before)) >= n - r + 1
      /\ Cardinality(UpTo(longer, after)) >= r2
      /\ Cardinality(From(longer, after)) >= m - r2 + 1
  BY <1>2, <1>3, RankCounts DEF n, m
<1>5. \A x \in Nat :
        /\ UpTo(s, x) \in SUBSET (1..n) /\ From(s, x) \in SUBSET (1..n)
        /\ UpTo(longer, x) \in SUBSET (1..m)
        /\ From(longer, x) \in SUBSET (1..m)
  BY DEF UpTo, From, n, m
<1>6. \A x \in Nat :
        /\ Cardinality(UpTo(s, x)) \in Nat
        /\ Cardinality(From(s, x)) \in Nat
        /\ Cardinality(UpTo(longer, x)) \in Nat
        /\ Cardinality(From(longer, x)) \in Nat
  BY <1>1, <1>5, CardinalityIn
<1>7. /\ \A k \in 1..n : longer[k] = s[k] /\ k \in 1..m
      /\ \A k \in (n + 1)..m : longer[k] = v /\ k \in 1..m
      /\ \A k \in 1..m : longer[k] \in Nat
  BY <1>1 DEF Extends, n, m
<1>8. ASSUME v >= before PROVE after >= before
  <2> SUFFICES ASSUME after < before PROVE FALSE
    BY <1>2
  <2>1. /\ From(s, before) \subseteq From(longer, before)
        /\ (n + 1)..m \subseteq From(longer, before)
    <3>1. From(longer, before) =
            {k \in 1..m : longer[k] >= before}
      BY DEF From, m
    <3>2. From(s, before) = {k \in 1..n : s[k] >= before}
      BY DEF From, n
    <3>3. From(s, before) \subseteq From(longer, before)
      BY <1>7, <3>1, <3>2
    <3>4. (n + 1)..m \subseteq From(longer, before)
      BY <1>7, <1>8, <3>1
    <3> QED BY <3>3, <3>4
  <2>2. Cardinality(From(longer, before)) >=
          Cardinality(From(s, before)) + (m - n)
    BY <1>1, <1>2, <1>5, <2>1, WithNewPositions
  <2>3. UpTo(longer, after) \cap From(longer, before) = {}
    BY <1>2, <1>7 DEF UpTo, From, m
  <2>4. Cardinality(UpTo(longer, after)) + Cardinality(From(longer, before))
          <= m
    BY <1>1, <1>2, <1>5, <2>3, DisjointFit
  <2>5. /\ Cardinality(UpTo(longer, after)) \in Nat
        /\ Cardinality(From(longer, before)) \in Nat
        /\ Cardinality(From(s, before)) \in Nat
    BY <1>2, <1>6
  <2> QED BY <1>1, <1>3, <1>4, <2>2, <2>4, <2>5
<1>9. ASSUME v <= before PROVE after <= before
  <2> SUFFICES ASSUME after > before PROVE FALSE
    BY <1>2
  <2>1. /\ UpTo(s, before) \subseteq UpTo(longer, before)
        /\ (n + 1)..m \subseteq UpTo(longer, before)
    <3>1. UpTo(longer, before) =
            {k \in 1..m : longer[k] <= before}
      BY DEF UpTo, m
    <3>2. UpTo(s, before) = {k \in 1..n : s[k] <= before}
      BY DEF UpTo, n
    <3>3. UpTo(s, before) \subseteq UpTo(longer, before)
      BY <1>7, <3>1, <3>2
    <3>4. (n + 1)..m \subseteq UpTo(longer, before)
      BY <1>7, <1>9, <3>1
    <3> QED BY <3>3, <3>4
  <2>2. Cardinality(UpTo(longer, before)) >=
          Cardinality(UpTo(s, before)) + (m - n)
    BY <1>1, <1>2, <1>5, <2>1, WithNewPositions
  <2>3. UpTo(longer, before) \cap From(longer, after) = {}
    BY <1>2, <1>7 DEF UpTo, From, m
  <2>4. Cardinality(UpTo(longer, before)) + Cardinality(From(longer, after))
          <= m
    BY <1>1, <1>2, <1>5, <2>3, DisjointFit
  <2>5. /\ Cardinality(UpTo(longer, before)) \in Nat
        /\ Cardinality(From(longer, after)) \in Nat
        /\ Cardinality(UpTo(s, before)) \in Nat
    BY <1>2, <1>6
  <2> QED BY <1>1, <1>3, <1>4, <2>2, <2>4, <2>5
<1> QED BY <1>8, <1>9 DEF before, after

----------------------------------------------------------------------------
(* The medians of several trials. *)

\* What a distribution says is in order.
IsOrdered(d) == /\ d.p50 \in Nat /\ d.p95 \in Nat /\ d.p99 \in Nat
                /\ d.p50 <= d.p95 /\ d.p95 <= d.p99

LEMMA SummaryIsOrdered ==
  ASSUME NEW s \in Seq(Nat), s # <<>>
  PROVE  IsOrdered(Summarize(s))
<1> DEFINE n == Len(s)
           t == sorted(s)
           d == Summarize(s)
<1>1. n \in Nat \ {0}
  BY EmptySeq
<1>2. \A p \in DOMAIN Rank : d[p] \in Nat /\ d[p] = t[RankIn(n, Rank[p])]
  BY SummaryIs
<1>3. /\ d.p50 = t[RankIn(n, 50)] /\ d.p95 = t[RankIn(n, 95)]
      /\ d.p99 = t[RankIn(n, 99)]
      /\ d.p50 \in Nat /\ d.p95 \in Nat /\ d.p99 \in Nat
  <2> HIDE DEF d, t, n
  <2> QED BY <1>2 DEF Rank
<1>4. \A x \in Numerators : RankIn(n, x) \in 1..n
  <2> HIDE DEF n
  <2> QED BY <1>1, RankIs
<1>5. RankIn(n, 50) <= RankIn(n, 95) /\ RankIn(n, 95) <= RankIn(n, 99)
  <2> HIDE DEF n
  <2> QED BY <1>1 DEF RankIn
<1>6. \A j, k \in 1..n : j <= k => t[j] <= t[k]
  <2>1. Sorts(t, s)
    BY SortedSorts
  <2> HIDE DEF t
  <2> QED BY <2>1 DEF Sorts, Ascending
<1> HIDE DEF n, t, d
<1>7. {50, 95, 99} \subseteq Numerators
  BY DEF Numerators
<1>8. /\ RankIn(n, 50) \in 1..n /\ RankIn(n, 95) \in 1..n
      /\ RankIn(n, 99) \in 1..n
  BY <1>4, <1>7
<1>9. IsOrdered(d)
  BY <1>3, <1>5, <1>6, <1>8 DEF IsOrdered
<1> QED BY <1>9 DEF d

MedianOf(s) == sorted(s)[RankIn(Len(s), 50)]

\* At least half of the elements are at or below a median, and half at or
\* above it.
LEMMA MedianHalves ==
  ASSUME NEW s \in Seq(Nat), s # <<>>
  PROVE  /\ MedianOf(s) \in Nat
         /\ 2 * Count(s, LAMBDA x : x <= MedianOf(s)) >= Len(s)
         /\ 2 * Count(s, LAMBDA x : x >= MedianOf(s)) >= Len(s)
<1> DEFINE n == Len(s)
           r == RankIn(n, 50)
           m == MedianOf(s)
           upTo == Cardinality(UpTo(s, m))
           from == Cardinality(From(s, m))
<1>1. n \in Nat \ {0}
  BY EmptySeq
<1>2. r \in 1..n /\ 2 * r >= n /\ 2 * (n - r + 1) >= n
  <2> HIDE DEF n
  <2> QED BY <1>1 DEF RankIn
<1>3. m \in Nat /\ upTo >= r /\ from >= n - r + 1
  <2>1. m = sorted(s)[r]
    BY DEF MedianOf
  <2> HIDE DEF r, m
  <2> QED BY <1>2, <2>1, RankCounts DEF n
<1>4. /\ Count(s, LAMBDA x : x <= m) = upTo
      /\ Count(s, LAMBDA x : x >= m) = from
  <2> HIDE DEF m
  <2> QED BY <1>3, CountsBelow
<1>5. upTo \in Nat /\ from \in Nat
  <2>1. UpTo(s, m) \in SUBSET (1..n) /\ From(s, m) \in SUBSET (1..n)
    BY DEF UpTo, From
  <2> HIDE DEF m
  <2> QED BY <1>1, <2>1, CardinalityIn
<1> HIDE DEF n, r, upTo, from
<1>6. 2 * upTo >= n /\ 2 * from >= n
  BY <1>1, <1>2, <1>3, <1>5
<1> QED BY <1>3, <1>4, <1>6 DEF n

\* Medians are in the order of the elements they are of.
LEMMA MediansInOrder ==
  ASSUME NEW a \in Seq(Nat), NEW b \in Seq(Nat), a # <<>>, Len(a) = Len(b),
         \A k \in 1..Len(a) : a[k] <= b[k]
  PROVE  MedianOf(a) <= MedianOf(b)
<1> DEFINE n == Len(a)
           r == RankIn(n, 50)
           x == MedianOf(a)
           y == MedianOf(b)
<1>1. n \in Nat \ {0} /\ b # <<>>
  BY EmptySeq
<1>2. r \in 1..n
  <2> HIDE DEF n
  <2> QED BY <1>1, RankIs DEF Numerators
<1>3. x = sorted(a)[r] /\ y = sorted(b)[r]
  BY DEF MedianOf
<1> HIDE DEF x, y, r
<1>4. /\ x \in Nat /\ y \in Nat
      /\ Cardinality(From(a, x)) >= n - r + 1
      /\ Cardinality(UpTo(b, y)) >= r
  BY <1>2, <1>3, RankCounts
<1>5. From(a, x) \in SUBSET (1..n) /\ UpTo(b, y) \in SUBSET (1..n)
  BY DEF From, UpTo
<1>6. \A k \in 1..n : a[k] \in Nat /\ b[k] \in Nat /\ a[k] <= b[k]
  OBVIOUS
<1> HIDE DEF n
<1>7. Cardinality(From(a, x)) \in Nat /\ Cardinality(UpTo(b, y)) \in Nat
  BY <1>1, <1>5, CardinalityIn
<1>8. ~(x > y)
  <2> SUFFICES ASSUME x > y PROVE FALSE
    OBVIOUS
  <2>1. From(a, x) \cap UpTo(b, y) = {}
    BY <1>4, <1>5, <1>6 DEF From, UpTo
  <2>2. Cardinality(From(a, x)) + Cardinality(UpTo(b, y)) <= n
    BY <1>1, <1>5, <2>1, DisjointFit
  <2> QED BY <1>1, <1>2, <1>4, <1>7, <2>2
<1>9. x <= y
  BY <1>4, <1>8
<1> QED BY <1>9 DEF x, y

\* One percentile of each trial.
Values(some, p) == [k \in DOMAIN some |-> some[k][p]]

Distributions == [min : Nat, p50 : Nat, p95 : Nat, p99 : Nat, max : Nat]

LEMMA ValuesType ==
  ASSUME NEW some \in Seq(Distributions), NEW p \in DOMAIN Rank
  PROVE  /\ Values(some, p) \in Seq(Nat) /\ Len(Values(some, p)) = Len(some)
         /\ \A k \in 1..Len(some) : Values(some, p)[k] = some[k][p]
<1>1. DOMAIN some = 1..Len(some) /\ Len(some) \in Nat
  OBVIOUS
<1>2. \A k \in 1..Len(some) : some[k][p] \in Nat
  <2> TAKE k \in 1..Len(some)
  <2>1. some[k] \in Distributions
    OBVIOUS
  <2> QED BY <2>1 DEF Distributions, Rank
<1>3. Values(some, p) = [k \in 1..Len(some) |-> some[k][p]]
  BY <1>1 DEF Values
<1>4. Values(some, p) \in [1..Len(some) -> Nat]
  BY <1>2, <1>3
<1> QED BY <1>1, <1>3, <1>4

LEMMA MedianIs ==
  ASSUME trials \in Seq(Distributions), NEW first_index \in {0, 1},
         Selected(first_index) # <<>>, NEW p \in DOMAIN Rank
  PROVE  BuildCrossTrialSummary(first_index)[p] =
           MedianOf(Values(Selected(first_index), p))
<1> DEFINE some == Selected(first_index)
           s == Values(some, p)
<1>1. some \in Seq(Distributions)
  BY DEF Selected
<1>2. BuildCrossTrialSummary(first_index)[p] = Median(p, first_index)
  BY DEF BuildCrossTrialSummary, Rank
<1>3. Median(p, first_index) = Percentile(sorted(s), 50)
  BY DEF Median, Values
<1> HIDE DEF some
<1>4. s \in Seq(Nat) /\ Len(s) = Len(some)
  BY <1>1, ValuesType
<1> HIDE DEF s
<1>5. s # <<>>
  <2>1. Len(some) # 0
    BY <1>1 DEF some
  <2> QED BY <1>4, <2>1
<1>6. Percentile(sorted(s), 50) = MedianOf(s)
  BY <1>4, <1>5, PercentileIs DEF MedianOf, Numerators
<1> QED BY <1>2, <1>3, <1>6 DEF s, some

\* The percentiles of a summary are in order, as those of its trials are.
LEMMA SummaryInOrder ==
  ASSUME trials \in Seq(Distributions), NEW first_index \in {0, 1},
         Selected(first_index) # <<>>,
         \A k \in 1..Len(Selected(first_index)) :
           IsOrdered(Selected(first_index)[k])
  PROVE  LET s == BuildCrossTrialSummary(first_index)
         IN  s.p50 <= s.p95 /\ s.p95 <= s.p99
<1> DEFINE some == Selected(first_index)
           s == BuildCrossTrialSummary(first_index)
<1>1. some \in Seq(Distributions) /\ Len(some) \in Nat \ {0}
  <2>1. some \in Seq(Distributions)
    BY DEF Selected
  <2> HIDE DEF some
  <2> QED BY <2>1, EmptySeq DEF some
<1>2. {"p50", "p95", "p99"} \subseteq DOMAIN Rank
  BY DEF Rank
<1>3. \A p \in DOMAIN Rank : s[p] = MedianOf(Values(some, p))
  BY MedianIs
<1> HIDE DEF some, s
<1>4. \A p \in DOMAIN Rank :
        /\ Values(some, p) \in Seq(Nat) /\ Len(Values(some, p)) = Len(some)
        /\ Values(some, p) # <<>>
        /\ \A k \in 1..Len(some) : Values(some, p)[k] = some[k][p]
  <2> TAKE p \in DOMAIN Rank
  <2>1. /\ Values(some, p) \in Seq(Nat) /\ Len(Values(some, p)) = Len(some)
        /\ \A k \in 1..Len(some) : Values(some, p)[k] = some[k][p]
    BY <1>1, ValuesType
  <2>2. Values(some, p) # <<>>
    BY <1>1, <2>1
  <2> QED BY <2>1, <2>2
<1>5. \A k \in 1..Len(some) : /\ some[k].p50 <= some[k].p95
                              /\ some[k].p95 <= some[k].p99
  BY DEF IsOrdered, some
<1>6. MedianOf(Values(some, "p50")) <= MedianOf(Values(some, "p95"))
  <2>1. /\ Values(some, "p50") \in Seq(Nat) /\ Values(some, "p50") # <<>>
        /\ Values(some, "p95") \in Seq(Nat)
        /\ Len(Values(some, "p50")) = Len(Values(some, "p95"))
        /\ \A k \in 1..Len(Values(some, "p50")) :
             Values(some, "p50")[k] <= Values(some, "p95")[k]
    BY <1>2, <1>4, <1>5
  <2> QED BY <2>1, MediansInOrder
<1>7. MedianOf(Values(some, "p95")) <= MedianOf(Values(some, "p99"))
  <2>1. /\ Values(some, "p95") \in Seq(Nat) /\ Values(some, "p95") # <<>>
        /\ Values(some, "p99") \in Seq(Nat)
        /\ Len(Values(some, "p95")) = Len(Values(some, "p99"))
        /\ \A k \in 1..Len(Values(some, "p95")) :
             Values(some, "p95")[k] <= Values(some, "p99")[k]
    BY <1>2, <1>4, <1>5
  <2> QED BY <2>1, MediansInOrder
<1> QED BY <1>2, <1>3, <1>6, <1>7 DEF s

LEMMA MediansOfTrials ==
  ASSUME trials \in Seq(Distributions),
         \A k \in 1..Len(trials) : IsOrdered(trials[k])
  PROVE  MediansSummarizeTrials
<1> SUFFICES ASSUME Len(trials) > 1 PROVE
      /\ \A p \in DOMAIN Rank :
           LET values == [k \in DOMAIN trials |-> trials[k][p]]
               steady == Tail(values)
               IsMedian(m, s) ==
                 /\ 2 * Count(s, LAMBDA v : v <= m) >= Len(s)
                 /\ 2 * Count(s, LAMBDA v : v >= m) >= Len(s)
           IN  /\ IsMedian(AllTrials[p], values)
               /\ IsMedian(SteadyState[p], steady)
      /\ \A s \in {AllTrials, SteadyState} : s.p50 <= s.p95 /\ s.p95 <= s.p99
      /\ SteadyState.trial_count = AllTrials.trial_count - 1
  BY DEF MediansSummarizeTrials
<1> DEFINE n == Len(trials)
<1>1. n \in Nat /\ n >= 2
  OBVIOUS
<1>2. /\ Selected(0) \in Seq(Distributions) /\ Len(Selected(0)) = n
      /\ \A k \in 1..n : Selected(0)[k] = trials[k]
  BY <1>1 DEF Selected
<1>3. /\ Selected(1) \in Seq(Distributions) /\ Len(Selected(1)) = n - 1
      /\ \A k \in 1..(n - 1) : Selected(1)[k] = trials[k + 1]
  BY <1>1 DEF Selected
<1>4. Selected(0) # <<>> /\ Selected(1) # <<>>
  BY <1>1, <1>2, <1>3
<1> HIDE DEF n
<1>5. ASSUME NEW p \in DOMAIN Rank
      PROVE  /\ Values(trials, p) \in Seq(Nat)
             /\ Values(trials, p) = Values(Selected(0), p)
             /\ Tail(Values(trials, p)) = Values(Selected(1), p)
  <2> DEFINE v == Values(trials, p)
             v0 == Values(Selected(0), p)
             v1 == Values(Selected(1), p)
  <2>1. v \in Seq(Nat) /\ Len(v) = n /\ \A k \in 1..n : v[k] = trials[k][p]
    BY ValuesType DEF n
  <2>2. /\ v0 \in Seq(Nat) /\ Len(v0) = n
        /\ \A k \in 1..n : v0[k] = Selected(0)[k][p]
    BY <1>2, ValuesType
  <2>3. /\ v1 \in Seq(Nat) /\ Len(v1) = n - 1
        /\ \A k \in 1..(n - 1) : v1[k] = Selected(1)[k][p]
    BY <1>3, ValuesType
  <2> HIDE DEF v, v0, v1
  <2>4. v = v0
    <3>1. \A k \in 1..n : v[k] = v0[k]
      BY <1>2, <2>1, <2>2
    <3> QED BY <2>1, <2>2, <3>1, SeqEqual
  <2>5. Tail(v) \in Seq(Nat) /\ Len(Tail(v)) = n - 1
        /\ \A k \in 1..(n - 1) : Tail(v)[k] = v[k + 1]
    BY <1>1, <2>1
  <2>6. Tail(v) = v1
    <3>1. \A k \in 1..(n - 1) : Tail(v)[k] = v1[k]
      <4> TAKE k \in 1..(n - 1)
      <4>1. k + 1 \in 1..n
        BY <1>1
      <4> QED BY <1>3, <2>1, <2>3, <2>5, <4>1
    <3> QED BY <2>3, <2>5, <3>1, SeqEqual
  <2> QED BY <2>1, <2>4, <2>6 DEF v, v0, v1
<1>6. ASSUME NEW p \in DOMAIN Rank
      PROVE  LET values == [k \in DOMAIN trials |-> trials[k][p]]
                 steady == Tail(values)
                 IsMedian(m, s) ==
                   /\ 2 * Count(s, LAMBDA v : v <= m) >= Len(s)
                   /\ 2 * Count(s, LAMBDA v : v >= m) >= Len(s)
             IN  /\ IsMedian(AllTrials[p], values)
                 /\ IsMedian(SteadyState[p], steady)
  <2> DEFINE v0 == Values(Selected(0), p)
             v1 == Values(Selected(1), p)
  <2>1. AllTrials[p] = MedianOf(v0) /\ SteadyState[p] = MedianOf(v1)
    BY <1>4, MedianIs DEF AllTrials, SteadyState
  <2>2. /\ [k \in DOMAIN trials |-> trials[k][p]] = v0
        /\ Tail([k \in DOMAIN trials |-> trials[k][p]]) = v1
    BY <1>5 DEF Values
  <2>3. /\ v0 \in Seq(Nat) /\ v0 # <<>> /\ v1 \in Seq(Nat) /\ v1 # <<>>
    <3>1. /\ v0 \in Seq(Nat) /\ Len(v0) = n
          /\ v1 \in Seq(Nat) /\ Len(v1) = n - 1
      BY <1>2, <1>3, ValuesType
    <3> HIDE DEF v0, v1
    <3> QED BY <1>1, <3>1
  <2> HIDE DEF v0, v1
  <2>4. /\ 2 * Count(v0, LAMBDA x : x <= MedianOf(v0)) >= Len(v0)
        /\ 2 * Count(v0, LAMBDA x : x >= MedianOf(v0)) >= Len(v0)
        /\ 2 * Count(v1, LAMBDA x : x <= MedianOf(v1)) >= Len(v1)
        /\ 2 * Count(v1, LAMBDA x : x >= MedianOf(v1)) >= Len(v1)
    BY <2>3, MedianHalves
  <2>5. /\ 2 * Count(v0, LAMBDA x : x <= AllTrials[p]) >= Len(v0)
        /\ 2 * Count(v0, LAMBDA x : x >= AllTrials[p]) >= Len(v0)
        /\ 2 * Count(v1, LAMBDA x : x <= SteadyState[p]) >= Len(v1)
        /\ 2 * Count(v1, LAMBDA x : x >= SteadyState[p]) >= Len(v1)
    BY <2>1, <2>4 DEF Count
  <2> QED BY <2>2, <2>5 DEF Count
<1>7. \A s \in {AllTrials, SteadyState} : s.p50 <= s.p95 /\ s.p95 <= s.p99
  <2>1. \A k \in 1..n : IsOrdered(trials[k])
    BY DEF n
  <2>2. \A k \in 1..Len(Selected(0)) : IsOrdered(Selected(0)[k])
    BY <1>2, <2>1
  <2>3. \A k \in 1..Len(Selected(1)) : IsOrdered(Selected(1)[k])
    <3> TAKE k \in 1..Len(Selected(1))
    <3>1. k \in 1..(n - 1) /\ k + 1 \in 1..n
      BY <1>1, <1>3
    <3> QED BY <1>3, <2>1, <3>1
  <2>4. AllTrials.p50 <= AllTrials.p95 /\ AllTrials.p95 <= AllTrials.p99
    BY <1>4, <2>2, SummaryInOrder DEF AllTrials
  <2>5. /\ SteadyState.p50 <= SteadyState.p95
        /\ SteadyState.p95 <= SteadyState.p99
    BY <1>4, <2>3, SummaryInOrder DEF SteadyState
  <2> QED BY <2>4, <2>5
<1>8. SteadyState.trial_count = AllTrials.trial_count - 1
  BY <1>2, <1>3 DEF AllTrials, SteadyState, BuildCrossTrialSummary
<1> QED BY <1>6, <1>7, <1>8

----------------------------------------------------------------------------
(* The theorems. *)

\* Samples are times, and the trials before have distributions in order.
StatisticsInv ==
  /\ samples \in Seq(Nat)
  /\ trials \in Seq(Distributions)
  /\ \A k \in 1..Len(trials) : IsOrdered(trials[k])

\* What is taken adds samples that are all the same.
LEMMA SamplesTaken ==
  ASSUME StatisticsInv, TakeSamples
  PROVE  /\ samples' \in Seq(Nat) /\ samples' # <<>>
         /\ Last(samples') \in Nat /\ Extends(samples, samples', Last(samples'))
<1> DEFINE longer == {n \in Lengths[Len(trials) + 1] : n > Len(samples)}
           m == Min(longer)
<1>1. PICK t \in Time :
        samples' = [k \in 1..m |-> IF k \in DOMAIN samples THEN samples[k]
                                   ELSE t]
  BY DEF TakeSamples
<1>2. Len(trials) + 1 \in 1..Len(Lengths)
  BY StatisticsAssumption DEF TakeSamples, StatisticsInv
<1>3. longer # {} /\ longer \in SUBSET Nat
  BY <1>2, StatisticsAssumption DEF TakeSamples
<1>4. m \in Nat /\ m > Len(samples)
  <2> HIDE DEF longer
  <2>1. m \in longer
    BY <1>3, MinIs
  <2> QED BY <1>3, <2>1 DEF longer
<1> HIDE DEF m, longer
<1>5. /\ t \in Nat /\ Len(samples) \in Nat
      /\ DOMAIN samples = 1..Len(samples)
      /\ \A k \in 1..Len(samples) : samples[k] \in Nat
  BY StatisticsAssumption DEF StatisticsInv
<1>6. samples' \in [1..m -> Nat]
  BY <1>1, <1>5
<1>7. samples' \in Seq(Nat) /\ Len(samples') = m
  BY <1>4, <1>6
<1>8. Last(samples') = t
  <2>1. m \in 1..m /\ m \notin DOMAIN samples
    BY <1>4, <1>5
  <2> QED BY <1>1, <1>7, <2>1 DEF Last
<1>9. Extends(samples, samples', t)
  <2>1. \A k \in 1..Len(samples) : samples'[k] = samples[k]
    BY <1>1, <1>4, <1>5
  <2>2. \A k \in (Len(samples) + 1)..m : samples'[k] = t
    BY <1>1, <1>4, <1>5
  <2> QED BY <1>4, <1>5, <1>7, <2>1, <2>2 DEF Extends
<1>10. samples' # <<>>
  BY <1>4, <1>5, <1>7
<1> QED BY <1>5, <1>7, <1>8, <1>9, <1>10

LEMMA SummaryType ==
  ASSUME NEW s \in Seq(Nat), s # <<>>
  PROVE  Summarize(s) \in Distributions
<1> DEFINE t == sorted(s)
           d == Summarize(s)
<1>1. t \in Seq(Nat) /\ Len(t) = Len(s) /\ Len(s) \in Nat \ {0}
  <2>1. Sorts(t, s)
    BY SortedSorts
  <2> QED BY <2>1, EmptySeq DEF Sorts
<1>2. d.min = t[1] /\ d.max = t[Len(t)]
  BY DEF Summarize, Distribution
<1>3. d.min \in Nat /\ d.max \in Nat
  <2> HIDE DEF t, d
  <2>1. 1 \in 1..Len(t) /\ Len(t) \in 1..Len(t)
    BY <1>1
  <2> QED BY <1>1, <1>2, <2>1
<1>4. d.p50 \in Nat /\ d.p95 \in Nat /\ d.p99 \in Nat
  <2> HIDE DEF d
  <2> QED BY SummaryIsOrdered DEF IsOrdered, d
<1>5. d = [min |-> d.min, p50 |-> d.p50, p95 |-> d.p95, p99 |-> d.p99,
           max |-> d.max]
  BY DEF Summarize, Distribution
<1> HIDE DEF d
<1>6. d \in Distributions
  BY <1>3, <1>4, <1>5 DEF Distributions
<1> QED BY <1>6 DEF d

LEMMA StatisticsNextInv == StatisticsInv /\ [Next]_vars => StatisticsInv'
<1> SUFFICES ASSUME StatisticsInv, [Next]_vars PROVE StatisticsInv'
  OBVIOUS
<1>1. CASE UNCHANGED statisticsVars
  BY <1>1 DEF statisticsVars, StatisticsInv
<1>2. CASE TakeSamples
  <2>1. trials' = trials
    BY <1>2 DEF TakeSamples
  <2> QED BY <1>2, <2>1, SamplesTaken DEF StatisticsInv
<1>3. CASE FinishTrial
  <2> DEFINE d == Summarize(samples)
  <2>1. /\ samples # <<>> /\ samples' = <<>> /\ trials' = Append(trials, d)
        /\ samples \in Seq(Nat) /\ trials \in Seq(Distributions)
    BY <1>3 DEF FinishTrial, StatisticsInv
  <2>2. d \in Distributions /\ IsOrdered(d)
    BY <2>1, SummaryType, SummaryIsOrdered
  <2> HIDE DEF d
  <2>3. trials' \in Seq(Distributions)
    BY <2>1, <2>2
  <2>4. \A k \in 1..Len(trials') : IsOrdered(trials'[k])
    <3> TAKE k \in 1..Len(trials')
    <3>1. /\ Len(trials) \in Nat /\ Len(trials') = Len(trials) + 1
          /\ trials'[Len(trials) + 1] = d
          /\ \A j \in 1..Len(trials) : trials'[j] = trials[j]
      BY <2>1, <2>2
    <3>2. CASE k = Len(trials) + 1
      BY <2>2, <3>1, <3>2
    <3>3. CASE k \in 1..Len(trials)
      BY <3>1, <3>3 DEF StatisticsInv
    <3> QED BY <3>1, <3>2, <3>3
  <2>5. samples' \in Seq(Nat)
    BY <2>1
  <2> QED BY <2>3, <2>4, <2>5 DEF StatisticsInv
<1> QED BY <1>1, <1>2, <1>3 DEF Next, vars, statisticsVars

LEMMA StatisticsStayInv == Spec => []StatisticsInv
<1>1. Init => StatisticsInv
  BY DEF Init, StatisticsInv
<1> QED BY <1>1, StatisticsNextInv, PTL DEF Spec

\* Each percentile of a trial is the sample of its rank: no more than its
\* share of the samples lies below it, and more than that at or below it.
THEOREM PercentilesAreOfSamples == Spec => []PercentilesAreRanks
<1>1. StatisticsInv => PercentilesAreRanks
  BY RanksOfSamples DEF StatisticsInv
<1> QED BY <1>1, StatisticsStayInv, PTL

\* The medians of several trials halve them, with and without the first, and
\* are in the order of the percentiles they are of.
THEOREM MediansAreOfTrials == Spec => []MediansSummarizeTrials
<1>1. StatisticsInv => MediansSummarizeTrials
  BY MediansOfTrials DEF StatisticsInv
<1> QED BY <1>1, StatisticsStayInv, PTL

\* Slower samples never lower a percentile and faster ones never raise it,
\* although its rank moves as samples come.
THEOREM SamplesDraw == Spec => SamplesDrawPercentiles
<1> DEFINE Drawn ==
      \A p \in DOMAIN Rank :
        samples # <<>> /\ trials' = trials =>
          LET before == Summarize(samples)[p]
              after  == Summarize(samples')[p]
          IN  /\ Last(samples') >= before => after >= before
              /\ Last(samples') <= before => after <= before
<1>1. StatisticsInv /\ [Next]_vars => [Drawn]_vars
  <2> SUFFICES ASSUME StatisticsInv, [Next]_vars PROVE Drawn
    OBVIOUS
  <2> SUFFICES ASSUME NEW p \in DOMAIN Rank, samples # <<>>, trials' = trials
               PROVE  /\ Last(samples') >= Summarize(samples)[p] =>
                           Summarize(samples')[p] >= Summarize(samples)[p]
                      /\ Last(samples') <= Summarize(samples)[p] =>
                           Summarize(samples')[p] <= Summarize(samples)[p]
    OBVIOUS
  <2>1. samples \in Seq(Nat) /\ trials \in Seq(Distributions)
    BY DEF StatisticsInv
  <2>2. CASE samples' = samples
    <3>1. Summarize(samples)[p] \in Nat
      BY <2>1, SummaryIs
    <3>2. Summarize(samples')[p] = Summarize(samples)[p]
      BY <2>2
    <3> QED BY <3>1, <3>2
  <2>3. CASE TakeSamples
    BY <2>1, <2>3, SamplesTaken, PercentilesDrawn
  <2>4. ~FinishTrial
    <3> SUFFICES ASSUME FinishTrial PROVE FALSE
      OBVIOUS
    <3>1. trials' = Append(trials, Summarize(samples))
      BY DEF FinishTrial
    <3>2. Len(Append(trials, Summarize(samples))) = Len(trials) + 1
      BY <2>1, SummaryType
    <3> QED BY <2>1, <3>1, <3>2
  <2> QED BY <2>2, <2>3, <2>4 DEF Next, vars, statisticsVars
<1>2. []StatisticsInv /\ [][Next]_vars => [][Drawn]_vars
  <2> HIDE DEF Drawn
  <2> QED BY <1>1, PTL
<1>3. Spec => [][Drawn]_vars
  <2> HIDE DEF Drawn
  <2> QED BY <1>2, StatisticsStayInv, PTL DEF Spec
<1> QED BY <1>3 DEF SamplesDrawPercentiles

============================================================================
