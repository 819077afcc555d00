-------------------------- MODULE BenchmarkProofs --------------------------
(***************************************************************************)
(* Proofs about the three benchmark programs (Benchmarks), for every       *)
(* configuration of theirs, every width of size_t and every set of inputs  *)
(* that parse.                                                             *)
(***************************************************************************)
EXTENDS Benchmarks, TLAPS, FiniteSetTheorems, SequenceTheorems

----------------------------------------------------------------------------
(* The loops, which the three programs have in common. *)

StagesOf ==
  [bench_parser          |-> {"args", "stabilization", "warmup", "baseline",
                              "parser", "report"},
   bench_end_to_end      |-> {"args", "stabilization", "warmup", "baseline",
                              "path", "report"},
   bench_path_comparison |-> {"args", "stabilization", "warmup", "measured",
                              "report"}]

\* The stages in which a program works without batches.
Unbatched == \/ config.program = "bench_parser" /\ ~Timed
             \/ config.program = "bench_end_to_end" /\ stage = "baseline"
             \/ stage \in {"args", "report"}

\* Where the loops are: a batch never goes past the end of its stage.
LoopInv ==
  /\ config \in Configs
  /\ stage \in StagesOf[config.program]
  /\ event_index \in Nat /\ batch \in [count : Nat, done : Nat]
  /\ batch.done <= batch.count /\ batch.count <= config.batch_size
  /\ event_index + batch.count <= iterations
  /\ ~InLoop => event_index = 0
  /\ Unbatched => batch = NoBatch
  /\ stage # "args" => BatchFits

\* The numbers of a configuration.
LEMMA ConfigNumbers ==
  ASSUME NEW c \in Configs
  PROVE  /\ c.program \in Program /\ c.inputs \in InputsNames[c.program]
         /\ c.stabilization_iterations \in Nat \ {0}
         /\ c.warmup_iterations \in Nat \ {0}
         /\ c.measured_iterations \in Nat \ {0}
         /\ c.trials \in Nat \ {0} /\ c.batch_size \in Nat \ {0}
<1>1. 2^Width \in Nat
  BY BenchmarkAssumption
<1> QED BY <1>1, BenchmarkAssumption

\* The number of iterations of a stage is one of these.
LEMMA IterationsNumber ==
  ASSUME config \in Configs PROVE iterations \in Nat \ {0}
BY ConfigNumbers DEF iterations

\* An empty batch is none.
LEMMA EmptyBatch ==
  ASSUME batch \in [count : Nat, done : Nat], batch.done <= batch.count
  PROVE  (batch.count = 0) <=> (batch = NoBatch)
BY DEF NoBatch

\* What an action does to the loops, seen from LoopInv: they stay, or one of
\* their own steps is taken.
LoopStays == UNCHANGED <<config, stage, event_index, batch>>

LoopBegins ==
  /\ stage = "args" /\ stage' = "stabilization" /\ BatchFits
  /\ UNCHANGED <<config, event_index, batch>>

LoopAdvances ==
  /\ UNCHANGED <<config, stage>> /\ InLoop
  /\ \/ /\ ~Unbatched /\ batch = NoBatch /\ event_index < iterations
        /\ batch' = [count |-> NextCount, done |-> 0]
        /\ UNCHANGED event_index
     \/ /\ batch.done < batch.count
        /\ batch' = [batch EXCEPT !.done = @ + 1]
        /\ UNCHANGED event_index
     \/ event_index' = event_index + batch.count /\ batch' = NoBatch
     \/ /\ batch = NoBatch /\ event_index < iterations
        /\ event_index' \in {event_index + 1, event_index + NextCount}
        /\ UNCHANGED batch

LoopFinishes ==
  /\ InLoop /\ batch = NoBatch /\ event_index >= iterations
  /\ event_index' = 0
  /\ stage' \in StagesOf[config.program] \ {"args"}
  /\ UNCHANGED <<config, batch>>

LoopMoves == LoopStays \/ LoopBegins \/ LoopAdvances \/ LoopFinishes

\* Such a step keeps LoopInv.
LEMMA LoopKept == ASSUME LoopInv, LoopMoves PROVE LoopInv'
<1>0. /\ iterations \in Nat \ {0} /\ iterations' \in Nat \ {0}
      /\ config' = config /\ config \in Configs
      /\ config.batch_size \in Nat \ {0} /\ config.program \in Program
      /\ InLoop => stage \notin {"args", "report"}
      /\ batch \in [count : Nat, done : Nat] /\ event_index \in Nat
      /\ batch.done <= batch.count /\ batch.count <= config.batch_size
      /\ event_index + batch.count <= iterations
      /\ stage # "args" => BatchFits
  <2>1. config' = config /\ config \in Configs
    BY DEF LoopInv, LoopMoves, LoopStays, LoopBegins, LoopAdvances,
           LoopFinishes
  <2>2. iterations' \in Nat \ {0}
    BY <2>1, ConfigNumbers DEF iterations
  <2> QED BY <2>1, <2>2, ConfigNumbers, IterationsNumber DEF LoopInv, InLoop
<1>1. CASE LoopStays
  BY <1>1 DEF LoopStays, LoopInv, iterations, InLoop, Unbatched, Timed,
              BatchFits
<1>2. CASE LoopBegins
  <2>1. event_index = 0 /\ batch = NoBatch
    BY <1>2 DEF LoopBegins, LoopInv, InLoop, Unbatched
  <2>2. /\ config.program \in {"bench_parser", "bench_end_to_end",
                               "bench_path_comparison"}
        /\ "stabilization" \in StagesOf[config.program]
    BY <1>0 DEF Program, StagesOf
  <2>3. NoBatch \in [count : Nat, done : Nat] /\ NoBatch.done = 0
        /\ NoBatch.count = 0
    BY DEF NoBatch
  <2>4. BatchFits'
    BY <1>2 DEF LoopBegins, BatchFits
  <2> QED BY <1>0, <1>2, <2>1, <2>2, <2>3, <2>4 DEF LoopBegins, LoopInv
<1>3. CASE LoopAdvances
  <2>1. /\ iterations' = iterations /\ InLoop' /\ InLoop /\ stage' = stage
        /\ Unbatched' = Unbatched /\ BatchFits' = BatchFits
    BY <1>3 DEF LoopAdvances, iterations, InLoop, Unbatched, Timed,
                BatchFits
  <2>2. event_index < iterations =>
          /\ NextCount \in Nat \ {0} /\ NextCount <= config.batch_size
          /\ event_index + NextCount <= iterations
    BY <1>0 DEF NextCount
  <2>3. /\ NoBatch \in [count : Nat, done : Nat]
        /\ NoBatch.done = 0 /\ NoBatch.count = 0
    BY DEF NoBatch
  <2>4. CASE /\ ~Unbatched /\ event_index < iterations
             /\ batch' = [count |-> NextCount, done |-> 0]
             /\ UNCHANGED event_index
    <3>1. /\ batch' \in [count : Nat, done : Nat]
          /\ batch'.count = NextCount /\ batch'.done = 0
      BY <2>2, <2>4
    <3> QED BY <1>0, <1>3, <2>1, <2>2, <2>4, <3>1
            DEF LoopAdvances, LoopInv
  <2>5. CASE /\ batch.done < batch.count
             /\ batch' = [batch EXCEPT !.done = @ + 1]
             /\ UNCHANGED event_index
    <3>1. /\ batch' \in [count : Nat, done : Nat]
          /\ batch'.count = batch.count /\ batch'.done = batch.done + 1
      BY <1>0, <2>5
    <3>2. ~Unbatched
      BY <1>0, <2>3, <2>5 DEF LoopInv
    <3> QED BY <1>0, <1>3, <2>1, <2>5, <3>1, <3>2
            DEF LoopAdvances, LoopInv
  <2>6. CASE event_index' = event_index + batch.count /\ batch' = NoBatch
    BY <1>0, <1>3, <2>1, <2>3, <2>6 DEF LoopAdvances, LoopInv
  <2>7. CASE /\ batch = NoBatch /\ event_index < iterations
             /\ event_index' \in {event_index + 1, event_index + NextCount}
             /\ UNCHANGED batch
    BY <1>0, <1>3, <2>1, <2>2, <2>3, <2>7 DEF LoopAdvances, LoopInv
  <2> QED BY <1>3, <2>4, <2>5, <2>6, <2>7 DEF LoopAdvances
<1>4. CASE LoopFinishes
  <2>1. /\ NoBatch \in [count : Nat, done : Nat]
        /\ NoBatch.done = 0 /\ NoBatch.count = 0
    BY DEF NoBatch
  <2>2. BatchFits'
    BY <1>0, <1>4 DEF LoopFinishes, InLoop, BatchFits
  <2> QED BY <1>0, <1>4, <2>1, <2>2 DEF LoopFinishes, LoopInv
<1> QED BY <1>1, <1>2, <1>3, <1>4 DEF LoopMoves


\* Drain is called at the end of a batch only.
DrainInv ==
  /\ pc \in {"idle", "drain"}
  /\ pc = "drain" => /\ config.program # "bench_parser"
                     /\ batch.count > 0 /\ batch.done = batch.count

\* Every step moves the loops in one of these ways.
LEMMA StepMoves ==
  ASSUME LoopInv, DrainInv, [BenchmarksNext]_benchmarkVars
  PROVE  LoopMoves /\ DrainInv'
<1>0. /\ config.program \in Program
      /\ stage \in StagesOf[config.program]
      /\ NoBatch.done = 0 /\ NoBatch.count = 0
      /\ batch \in [count : Nat, done : Nat] /\ Unbatched => batch = NoBatch
      /\ pc = "drain" => batch # NoBatch
      /\ batch # NoBatch => ~Unbatched /\ InLoop
  <2>1. batch # NoBatch => InLoop
    BY DEF LoopInv, InLoop, Unbatched
  <2> QED BY <2>1, ConfigNumbers DEF LoopInv, DrainInv, NoBatch
<1>1. CASE ParseArgs
  BY <1>1 DEF ParseArgs, LoopMoves, LoopStays, LoopBegins, DrainInv, vars
<1>2. CASE StartBatch /\ ~Unbatched
  BY <1>0, <1>2 DEF StartBatch, LoopMoves, LoopAdvances, DrainInv, vars,
                    loopVars, InLoop
<1>3. CASE NextEvent /\ UNCHANGED pc
  <2>1. batch # NoBatch
    BY <1>0, <1>3 DEF NextEvent
  <2> QED BY <1>0, <1>3, <2>1 DEF NextEvent, LoopMoves, LoopAdvances,
                                  DrainInv, loopVars
<1>4. CASE BatchDrain /\ config.program # "bench_parser"
  BY <1>4 DEF BatchDrain, BeginDrain, LoopMoves, LoopStays, DrainInv,
              benchVars
<1>5. CASE BatchDrainStep
  <2>1. pc = "drain" /\ pc' \in {"idle", "drain"} /\ InLoop
    BY <1>0, <1>5 DEF BatchDrainStep, DrainStep, EndDrain, DrainRiskRejected,
                      DrainNoGateway, DrainSent, PopOrder
  <2>2. CASE pc' = "drain"
    BY <1>5, <2>1, <2>2 DEF BatchDrainStep, LoopMoves, LoopStays, DrainInv,
                            loopVars
  <2>3. CASE pc' # "drain"
    BY <1>5, <2>1, <2>3 DEF BatchDrainStep, EndBatch, LoopMoves,
                            LoopAdvances, DrainInv, loopVars
  <2> QED BY <2>2, <2>3
<1>6. CASE BaselineBatch /\ config.program = "bench_end_to_end"
  <2>1. batch = NoBatch /\ InLoop
    BY <1>0, <1>6 DEF BaselineBatch, Unbatched, InLoop
  <2> QED BY <1>0, <1>6, <2>1 DEF BaselineBatch, LoopMoves, LoopAdvances,
                                  DrainInv, vars, loopVars
<1>7. CASE ParseUntimed /\ config.program = "bench_parser"
  <2>1. batch = NoBatch /\ InLoop
    BY <1>0, <1>7 DEF ParseUntimed, Unbatched, InLoop, Timed
  <2> QED BY <1>0, <1>7, <2>1 DEF ParseUntimed, LoopMoves, LoopAdvances,
                                  DrainInv, vars, loopVars
<1>8. CASE EndParserBatch /\ config.program = "bench_parser"
  BY <1>0, <1>8 DEF EndParserBatch, EndBatch, LoopMoves, LoopAdvances,
                    DrainInv, vars, loopVars
<1>9. ASSUME NEW valid, NEW reserved, FinishLoop(valid, reserved),
             stage' \in StagesOf[config.program] \ {"args"}, UNCHANGED pc
      PROVE  LoopMoves /\ DrainInv'
  BY <1>0, <1>9 DEF FinishLoop, LoopMoves, LoopFinishes, DrainInv
<1>10. CASE UNCHANGED <<config, stage, event_index, batch, pc>>
  BY <1>10 DEF LoopMoves, LoopStays, DrainInv
<1>11. InLoop /\ NextStage /\ config.program # "bench_path_comparison"
         => stage' \in StagesOf[config.program] \ {"args"}
  BY <1>0 DEF NextStage, NextTrial, FirstMeasured, LastMeasured, Measurements,
              StagesOf, Program
<1>12. CASE EndToEndNext
  <2>1. CASE FinishStage
    BY <1>9, <1>11, <1>12, <2>1
    DEF FinishStage, EndToEndNext, unusedVars, FinishLoop
  <2> QED BY <1>2, <1>3, <1>4, <1>5, <1>6, <1>12, <2>1
          DEF EndToEndNext, StartStageBatch, Unbatched, ProcessEvent,
              StartBatch, InLoop, Timed, ProcessParsed, ProcessUpdate,
              Enqueue, vars
<1>13. CASE PathNext
  <2>1. CASE FinishSystem
    <3>1. stage' \in StagesOf["bench_path_comparison"] \ {"args"}
      BY <2>1 DEF FinishSystem, OtherModeNext, NextPathTrial, NextTrial,
                  StagesOf
    <3> QED BY <1>9, <1>13, <2>1, <3>1 DEF FinishSystem, PathNext, unusedVars
  <2>2. CASE FinishWarmup
    <3>1. stage' \in StagesOf["bench_path_comparison"] \ {"args"}
      BY <2>2 DEF FinishWarmup, StagesOf
    <3> QED BY <1>9, <1>13, <2>2, <3>1 DEF FinishWarmup, PathNext, vars
  <2>3. CASE TextEvent \/ PreparedEvent
    BY <1>3, <2>3 DEF TextEvent, PreparedEvent, ProcessParsed, ProcessUpdate,
                      Enqueue, vars
  <2>4. CASE PrepareInputs
    BY <1>10, <2>4 DEF PrepareInputs, loopVars, vars
  <2>5. CASE StartPathBatch
    BY <1>0, <1>2, <1>13, <2>5 DEF StartPathBatch, StartBatch, PathNext,
                                   Unbatched, InLoop
  <2> QED BY <1>4, <1>5, <1>13, <2>1, <2>2, <2>3, <2>4, <2>5 DEF PathNext
<1>14. CASE ParserNext
  <2>1. CASE FinishParserStage
    BY <1>9, <1>11, <1>14, <2>1
    DEF FinishParserStage, ParserNext, FinishLoop, vars
  <2>2. CASE StartParserBatch
    BY <1>2, <1>14, <2>2 DEF StartParserBatch, StartBatch, ParserNext,
                             Unbatched, InLoop
  <2>3. CASE Operation
    BY <1>3, <2>3 DEF Operation, vars
  <2> QED BY <1>7, <1>8, <1>14, <2>1, <2>2, <2>3 DEF ParserNext
<1>15. CASE FinishReport
  BY <1>10, <1>15 DEF FinishReport, loopVars, vars
<1>16. CASE UNCHANGED benchmarkVars
  BY <1>10, <1>16 DEF benchmarkVars, benchVars, vars
<1> QED BY <1>1, <1>12, <1>13, <1>14, <1>15, <1>16 DEF BenchmarksNext


\* The loops start before their first stage.
LEMMA LoopInit == BenchmarksInit => LoopInv /\ DrainInv
<1> SUFFICES ASSUME BenchmarksInit PROVE LoopInv /\ DrainInv
  OBVIOUS
<1>1. /\ config \in Configs /\ stage = "args" /\ event_index = 0
      /\ batch = [count |-> 0, done |-> 0] /\ pc = "idle"
  BY DEF BenchmarksInit, SystemInit, Init, NoBatch
<1>2. /\ config.program \in Program /\ config.batch_size \in Nat
      /\ iterations \in Nat
  BY <1>1, ConfigNumbers, IterationsNumber
<1> QED BY <1>1, <1>2 DEF LoopInv, DrainInv, StagesOf, Program, NoBatch

\* So they are there in every reachable state.
LEMMA LoopsHold == BenchmarksSpec => [](LoopInv /\ DrainInv)
<1>1. LoopInv /\ DrainInv /\ [BenchmarksNext]_benchmarkVars
        => (LoopInv /\ DrainInv)'
  BY StepMoves, LoopKept
<1> QED BY <1>1, LoopInit, PTL DEF BenchmarksSpec

----------------------------------------------------------------------------
(* Batching is invisible. *)

\* A sequence, of whatever its elements are.
IsSequence(s) == s \in Seq({s[i] : i \in DOMAIN s})

\* Append makes one of one more element.
LEMMA AppendToSequence ==
  ASSUME NEW s, IsSequence(s), NEW e
  PROVE  /\ IsSequence(Append(s, e)) /\ Len(s) \in Nat
         /\ Len(Append(s, e)) = Len(s) + 1 /\ DOMAIN s = 1..Len(s)
         /\ Append(s, e)[Len(s) + 1] = e
         /\ \A i \in 1..Len(s) : Append(s, e)[i] = s[i]
<1> DEFINE S == {s[i] : i \in DOMAIN s} \cup {e}
           t == Append(s, e)
<1>1. s \in Seq(S) /\ e \in S
  BY DEF IsSequence
<1> HIDE DEF S
<1>2. /\ t \in Seq(S) /\ Len(t) = Len(s) + 1 /\ t[Len(s) + 1] = e
      /\ \A i \in 1..Len(s) : t[i] = s[i]
      /\ Len(s) \in Nat /\ DOMAIN s = 1..Len(s)
  BY <1>1, AppendProperties, LenProperties
<1>3. t \in [1..Len(t) -> S] /\ Len(t) \in Nat
  BY <1>2, LenProperties
<1> HIDE DEF t
<1> DEFINE R == {t[i] : i \in DOMAIN t}
<1>4. \A i \in 1..Len(t) : t[i] \in R
  BY <1>3
<1> HIDE DEF R
<1>5. t \in Seq(R)
  BY <1>3, <1>4
<1>6. IsSequence(t)
  BY <1>5 DEF IsSequence, R
<1> QED BY <1>2, <1>6 DEF t

\* What bench_parser mixes into the checksum for the n-th operation of a
\* stage.
MixedIn(c, name, n) ==
  LET all  == BuildInputs[c.inputs]
      line == all[((n - 1) % Len(all)) + 1]
  IN  IF name = "baseline" THEN line ELSE ParseMarketDataLine(line).update

\* The operations of the stage so far.
OperationsDone == event_index + batch.done

ChecksumInv ==
  config.program = "bench_parser" =>
    checksum = [n \in 1..OperationsDone |-> MixedIn(config, stage, n)]

\* One more operation is one more element.
LEMMA MixOneMore ==
  ASSUME NEW k \in Nat, NEW c, NEW name, NEW e, e = MixedIn(c, name, k + 1)
  PROVE  Append([n \in 1..k |-> MixedIn(c, name, n)], e)
           = [n \in 1..(k + 1) |-> MixedIn(c, name, n)]
<1> DEFINE s == [n \in 1..k |-> MixedIn(c, name, n)]
           t == [n \in 1..(k + 1) |-> MixedIn(c, name, n)]
           S == {MixedIn(c, name, n) : n \in 1..(k + 1)}
<1>1. /\ s \in Seq(S) /\ e \in S /\ Len(s) = k /\ t \in Seq(S)
      /\ Len(t) = k + 1
  OBVIOUS
<1> HIDE DEF S
<1>2. /\ Append(s, e) \in Seq(S) /\ Len(Append(s, e)) = k + 1
      /\ Append(s, e)[k + 1] = e
      /\ \A n \in 1..k : Append(s, e)[n] = MixedIn(c, name, n)
  BY <1>1, AppendProperties
<1>3. \A n \in 1..(k + 1) : Append(s, e)[n] = t[n]
  BY <1>2
<1> HIDE DEF s, t
<1>4. Append(s, e) = t
  BY <1>1, <1>2, <1>3, SeqEqual
<1> QED BY <1>4 DEF s, t

\* The input of an operation, counted from 0, is mixed in.
LEMMA InputIsMixedIn ==
  ASSUME LoopInv
  PROVE  MixedIn(config, stage, OperationsDone + 1) =
           IF stage = "baseline" THEN input_of_operation
           ELSE ParseMarketDataLine(input_of_operation).update
<1>1. /\ event_index + batch.done \in Nat
      /\ ((event_index + batch.done) + 1) - 1 = event_index + batch.done
  BY DEF LoopInv
<1> QED BY <1>1 DEF MixedIn, input_of_operation, InputAt, OperationsDone

\* The input of an operation is one of the program's lines.
LEMMA InputIsALine ==
  ASSUME NEW name \in {"single", "varied", "mixed", "all-orders"},
         NEW index \in Nat
  PROVE  IsBenchmarkLine(InputAt(BuildInputs[name], index))
<1> DEFINE all == BuildInputs[name]
<1>1. all \in Seq(Line) \ {<<>>}
  BY BenchmarkAssumption
<1> HIDE DEF all
<1>2. Len(all) \in Nat \ {0} /\ DOMAIN all = 1..Len(all)
  BY <1>1, LenProperties, EmptySeq
<1>3. (index % Len(all)) + 1 \in 1..Len(all)
  BY <1>2
<1> QED BY <1>2, <1>3, InputLinesAssumption DEF InputAt, all

\* A step leaves the checksum alone, mixes in the next operation, or starts a
\* new one for the next stage.
LEMMA ChecksumStep ==
  ASSUME LoopInv, DrainInv, ChecksumInv, [BenchmarksNext]_benchmarkVars
  PROVE  ChecksumInv'
<1> DEFINE Mixed == checksum' = [n \in 1..OperationsDone' |->
                                   MixedIn(config', stage', n)]
<1> SUFFICES ASSUME config'.program = "bench_parser" PROVE Mixed
  BY DEF ChecksumInv
<1>0. /\ config' = config /\ config \in Configs
      /\ config.program = "bench_parser"
      /\ event_index \in Nat /\ batch \in [count : Nat, done : Nat]
      /\ OperationsDone \in Nat /\ NoBatch.done = 0
      /\ checksum = [n \in 1..OperationsDone |-> MixedIn(config, stage, n)]
  <2>1. LoopMoves
    BY StepMoves
  <2> QED BY <2>1 DEF LoopMoves, LoopStays, LoopBegins, LoopAdvances,
                      LoopFinishes, LoopInv, ChecksumInv, OperationsDone,
                      NoBatch
<1>1. ASSUME UNCHANGED <<checksum, stage>>,
             OperationsDone' = OperationsDone
      PROVE  Mixed
  BY <1>0, <1>1
<1>2. ASSUME UNCHANGED stage, OperationsDone' = OperationsDone + 1,
             checksum' = Append(checksum,
                                MixedIn(config, stage, OperationsDone + 1))
      PROVE  Mixed
  <2>1. checksum' = [n \in 1..(OperationsDone + 1) |->
                        MixedIn(config, stage, n)]
    BY <1>0, <1>2, MixOneMore
  <2> QED BY <1>0, <1>2, <2>1
<1>3. ASSUME checksum' = <<>>, OperationsDone' = 0 PROVE Mixed
  BY <1>3
<1> HIDE DEF Mixed
<1>4. config.inputs \in {"single", "varied"}
  BY <1>0, ConfigNumbers DEF InputsNames
<1>5. ParseMarketDataLine(input_of_operation).status = "kOk"
  BY <1>0, <1>4, InputIsALine DEF input_of_operation, IsBenchmarkLine
<1>6. ASSUME ParseInput, stage # "baseline"
      PROVE  checksum' = Append(checksum,
                                MixedIn(config, stage, OperationsDone + 1))
  BY <1>5, <1>6, InputIsMixedIn DEF ParseInput
<1>7. CASE ParseUntimed
  <2>1. stage # "baseline"
    BY <1>7 DEF ParseUntimed
  <2>2. OperationsDone' = OperationsDone + 1
    BY <1>0, <1>7 DEF ParseUntimed, OperationsDone
  <2> QED BY <1>2, <1>6, <1>7, <2>1, <2>2 DEF ParseUntimed, loopVars
<1>8. CASE StartParserBatch
  <2>1. OperationsDone' = OperationsDone
    BY <1>0, <1>8 DEF StartParserBatch, StartBatch, OperationsDone
  <2> QED BY <1>1, <1>8, <2>1 DEF StartParserBatch, StartBatch, loopVars
<1>9. CASE Operation
  <2>1. OperationsDone' = OperationsDone + 1 /\ UNCHANGED stage
    <3>1. batch'.done = batch.done + 1
      BY <1>0, <1>9 DEF Operation, NextEvent
    <3> QED BY <1>0, <1>9, <3>1 DEF Operation, NextEvent, OperationsDone,
                                    loopVars
  <2>2. checksum' = Append(checksum, MixedIn(config, stage, OperationsDone + 1))
    <3>1. CASE stage = "parser"
      BY <1>6, <1>9, <3>1 DEF Operation
    <3>2. CASE stage # "parser"
      <4>1. stage = "baseline"
        BY <1>0, <1>9, <3>2
        DEF Operation, NextEvent, LoopInv, StagesOf, Unbatched, Timed,
            NoBatch
      <4> QED BY <1>9, <3>2, <4>1, InputIsMixedIn DEF Operation, TouchInput
    <3> QED BY <3>1, <3>2
  <2> QED BY <1>2, <2>1, <2>2
<1>10. CASE EndParserBatch
  <2>1. OperationsDone' = OperationsDone
    BY <1>0, <1>10 DEF EndParserBatch, EndBatch, OperationsDone
  <2> QED BY <1>1, <1>10, <2>1 DEF EndParserBatch, loopVars
<1>11. CASE FinishParserStage
  <2>1. OperationsDone' = 0
    BY <1>0, <1>11 DEF FinishParserStage, FinishLoop, OperationsDone
  <2> QED BY <1>3, <1>11, <2>1 DEF FinishParserStage
<1>12. CASE ParseArgs /\ UNCHANGED checksum
  <2>1. CASE UNCHANGED stage
    <3>1. OperationsDone' = OperationsDone
      BY <1>12 DEF ParseArgs, OperationsDone
    <3> QED BY <1>1, <1>12, <2>1, <3>1
  <2>2. CASE stage = "args"
    <3>1. event_index = 0 /\ batch = NoBatch
      BY <2>2 DEF LoopInv, Unbatched, InLoop
    <3>2. OperationsDone = 0 /\ OperationsDone' = 0
      BY <1>0, <1>12, <3>1 DEF ParseArgs, OperationsDone
    <3>3. checksum = <<>>
      BY <1>0, <3>2
    <3> QED BY <1>3, <1>12, <3>2, <3>3
  <2> QED BY <1>12, <2>1, <2>2 DEF ParseArgs
<1>13. CASE FinishReport /\ UNCHANGED checksum
  <2>1. OperationsDone' = OperationsDone
    BY <1>13 DEF FinishReport, OperationsDone
  <2> QED BY <1>1, <1>13, <2>1 DEF FinishReport, loopVars
<1>14. CASE UNCHANGED benchmarkVars
  <2>1. OperationsDone' = OperationsDone
    BY <1>14 DEF benchmarkVars, benchVars, OperationsDone
  <2> QED BY <1>1, <1>14, <2>1 DEF benchmarkVars, benchVars
<1> QED BY <1>0, <1>7, <1>8, <1>9, <1>10, <1>11, <1>12, <1>13, <1>14
        DEF BenchmarksNext, ParserNext, EndToEndNext, PathNext

\* What a trial of that name mixes in.
MixedInByTrial(c, name) ==
  [n \in 1..c.measured_iterations |-> MixedIn(c, name, n)]

\* BatchingIsInvisible in these terms.
LEMMA InvisibleIsMixedIn ==
  BatchingIsInvisible <=>
    \A k \in 1..Len(trials) :
      config.program = "bench_parser" =>
        trials[k].work = MixedInByTrial(config, trials[k].name)
BY DEF BatchingIsInvisible, MixedInByTrial, MixedIn

\* The checksums of the trials, and the trials themselves.
BatchingInv ==
  /\ IsSequence(trials)
  /\ config.program = "bench_parser" => ChecksumInv /\ BatchingIsInvisible

\* Measured adds one trial, or none.
LEMMA MeasuredAdds ==
  ASSUME IsSequence(trials), NEW name, NEW work, Measured(name, work)
  PROVE  /\ IsSequence(trials') /\ Len(trials) \in Nat
         /\ \/ trials' = trials /\ ~Timed
            \/ /\ Timed /\ Len(trials') = Len(trials) + 1
               /\ trials'[Len(trials) + 1] =
                    [trial |-> trial_index, name |-> name, work |-> work,
                     samples |-> samples]
               /\ \A i \in 1..Len(trials) : trials'[i] = trials[i]
<1>1. CASE ~Timed
  <2>1. Len(trials) \in Nat
    BY LenProperties DEF IsSequence
  <2> QED BY <1>1, <2>1 DEF Measured
<1>2. CASE Timed
  <2> DEFINE e == [trial |-> trial_index, name |-> name, work |-> work,
                   samples |-> samples]
  <2>1. trials' = Append(trials, e)
    BY <1>2 DEF Measured
  <2> HIDE DEF e
  <2>2. /\ IsSequence(trials') /\ Len(trials) \in Nat
        /\ Len(trials') = Len(trials) + 1 /\ trials'[Len(trials) + 1] = e
        /\ \A i \in 1..Len(trials) : trials'[i] = trials[i]
    BY <2>1, AppendToSequence
  <2> QED BY <1>2, <2>2 DEF e
<1> QED BY <1>1, <1>2

\* Only the end of a stage adds a trial.
LEMMA TrialsChange ==
  ASSUME [BenchmarksNext]_benchmarkVars
  PROVE  \/ UNCHANGED trials
         \/ FinishStage /\ config.program = "bench_end_to_end"
         \/ FinishSystem /\ config.program = "bench_path_comparison"
         \/ FinishParserStage /\ config.program = "bench_parser"
BY DEF BenchmarksNext, ParseArgs, FinishReport, loopVars, benchmarkVars,
       benchVars, EndToEndNext, PathNext, ParserNext, StartStageBatch,
       StartBatch, BaselineBatch, ProcessEvent, NextEvent, BatchDrain,
       BatchDrainStep, PrepareInputs, StartPathBatch, TextEvent,
       PreparedEvent, FinishWarmup, ParseUntimed, StartParserBatch,
       Operation, EndParserBatch

\* The checksums are those of the operations done, in every reachable state.
LEMMA BatchingHolds == BenchmarksSpec => []BatchingInv
<1>1. BenchmarksInit => BatchingInv
  <2> SUFFICES ASSUME BenchmarksInit PROVE BatchingInv
    OBVIOUS
  <2>1. /\ trials = <<>> /\ checksum = <<>> /\ event_index = 0
        /\ batch.done = 0
    BY DEF BenchmarksInit, SystemInit, NoBatch
  <2>2. OperationsDone = 0
    BY <2>1 DEF OperationsDone
  <2>3. ChecksumInv
    BY <2>1, <2>2 DEF ChecksumInv
  <2> QED BY <2>1, <2>3, EmptySeq
          DEF BatchingInv, BatchingIsInvisible, IsSequence
<1>2. LoopInv /\ DrainInv /\ BatchingInv /\ [BenchmarksNext]_benchmarkVars
        => BatchingInv'
  <2> SUFFICES ASSUME LoopInv, DrainInv, BatchingInv,
                      [BenchmarksNext]_benchmarkVars
               PROVE  BatchingInv'
    OBVIOUS
  <2>0. config' = config
    BY StepMoves DEF LoopMoves, LoopStays, LoopBegins, LoopAdvances,
                     LoopFinishes
  <2>1. IsSequence(trials')
    <3>1. IsSequence(trials)
      BY DEF BatchingInv
    <3>2. CASE FinishStage
      BY <3>1, <3>2, MeasuredAdds DEF FinishStage
    <3>3. CASE FinishSystem
      BY <3>1, <3>3, MeasuredAdds DEF FinishSystem
    <3>4. CASE FinishParserStage
      BY <3>1, <3>4, MeasuredAdds DEF FinishParserStage
    <3>5. CASE UNCHANGED trials
      BY <3>1, <3>5
    <3> QED BY <3>2, <3>3, <3>4, <3>5, TrialsChange
  <2>2. ASSUME config.program = "bench_parser"
        PROVE  ChecksumInv' /\ BatchingIsInvisible'
    <3>1. ChecksumInv'
      BY <2>2, ChecksumStep DEF BatchingInv
    <3>0. \A k \in 1..Len(trials) :
            trials[k].work = MixedInByTrial(config, trials[k].name)
      BY <2>2, InvisibleIsMixedIn DEF BatchingInv
    <3>a. ASSUME \A k \in 1..Len(trials') :
                   trials'[k].work = MixedInByTrial(config, trials'[k].name)
          PROVE  BatchingIsInvisible'
      <4>1. (BatchingIsInvisible <=>
               \A k \in 1..Len(trials) :
                 config.program = "bench_parser" =>
                   trials[k].work = MixedInByTrial(config, trials[k].name))'
        BY InvisibleIsMixedIn, PTL
      <4> QED BY <2>0, <3>a, <4>1
    <3>2. CASE UNCHANGED trials
      BY <3>0, <3>1, <3>2, <3>a
    <3>3. CASE FinishParserStage
      <4>1. /\ batch.done = 0 /\ event_index >= iterations
            /\ event_index + batch.count <= iterations
            /\ event_index \in Nat /\ batch.count = 0
            /\ iterations \in Nat
        BY <3>3, IterationsNumber
        DEF FinishParserStage, FinishLoop, LoopInv, NoBatch
      <4>2. OperationsDone = iterations
        BY <4>1 DEF OperationsDone
      <4>3. Timed => checksum = MixedInByTrial(config, stage)
        BY <2>2, <4>2
        DEF BatchingInv, ChecksumInv, MixedInByTrial, Timed, iterations
      <4>4. \A k \in 1..Len(trials') :
              trials'[k].work = MixedInByTrial(config, trials'[k].name)
        <5>1. Measured(stage, checksum) /\ IsSequence(trials)
          BY <3>3 DEF FinishParserStage, BatchingInv
        <5>2. CASE trials' = trials
          BY <3>0, <5>2
        <5>3. CASE /\ Timed /\ Len(trials') = Len(trials) + 1
                   /\ trials'[Len(trials) + 1] =
                        [trial |-> trial_index, name |-> stage,
                         work |-> checksum, samples |-> samples]
                   /\ \A i \in 1..Len(trials) : trials'[i] = trials[i]
                   /\ Len(trials) \in Nat
          BY <3>0, <4>3, <5>3
        <5> QED BY <5>1, <5>2, <5>3, MeasuredAdds
      <4> QED BY <3>1, <3>a, <4>4
    <3> QED BY <2>2, <3>1, <3>2, <3>3, TrialsChange
  <2> QED BY <2>0, <2>1, <2>2 DEF BatchingInv
<1> QED BY <1>1, <1>2, LoopsHold, PTL DEF BenchmarksSpec

\* In bench_parser, whatever the batch size and the width of size_t, a trial
\* did the same work as one without batches: the baseline touched each input
\* in turn, and the parser parsed the same.
THEOREM BatchingStaysInvisible == BenchmarksSpec => []BatchingIsInvisible
<1>1. BatchingInv => BatchingIsInvisible
  BY DEF BatchingInv, BatchingIsInvisible
<1> QED BY <1>1, BatchingHolds, PTL

----------------------------------------------------------------------------
(* The inputs of the programs that measure a system. *)

\* The lines of a run, the one an event gets, and whether it makes an order.
IsWide(c, i) == \/ c.inputs = "all-orders"
                \/ c.inputs = "mixed" /\ i % 2 = 1

LinesOf(c) ==
  IF c.program = "bench_path_comparison"
  THEN [i \in 1..Len(Names) |-> IF IsWide(c, i) THEN WideLines[i]
                                               ELSE NarrowLines[i]]
  ELSE BuildInputs[c.inputs]

LineAt(c, index) == InputAt(LinesOf(c), index)

UpdateAt(c, index) == ParseMarketDataLine(LineAt(c, index)).update

Generates(c, index) == ~IsSpreadTooNarrow(UpdateAt(c, index))

\* The events among the first n that make an order, and how many they are.
Generating(c, n) == {i \in 0..(n - 1) : Generates(c, i)}

Generated(c, n) == Cardinality(Generating(c, n))

\* A line that is parsed has a positive ask.
LEMMA ParsedAskIsPositive ==
  ASSUME NEW line, ParseMarketDataLine(line).status = "kOk"
  PROVE  ~LessEq(ParseMarketDataLine(line).update.ask_price, Zero)
<1> DEFINE f == SplitCsvLine(StripTrailingCarriageReturn(line))
           u == [symbol |-> f[1].text,
                 bid_price |-> The(f[2].double),
                 bid_size |-> The(f[3].uint32),
                 ask_price |-> The(f[4].double),
                 ask_size |-> The(f[5].uint32),
                 exchange_ts_ns |-> The(f[6].uint64)]
<1> HIDE DEF f
<1>1. ParseMarketDataLine(line).update = u /\ ~IsInvalidMarket(u)
  BY DEF ParseMarketDataLine, ParseFailed, f
<1> HIDE DEF u
<1> QED BY <1>1 DEF IsInvalidMarket

\* Every event's line parses, to an update whose order the exchange takes.
LEMMA UpdatesAreUsable ==
  ASSUME NEW c \in Configs, NEW index \in Nat,
         c.program # "bench_parser"
  PROVE  /\ ParseMarketDataLine(LineAt(c, index)).status = "kOk"
         /\ Assign(UpdateAt(c, index).symbol) # <<>>
         /\ ~IsInvalidPrice(UpdateAt(c, index).ask_price)
<1>1. IsBenchmarkLine(LineAt(c, index))
  <2>1. CASE c.program = "bench_path_comparison"
    <3> DEFINE all == LinesOf(c)
               n == Len(Names)
    <3>1. n \in Nat \ {0}
      BY RawInputsAssumption, LenProperties, EmptySeq
    <3>2. /\ DOMAIN all = 1..n
          /\ \A i \in 1..n : all[i] \in {WideLines[i], NarrowLines[i]}
          /\ all = [i \in 1..n |-> all[i]]
      BY <2>1 DEF LinesOf
    <3> HIDE DEF all, n
    <3>3. Len(all) = n
      BY <3>1, <3>2
    <3>4. (index % n) + 1 \in 1..n
      BY <3>1
    <3>5. IsBenchmarkLine(all[(index % n) + 1])
      BY <3>2, <3>4, RawLinesAssumption DEF n
    <3> QED BY <3>3, <3>5 DEF LineAt, InputAt, all
  <2>2. CASE c.program = "bench_end_to_end"
    <3>1. c.inputs \in {"mixed", "all-orders"}
      BY <2>2, ConfigNumbers DEF InputsNames
    <3> QED BY <2>2, <3>1, InputIsALine DEF LineAt, LinesOf
  <2> QED BY <2>1, <2>2, ConfigNumbers DEF Program
<1> QED BY <1>1, ParsedAskIsPositive
        DEF IsBenchmarkLine, UpdateAt, IsInvalidPrice

\* One more event generates one more order, or none.
LEMMA GeneratedCounts ==
  ASSUME NEW c, NEW n \in Nat
  PROVE  /\ Generated(c, n) \in Nat /\ Generated(c, 0) = 0
         /\ Generated(c, n + 1) =
              Generated(c, n) + (IF Generates(c, n) THEN 1 ELSE 0)
<1>1. IsFiniteSet(Generating(c, n)) /\ Generated(c, n) \in Nat
  <2>1. IsFiniteSet(0..(n - 1))
    BY FS_Interval
  <2>2. Generating(c, n) \subseteq 0..(n - 1)
    BY DEF Generating
  <2> QED BY <2>1, <2>2, FS_Subset, FS_CardinalityType DEF Generated
<1>2. Generated(c, 0) = 0
  <2>1. Generating(c, 0) = {}
    BY DEF Generating
  <2> QED BY <2>1, FS_EmptySet DEF Generated
<1>3. CASE Generates(c, n)
  <2>1. Generating(c, n + 1) = Generating(c, n) \cup {n}
    BY <1>3 DEF Generating
  <2>2. n \notin Generating(c, n)
    BY DEF Generating
  <2> QED BY <1>1, <1>2, <1>3, <2>1, <2>2, FS_AddElement DEF Generated
<1>4. CASE ~Generates(c, n)
  <2>1. Generating(c, n + 1) = Generating(c, n)
    BY <1>4 DEF Generating
  <2> QED BY <1>1, <1>2, <1>4, <2>1 DEF Generated
<1> QED BY <1>3, <1>4, <1>1, <1>2

\* What the prepared inputs are: the lines, what they parse to, and which of
\* them make an order, as the workload predicts.
InputsInv ==
  config.program = "bench_path_comparison" =>
    IF inputs = <<>>
    THEN /\ stage \in {"args", "stabilization"}
         /\ batch = NoBatch /\ event_index = 0
    ELSE \A index \in Nat :
           /\ InputAt(inputs, index).line = LineAt(config, index)
           /\ AsUpdate(InputAt(inputs, index)) = UpdateAt(config, index)
           /\ InputAt(inputs, index).should_generate_order
                <=> Generates(config, index)

\* An update has six fields and no others.
LEMMA UpdateOfSixFields ==
  ASSUME NEW line, NEW u, u = ParseMarketDataLine(line).update
  PROVE  u = [symbol |-> u.symbol,
              bid_price |-> u.bid_price, bid_size |-> u.bid_size,
              ask_price |-> u.ask_price, ask_size |-> u.ask_size,
              exchange_ts_ns |-> u.exchange_ts_ns]
<1> DEFINE f == SplitCsvLine(StripTrailingCarriageReturn(line))
           parsed == [symbol |-> f[1].text,
                      bid_price |-> The(f[2].double),
                      bid_size |-> The(f[3].uint32),
                      ask_price |-> The(f[4].double),
                      ask_size |-> The(f[5].uint32),
                      exchange_ts_ns |-> The(f[6].uint64)]
<1> HIDE DEF f
<1>1. u = parsed \/ u = NoUpdate
  BY DEF ParseMarketDataLine, ParseFailed, f
<1>2. CASE u = parsed
  BY <1>2
<1>3. CASE u = NoUpdate
  BY <1>3 DEF NoUpdate
<1> QED BY <1>1, <1>2, <1>3

\* PrepareInputs makes them so: the fields it copies one by one are put
\* together to the update that was parsed.
LEMMA PreparedAsPredicted ==
  ASSUME config.program = "bench_path_comparison", NEW index \in Nat
  PROVE  /\ InputAt(PreparedInputs, index).line = LineAt(config, index)
         /\ AsUpdate(InputAt(PreparedInputs, index)) = UpdateAt(config, index)
         /\ InputAt(PreparedInputs, index).should_generate_order
              <=> Generates(config, index)
<1> DEFINE n == Len(Names)
           k == (index % n) + 1
           all == LinesOf(config)
           prepared == PreparedInputs
<1>1. n \in Nat \ {0}
  BY RawInputsAssumption, LenProperties, EmptySeq
<1>2. k \in 1..n
  BY <1>1
<1>3. Len(all) = n /\ \A i \in 1..n :
        all[i] = IF should_order(i) THEN WideLines[i] ELSE NarrowLines[i]
  <2>1. all = [i \in 1..n |-> IF IsWide(config, i) THEN WideLines[i]
                                                  ELSE NarrowLines[i]]
    BY DEF LinesOf
  <2>2. \A i : IsWide(config, i) <=> should_order(i)
    BY DEF IsWide, should_order
  <2> HIDE DEF all
  <2> QED BY <1>1, <2>1, <2>2
<1>4. /\ Len(prepared) = n
      /\ \A i \in 1..n :
           /\ prepared[i].line = all[i]
           /\ AsUpdate(prepared[i]) = ParseMarketDataLine(all[i]).update
           /\ prepared[i].should_generate_order = should_order(i)
  <2>1. Len(prepared) = n /\ DOMAIN RawInputs = 1..n
    BY <1>1, <1>3 DEF PreparedInputs, RawInputs
  <2> SUFFICES ASSUME NEW i \in 1..n
               PROVE  /\ prepared[i].line = all[i]
                      /\ AsUpdate(prepared[i])
                           = ParseMarketDataLine(all[i]).update
                      /\ prepared[i].should_generate_order = should_order(i)
    BY <2>1
  <2> DEFINE u == ParseMarketDataLine(all[i]).update
  <2>2. RawInputs[i] = [name |-> Names[i], line |-> all[i],
                        should_generate_order |-> should_order(i)]
    BY <1>3 DEF RawInputs
  <2>3. prepared[i] =
          [name |-> Names[i], line |-> all[i], symbol |-> u.symbol,
           bid_price |-> u.bid_price, bid_size |-> u.bid_size,
           ask_price |-> u.ask_price, ask_size |-> u.ask_size,
           exchange_ts_ns |-> u.exchange_ts_ns,
           should_generate_order |-> should_order(i)]
    BY <2>1, <2>2 DEF PreparedInputs
  <2>4. u = [symbol |-> u.symbol,
             bid_price |-> u.bid_price, bid_size |-> u.bid_size,
             ask_price |-> u.ask_price, ask_size |-> u.ask_size,
             exchange_ts_ns |-> u.exchange_ts_ns]
    BY UpdateOfSixFields
  <2> HIDE DEF u, prepared, all
  <2>5. AsUpdate(prepared[i]) = u
    BY <2>3, <2>4 DEF AsUpdate
  <2> QED BY <2>3, <2>5 DEF u
<1>5. should_order(k) <=> ~IsSpreadTooNarrow(
                             ParseMarketDataLine(all[k]).update)
  BY <1>2, <1>3, RawLinesAssumption
<1> HIDE DEF k, all, prepared
<1>6. LineAt(config, index) = all[k] /\ InputAt(prepared, index) = prepared[k]
  BY <1>3, <1>4 DEF LineAt, InputAt, all, k
<1> QED BY <1>2, <1>4, <1>5, <1>6 DEF prepared, UpdateAt, Generates

----------------------------------------------------------------------------
(* A system under measurement. *)

\* The order that the strategy makes of an update.
OrderMadeOf(id, u) ==
  [sequence_id |-> id, symbol |-> Assign(u.symbol), side |-> "kBuy",
   price |-> u.ask_price, quantity |-> kOrderQuantity]

\* The event that makes the k-th order of a stage.
NthGenerating(c, k) ==
  CHOOSE i \in Nat : Generates(c, i) /\ Generated(c, i) = k - 1

\* The order with that id, of a system on which the warmup, if it is over,
\* has made warm orders.
OrderNumber(c, warm, id) ==
  OrderMadeOf(id, UpdateAt(c, NthGenerating(c, IF id > warm THEN id - warm
                                                        ELSE id)))

IsSendable(o) == o.symbol # <<>> /\ ~IsInvalidPrice(o.price) /\ o.quantity # 0

\* The system has been given so many events, made so many orders of them and
\* sent the first of these, and nothing went wrong.
SystemAt(events, orders, sent, warm) ==
  /\ wiring = BenchWiring
  /\ strategy = [next_sequence_id |-> orders + 1, signals_seen |-> events,
                 orders_generated |-> orders]
  /\ IsSequence(queue) /\ Len(queue) = orders - sent
  /\ \A i \in 1..Len(queue) :
       queue[i] = OrderNumber(config, warm, sent + i) /\ IsSendable(queue[i])
  /\ DOMAIN pipeline = PipelineCounter
  /\ pipeline["orders_enqueued"] = orders
  /\ pipeline["orders_dropped_on_enqueue"] = 0
  /\ pipeline["orders_drained"] = sent /\ pipeline["orders_accepted"] = sent
  /\ pipeline["orders_rejected"] = 0
  /\ DOMAIN gateway = GatewayCounter
  /\ gateway["orders_sent"] = sent /\ gateway["orders_accepted"] = sent
  /\ gateway["orders_rejected"] = 0
  /\ exchange = [seen |-> 1..sent,
                 active |-> [id \in 1..sent |->
                               OrderNumber(config, warm, id)]]

\* The sequence of orders generated so far is the same, whichever event is
\* looked at: the k-th order is made by one event only.
LEMMA NthGeneratingIs ==
  ASSUME NEW c, NEW i \in Nat, Generates(c, i)
  PROVE  NthGenerating(c, Generated(c, i) + 1) = i
<1> DEFINE k == Generated(c, i) + 1
           P(j) == Generates(c, j) /\ Generated(c, j) = k - 1
<1>1. k \in Nat /\ k - 1 = Generated(c, i)
  BY GeneratedCounts
<1>2. ASSUME NEW j \in Nat, NEW l \in Nat, j < l, Generates(c, j)
      PROVE  Generated(c, j) < Generated(c, l)
  <2>1. Generating(c, j + 1) \subseteq Generating(c, l)
    BY <1>2 DEF Generating
  <2>2. IsFiniteSet(Generating(c, l))
    <3>1. IsFiniteSet(0..(l - 1))
      BY FS_Interval
    <3> QED BY <3>1, FS_Subset DEF Generating
  <2>3. Generated(c, j + 1) <= Generated(c, l)
    BY <2>1, <2>2, FS_Subset DEF Generated
  <2> QED BY <1>2, <2>3, GeneratedCounts
<1>3. \A j \in Nat : P(j) => j = i
  <2> SUFFICES ASSUME NEW j \in Nat, P(j), j # i PROVE FALSE
    OBVIOUS
  <2>1. CASE j < i
    BY <1>1, <1>2, <2>1, GeneratedCounts
  <2>2. CASE i < j
    BY <1>1, <1>2, <2>2, GeneratedCounts
  <2> QED BY <2>1, <2>2
<1>4. P(i)
  BY <1>1
<1> HIDE DEF P
<1>5. (CHOOSE j \in Nat : P(j)) = i
  BY <1>3, <1>4
<1> QED BY <1>5 DEF NthGenerating, P

\* A new system.
LEMMA NewSystemIs ==
  ASSUME NewSystemState, UNCHANGED wiring, wiring = BenchWiring, NEW w
  PROVE  SystemAt(0, 0, 0, w)'
<1>1. /\ exchange' = [seen |-> {}, active |-> [s \in {} |-> <<>>]]
      /\ gateway' = [c \in GatewayCounter |-> 0] /\ queue' = <<>>
      /\ pipeline' = [c \in PipelineCounter |-> 0]
      /\ strategy' = [next_sequence_id |-> 1, signals_seen |-> 0,
                      orders_generated |-> 0]
  BY DEF NewSystemState, NewExchange, NewGateway, NewStrategy
<1>2. exchange' = [seen |-> 1..0,
                   active |-> [id \in 1..0 |-> OrderNumber(config', w, id)]]
  BY <1>1
<1>3. IsSequence(queue') /\ Len(queue') = 0
  BY <1>1, EmptySeq DEF IsSequence
<1> QED BY <1>1, <1>2, <1>3
        DEF SystemAt, PipelineCounter, GatewayCounter

\* The counters of a system that has nothing left to send.
CountersOf(events, orders) ==
  [signals_seen |-> events, orders_generated |-> orders,
   orders_enqueued |-> orders, orders_dropped |-> 0,
   orders_drained |-> orders, pipeline_accepted |-> orders,
   pipeline_rejected |-> 0, gateway_sent |-> orders,
   gateway_accepted |-> orders, gateway_rejected |-> 0]

LEMMA CountersAre ==
  ASSUME NEW e \in Nat, NEW k \in Nat, NEW w, SystemAt(e, k, k, w)
  PROVE  CaptureCounters = CountersOf(e, k)
BY DEF SystemAt, CaptureCounters, CountersOf

\* An event is processed: its order, if it makes one, is enqueued.
LEMMA EventIsProcessed ==
  ASSUME NEW e \in Nat, NEW k \in Nat, NEW s \in Nat, NEW w \in Nat,
         NEW index \in Nat, NEW more,
         SystemAt(e, k, s, w), s <= k, config \in Configs,
         config.program # "bench_parser", UNCHANGED config,
         Len(queue) < Capacity,
         more = IF Generates(config, index) THEN 1 ELSE 0,
         Generates(config, index) =>
           OrderNumber(config, w, k + 1)
             = OrderMadeOf(k + 1, UpdateAt(config, index)),
         ProcessUpdate(UpdateAt(config, index))
  PROVE  SystemAt(e + 1, k + more, s, w)' /\ UNCHANGED outcome
<1> DEFINE u == UpdateAt(config, index)
           o == OrderMadeOf(k + 1, u)
<1>1. Assign(u.symbol) # <<>> /\ ~IsInvalidPrice(u.ask_price)
  BY UpdatesAreUsable
<1>2. /\ strategy.next_sequence_id = k + 1 /\ strategy.signals_seen = e
      /\ strategy.orders_generated = k
      /\ Len(queue) = k - s /\ IsSequence(queue)
  BY DEF SystemAt
<1>3. CASE ~Generates(config, index)
  <2>1. GeneratedOrders(strategy, u) = {} /\ IsSpreadTooNarrow(u)
    BY <1>3 DEF Generates, GeneratedOrders
  <2>2. OnMarketData(strategy, u) =
          [next_sequence_id |-> k + 1, signals_seen |-> e + 1,
           orders_generated |-> k]
    BY <1>2, <2>1 DEF OnMarketData, SequenceIdsTaken
  <2>3. strategy' = OnMarketData(strategy, u) /\ UNCHANGED <<vars, outcome>>
    BY <2>1 DEF ProcessUpdate
  <2> QED BY <1>3, <2>2, <2>3 DEF SystemAt, vars
<1>4. CASE Generates(config, index)
  <2>1. GeneratedOrders(strategy, u) = {o} /\ ~IsSpreadTooNarrow(u)
    BY <1>1, <1>2, <1>4 DEF Generates, GeneratedOrders, OrderMadeOf
  <2>2. OnMarketData(strategy, u) =
          [next_sequence_id |-> (k + 1) + 1, signals_seen |-> e + 1,
           orders_generated |-> k + 1]
    BY <1>2, <2>1 DEF OnMarketData, SequenceIdsTaken
  <2>3. /\ strategy' = OnMarketData(strategy, u) /\ Enqueue(o)
        /\ outcome' = IF pipeline'["orders_enqueued"] =
                           pipeline["orders_enqueued"]
                      THEN "check_failed" ELSE outcome
    BY <2>1 DEF ProcessUpdate
  <2> HIDE DEF o
  <2>4. /\ queue' = Append(queue, o)
        /\ pipeline' = Bump(pipeline, {"orders_enqueued"})
        /\ UNCHANGED <<wiring, exchange, gateway>>
    BY <1>2, <2>3, PipelineAssumption
    DEF Enqueue, EnqueueRejected, EnqueueDropped, EnqueueQueued, IsKnown,
        BufferFull, TrackedOk, ErrorCounter, SystemAt, BenchWiring
  <2>5. /\ DOMAIN pipeline' = PipelineCounter
        /\ pipeline'["orders_enqueued"] = k + 1
        /\ pipeline'["orders_dropped_on_enqueue"] = 0
        /\ pipeline'["orders_drained"] = s
        /\ pipeline'["orders_accepted"] = s
        /\ pipeline'["orders_rejected"] = 0
    BY <2>4 DEF Bump, SystemAt, PipelineCounter
  <2>6. UNCHANGED outcome
    BY <2>3, <2>5 DEF SystemAt
  <2>7. o = OrderNumber(config, w, k + 1) /\ IsSendable(o)
    BY <1>1, <1>4, InputLinesAssumption DEF o, OrderMadeOf, IsSendable
  <2>8. /\ IsSequence(queue') /\ Len(queue') = (k + 1) - s
        /\ \A i \in 1..Len(queue') :
             /\ queue'[i] = OrderNumber(config, w, s + i)
             /\ IsSendable(queue'[i])
    <3>1. /\ IsSequence(queue') /\ Len(queue') = Len(queue) + 1
          /\ queue'[Len(queue) + 1] = o
          /\ \A i \in 1..Len(queue) : queue'[i] = queue[i]
      BY <1>2, <2>4, AppendToSequence
    <3>2. s + (Len(queue) + 1) = k + 1
      BY <1>2
    <3>3. ASSUME NEW i \in 1..Len(queue')
          PROVE  /\ queue'[i] = OrderNumber(config, w, s + i)
                 /\ IsSendable(queue'[i])
      <4>1. CASE i = Len(queue) + 1
        BY <2>7, <3>1, <3>2, <4>1
      <4>2. CASE i # Len(queue) + 1
        <5>1. i \in 1..Len(queue)
          BY <1>2, <3>1, <4>2
        <5> QED BY <3>1, <5>1 DEF SystemAt
      <4> QED BY <4>1, <4>2
    <3> QED BY <1>2, <3>1, <3>3
  <2>9. more = 1
    BY <1>4
  <2> HIDE DEF u
  <2> QED BY <2>2, <2>3, <2>4, <2>5, <2>6, <2>8, <2>9 DEF SystemAt
<1> QED BY <1>3, <1>4

\* Tail takes one off a sequence.
LEMMA TailOfSequence ==
  ASSUME NEW q, IsSequence(q), q # <<>>
  PROVE  /\ IsSequence(Tail(q)) /\ Len(q) \in Nat \ {0}
         /\ Head(q) = q[1] /\ Len(Tail(q)) = Len(q) - 1
         /\ \A i \in 1..Len(Tail(q)) : Tail(q)[i] = q[i + 1]
<1> DEFINE S == {q[i] : i \in DOMAIN q}
           t == Tail(q)
<1>1. q \in Seq(S)
  BY DEF IsSequence
<1> HIDE DEF S
<1>2. /\ t \in Seq(S) /\ Len(q) \in Nat \ {0} /\ Head(q) = q[1]
      /\ Len(t) = Len(q) - 1 /\ \A i \in 1..Len(t) : t[i] = q[i + 1]
  BY <1>1, HeadTailProperties, LenProperties, EmptySeq
<1>3. t \in [1..Len(t) -> S] /\ Len(t) \in Nat
  BY <1>2, LenProperties
<1> HIDE DEF t
<1> DEFINE R == {t[i] : i \in DOMAIN t}
<1>4. \A i \in 1..Len(t) : t[i] \in R
  BY <1>3
<1> HIDE DEF R
<1>5. t \in Seq(R)
  BY <1>3, <1>4
<1>6. IsSequence(t)
  BY <1>5 DEF IsSequence, R
<1> QED BY <1>2, <1>6 DEF t

\* An iteration of Drain sends the next order, and the exchange takes it.
LEMMA OrderIsSent ==
  ASSUME NEW e \in Nat, NEW k \in Nat, NEW s \in Nat, NEW w \in Nat,
         SystemAt(e, k, s, w), s <= k, UNCHANGED <<config, strategy>>,
         queue # <<>>, DrainStep
  PROVE  /\ s + 1 <= k /\ Len(queue') = Len(queue) - 1 /\ pc' = pc
         /\ SystemAt(e, k, s + 1, w)'
<1> DEFINE o == Head(queue)
<1>1. /\ IsSequence(Tail(queue)) /\ Len(queue) \in Nat \ {0}
      /\ o = queue[1] /\ Len(Tail(queue)) = Len(queue) - 1
      /\ \A i \in 1..Len(Tail(queue)) : Tail(queue)[i] = queue[i + 1]
      /\ Len(queue) = k - s
  BY TailOfSequence DEF SystemAt
<1>2. o = OrderNumber(config, w, s + 1) /\ IsSendable(o)
  BY <1>1 DEF SystemAt
<1>3. wiring = BenchWiring
  BY DEF SystemAt
<1>4. DrainSent /\ PopOrder /\ SendOrder(o)
  BY <1>3 DEF DrainStep, DrainRiskRejected, PassesRisk, DrainNoGateway,
              DrainSent, EndDrain, BenchWiring
<1> HIDE DEF o
<1>5. o.sequence_id = s + 1
  BY <1>2 DEF OrderNumber, OrderMadeOf
<1>6. /\ exchange = [seen |-> 1..s,
                     active |-> [id \in 1..s |-> OrderNumber(config, w, id)]]
      /\ exchange.seen = 1..s /\ DOMAIN exchange.active = 1..s
  BY DEF SystemAt
<1>7. SubmitResponse(exchange, o) = Accepted
  BY <1>2, <1>5, <1>6 DEF SubmitResponse, IsSendable
<1>8. SendOrderResponse(o).accepted
  BY <1>3, <1>7 DEF SendOrderResponse, BenchWiring, Accepted
<1>9. exchange' = [seen |-> 1..(s + 1),
                   active |-> [id \in 1..(s + 1) |->
                                 OrderNumber(config, w, id)]]
  <2>1. exchange' =
          [seen |-> exchange.seen \cup {s + 1},
           active |-> [id \in DOMAIN exchange.active \cup {s + 1} |->
                         IF id \in DOMAIN exchange.active
                         THEN exchange.active[id] ELSE o]]
    BY <1>3, <1>4, <1>5, <1>7
    DEF SendOrder, SubmitOrder, BenchWiring, Accepted
  <2>2. (1..s) \cup {s + 1} = 1..(s + 1)
    OBVIOUS
  <2>3. \A id \in 1..(s + 1) :
          (IF id \in DOMAIN exchange.active THEN exchange.active[id] ELSE o)
            = OrderNumber(config, w, id)
    BY <1>2, <1>6
  <2> QED BY <1>6, <2>1, <2>2, <2>3
<1>10. /\ DOMAIN gateway' = GatewayCounter
       /\ gateway'["orders_sent"] = s + 1
       /\ gateway'["orders_accepted"] = s + 1
       /\ gateway'["orders_rejected"] = 0
  <2>1. gateway' = Bump(gateway, {"orders_sent", "orders_accepted"})
    BY <1>4, <1>8 DEF SendOrder
  <2> QED BY <2>1 DEF Bump, SystemAt, GatewayCounter
<1>11. /\ DOMAIN pipeline' = PipelineCounter
       /\ pipeline'["orders_enqueued"] = k
       /\ pipeline'["orders_dropped_on_enqueue"] = 0
       /\ pipeline'["orders_drained"] = s + 1
       /\ pipeline'["orders_accepted"] = s + 1
       /\ pipeline'["orders_rejected"] = 0
  <2>1. \E sent, settled :
          pipeline' = Dispatched({"orders_accepted"}, sent, settled)
    BY <1>4, <1>8 DEF DrainSent, o
  <2>2. PICK sent, settled :
          pipeline' = Dispatched({"orders_accepted"}, sent, settled)
    BY <2>1
  <2> DEFINE bumped == Bump(pipeline, {"orders_drained"}
                                        \cup {"orders_accepted"})
  <2>3. /\ DOMAIN bumped = PipelineCounter
        /\ bumped["orders_enqueued"] = k
        /\ bumped["orders_dropped_on_enqueue"] = 0
        /\ bumped["orders_drained"] = s + 1
        /\ bumped["orders_accepted"] = s + 1
        /\ bumped["orders_rejected"] = 0
    BY DEF Bump, SystemAt, PipelineCounter
  <2>4. \E n : pipeline' = [bumped EXCEPT !["lifecycle_transition_errors"] = n]
    BY <2>2 DEF Dispatched
  <2> HIDE DEF bumped
  <2> QED BY <2>3, <2>4
<1>12. /\ queue' = Tail(queue) /\ wiring' = wiring /\ pc' = pc
  BY <1>4 DEF PopOrder
<1>13. \A i \in 1..Len(queue') :
         /\ queue'[i] = OrderNumber(config, w, (s + 1) + i)
         /\ IsSendable(queue'[i])
  <2> SUFFICES ASSUME NEW i \in 1..Len(Tail(queue))
               PROVE  /\ Tail(queue)[i] = OrderNumber(config, w, (s + 1) + i)
                      /\ IsSendable(Tail(queue)[i])
    BY <1>12
  <2>1. i + 1 \in 1..Len(queue) /\ s + (i + 1) = (s + 1) + i
    BY <1>1
  <2>2. /\ queue[i + 1] = OrderNumber(config, w, s + (i + 1))
        /\ IsSendable(queue[i + 1])
    BY <2>1 DEF SystemAt
  <2> QED BY <1>1, <2>1, <2>2
<1>14. /\ strategy' = [next_sequence_id |-> k + 1, signals_seen |-> e,
                       orders_generated |-> k]
       /\ Len(queue') = k - (s + 1) /\ s + 1 <= k
       /\ Len(queue') = Len(queue) - 1
  BY <1>1, <1>12 DEF SystemAt
<1> QED BY <1>1, <1>3, <1>9, <1>10, <1>11, <1>12, <1>13, <1>14 DEF SystemAt

----------------------------------------------------------------------------
(* Where the system is in its stage. *)

\* The events of the stage that have been given to the system; the baseline
\* gives it none.
Processed == IF stage = "baseline" THEN 0 ELSE OperationsDone

\* The orders made by the warmup that a measurement continues.
Warm == IF stage = "measured"
        THEN Generated(config, config.warmup_iterations) ELSE 0

SystemEvents ==
  Processed + (IF stage = "measured" THEN config.warmup_iterations ELSE 0)

SystemOrders == Generated(config, Processed) + Warm

\* The system has done exactly what its stage asked for so far, all orders but
\* those of the current batch have been sent, and a measurement's snapshot
\* is what the warmup left.
SystemInv ==
  config.program # "bench_parser" =>
    /\ Len(queue) <= batch.done /\ Len(queue) <= SystemOrders
    /\ SystemAt(SystemEvents, SystemOrders, SystemOrders - Len(queue), Warm)
    /\ stage = "measured" =>
         before = CountersOf(config.warmup_iterations, Warm)

\* The numbers in it.
LEMMA SystemNumbers ==
  ASSUME LoopInv
  PROVE  /\ config \in Configs /\ OperationsDone \in Nat
         /\ event_index \in Nat /\ batch \in [count : Nat, done : Nat]
         /\ Processed \in Nat /\ Warm \in Nat
         /\ SystemEvents \in Nat /\ SystemOrders \in Nat
         /\ config.warmup_iterations \in Nat
         /\ Generated(config, Processed) \in Nat
         /\ NoBatch.done = 0 /\ NoBatch.count = 0
<1>1. /\ config \in Configs /\ OperationsDone \in Nat
      /\ event_index \in Nat /\ batch \in [count : Nat, done : Nat]
  BY DEF LoopInv, OperationsDone
<1>2. Processed \in Nat /\ config.warmup_iterations \in Nat
  BY <1>1, ConfigNumbers DEF Processed
<1>3. Generated(config, Processed) \in Nat /\ Warm \in Nat
  BY <1>2, GeneratedCounts DEF Warm
<1> QED BY <1>1, <1>2, <1>3 DEF SystemEvents, SystemOrders, NoBatch

\* A step that does not touch the system, nor the events it was given.
SystemStays ==
  /\ UNCHANGED <<config, wiring, strategy, queue, pipeline, gateway, exchange,
                 before>>
  /\ (stage' = "measured") = (stage = "measured")
  /\ Processed' = Processed

LEMMA SystemKept ==
  ASSUME SystemInv, SystemStays, batch'.done >= Len(queue)
  PROVE  SystemInv'
<1>1. /\ Warm' = Warm /\ SystemEvents' = SystemEvents
      /\ SystemOrders' = SystemOrders
  BY DEF SystemStays, Warm, SystemEvents, SystemOrders
<1>2. \A e, k, s, w : SystemAt(e, k, s, w) => SystemAt(e, k, s, w)'
  BY DEF SystemStays, SystemAt
<1>3. /\ SystemOrders' - Len(queue') = SystemOrders - Len(queue)
      /\ Len(queue') = Len(queue) /\ config' = config /\ before' = before
      /\ (stage' = "measured") = (stage = "measured")
  BY <1>1 DEF SystemStays
<1> QED BY <1>1, <1>2, <1>3 DEF SystemInv

\* A step that starts a new system, for a stage without events yet.
LEMMA NewSystemKept ==
  ASSUME LoopInv, SystemInv, LoopInv',
         NewSystemState, UNCHANGED <<config, wiring>>,
         event_index' = 0, batch' = NoBatch, stage' # "measured"
  PROVE  SystemInv'
<1> SUFFICES ASSUME config.program # "bench_parser"
             PROVE  SystemInv'
  BY DEF SystemInv
<1>1. wiring = BenchWiring
  BY DEF SystemInv, SystemAt
<1>2. SystemAt(0, 0, 0, 0)'
  BY <1>1, NewSystemIs
<1>3. /\ Processed' = 0 /\ Warm' = 0 /\ SystemEvents' = 0
  BY SystemNumbers DEF Processed, OperationsDone, Warm, SystemEvents
<1>4. SystemOrders' = 0
  BY <1>3, GeneratedCounts DEF SystemOrders
<1>5. queue' = <<>> /\ Len(queue') = 0 /\ batch'.done = 0
  BY SystemNumbers DEF NewSystemState
<1>6. (/\ Len(queue) <= batch.done /\ Len(queue) <= SystemOrders
       /\ SystemAt(SystemEvents, SystemOrders, SystemOrders - Len(queue), Warm)
       /\ stage # "measured")'
  BY <1>2, <1>3, <1>4, <1>5
<1> QED BY <1>6 DEF SystemInv

\* An event of a batch.
LEMMA SystemEvent ==
  ASSUME LoopInv, SystemInv, config.program # "bench_parser",
         NextEvent,
         ProcessUpdate(UpdateAt(config, OperationsDone)), UNCHANGED before
  PROVE  SystemInv' /\ UNCHANGED outcome
<1> DEFINE n == OperationsDone
           k == SystemOrders
           more == IF Generates(config, n) THEN 1 ELSE 0
<1>0. /\ n \in Nat /\ k \in Nat /\ Warm \in Nat /\ SystemEvents \in Nat
      /\ config \in Configs /\ batch \in [count : Nat, done : Nat]
      /\ event_index \in Nat
  BY SystemNumbers
<1>1. /\ batch.done < batch.count /\ UNCHANGED <<config, stage, event_index>>
      /\ batch'.done = batch.done + 1 /\ n' = n + 1
  BY <1>0 DEF NextEvent, loopVars, OperationsDone
<1>2. batch # NoBatch /\ ~Unbatched
  BY <1>1, SystemNumbers DEF LoopInv
<1>3. stage # "baseline" /\ stage # "args"
  <2>1. config.program \in {"bench_end_to_end", "bench_path_comparison"}
    BY <1>0, ConfigNumbers DEF Program
  <2> QED BY <1>2, <2>1 DEF Unbatched, LoopInv, StagesOf
<1>4. Processed = n /\ Processed' = n + 1
  BY <1>1, <1>3 DEF Processed
<1>5. /\ Len(queue) \in Nat /\ Len(queue) <= batch.done
      /\ Len(queue) <= k
      /\ SystemAt(SystemEvents, k, k - Len(queue), Warm)
  <2>1. IsSequence(queue)
    BY DEF SystemInv, SystemAt
  <2> QED BY <2>1, LenProperties DEF SystemInv, IsSequence
<1>6. Len(queue) < Capacity
  <2>1. config.batch_size <= Capacity /\ batch.count <= config.batch_size
    BY <1>3 DEF LoopInv, BatchFits
  <2>2. config.batch_size \in Nat /\ Capacity \in Nat
    BY <1>0, ConfigNumbers, PipelineAssumption
  <2> QED BY <1>0, <1>1, <1>5, <2>1, <2>2
<1>7. Generates(config, n) =>
        OrderNumber(config, Warm, k + 1)
          = OrderMadeOf(k + 1, UpdateAt(config, n))
  <2> SUFFICES ASSUME Generates(config, n)
               PROVE  OrderNumber(config, Warm, k + 1)
                        = OrderMadeOf(k + 1, UpdateAt(config, n))
    OBVIOUS
  <2>1. k = Generated(config, n) + Warm /\ Generated(config, n) \in Nat
    BY <1>0, <1>4, SystemNumbers DEF SystemOrders
  <2>2. k + 1 > Warm /\ (k + 1) - Warm = Generated(config, n) + 1
    BY <1>0, <2>1
  <2>3. NthGenerating(config, (k + 1) - Warm) = n
    BY <1>0, <2>2, NthGeneratingIs
  <2> QED BY <2>2, <2>3 DEF OrderNumber
<1>8. /\ SystemEvents' = SystemEvents + 1 /\ Warm' = Warm
      /\ SystemOrders' = k + more
  <2>1. Warm' = Warm
    BY <1>1 DEF Warm
  <2>2. SystemEvents' = SystemEvents + 1
    BY <1>0, <1>1, <1>4, SystemNumbers DEF SystemEvents
  <2>3. Generated(config, n + 1) = Generated(config, n) + more
    BY <1>0, GeneratedCounts
  <2>4. SystemOrders' = k + more
    BY <1>0, <1>1, <1>4, <2>1, <2>3, GeneratedCounts DEF SystemOrders
  <2> QED BY <2>1, <2>2, <2>4
<1>a. PICK e0 \in Nat : e0 = SystemEvents
  BY <1>0
<1>b. PICK k0 \in Nat : k0 = SystemOrders
  BY <1>0
<1>c. k - Len(queue) \in Nat
  BY <1>0, <1>5
<1>d. PICK s0 \in Nat : s0 = k - Len(queue)
  BY <1>c
<1>e. PICK w0 \in Nat : w0 = Warm
  BY <1>0
<1>9. /\ e0 = SystemEvents /\ k0 = k /\ s0 = k - Len(queue) /\ w0 = Warm
  BY <1>a, <1>b, <1>d, <1>e
<1>10. SystemAt(e0, k0, s0, w0) /\ s0 <= k0
  BY <1>5, <1>9
<1>11. more \in {0, 1} /\ more = IF Generates(config, n) THEN 1 ELSE 0
  OBVIOUS
<1>12. PICK m0 \in {0, 1} : m0 = more
  BY <1>11
<1>13. /\ Generates(config, n) =>
           OrderNumber(config, w0, k0 + 1)
             = OrderMadeOf(k0 + 1, UpdateAt(config, n))
       /\ m0 = IF Generates(config, n) THEN 1 ELSE 0
       /\ config' = config
  BY <1>1, <1>7, <1>9, <1>12
<1> HIDE DEF n, k, more
<1>14. SystemAt(e0 + 1, k0 + m0, s0, w0)' /\ UNCHANGED outcome
  BY <1>0, <1>6, <1>10, <1>13, EventIsProcessed DEF n
<1>15. Len(queue') = (k0 + m0) - s0
  BY <1>14 DEF SystemAt
<1>16. /\ Len(queue') <= batch'.done /\ Len(queue') <= SystemOrders'
       /\ SystemOrders' - Len(queue') = s0
  <2>1. Len(queue') = Len(queue) + m0 /\ SystemOrders' = k0 + m0
    BY <1>0, <1>5, <1>8, <1>9, <1>12, <1>15
  <2> QED BY <1>0, <1>1, <1>5, <1>9, <1>12, <2>1
<1>17. SystemAt(SystemEvents, SystemOrders, SystemOrders - Len(queue), Warm)'
  BY <1>8, <1>9, <1>12, <1>14, <1>16
<1>18. (stage = "measured" =>
          before = CountersOf(config.warmup_iterations, Warm))'
  BY <1>1, <1>8 DEF SystemInv
<1> QED BY <1>14, <1>16, <1>17, <1>18 DEF SystemInv

\* An iteration of Drain at the end of a batch, or its return.
LEMMA SystemDrain ==
  ASSUME LoopInv, DrainInv, SystemInv, BatchDrainStep, UNCHANGED before
  PROVE  SystemInv' /\ UNCHANGED outcome
<1>0. /\ SystemOrders \in Nat /\ Warm \in Nat /\ SystemEvents \in Nat
      /\ batch \in [count : Nat, done : Nat] /\ event_index \in Nat
      /\ config.program # "bench_parser" /\ pc = "drain"
      /\ batch.done = batch.count
  BY SystemNumbers DEF BatchDrainStep, DrainInv
<1>1. UNCHANGED <<config, stage, strategy, outcome>>
  BY DEF BatchDrainStep, loopVars
<1>2. /\ Len(queue) \in Nat /\ Len(queue) <= batch.done
      /\ Len(queue) <= SystemOrders /\ IsSequence(queue)
      /\ SystemAt(SystemEvents, SystemOrders, SystemOrders - Len(queue), Warm)
  <2>1. IsSequence(queue)
    BY <1>0 DEF SystemInv, SystemAt
  <2> QED BY <1>0, <2>1, LenProperties DEF SystemInv, IsSequence
<1>3. CASE queue # <<>>
  <2>a. PICK e0 \in Nat : e0 = SystemEvents
    BY <1>0
  <2>b. PICK k0 \in Nat : k0 = SystemOrders
    BY <1>0
  <2>c. SystemOrders - Len(queue) \in Nat
    BY <1>0, <1>2
  <2>d. PICK s0 \in Nat : s0 = SystemOrders - Len(queue)
    BY <2>c
  <2>e. PICK w0 \in Nat : w0 = Warm
    BY <1>0
  <2>1. SystemAt(e0, k0, s0, w0) /\ s0 <= k0
    BY <1>2, <2>a, <2>b, <2>d, <2>e
  <2>2. /\ s0 + 1 <= k0 /\ Len(queue') = Len(queue) - 1 /\ pc' = "drain"
        /\ SystemAt(e0, k0, s0 + 1, w0)'
    BY <1>0, <1>1, <1>3, <2>1, OrderIsSent DEF BatchDrainStep
  <2>3. UNCHANGED <<event_index, batch>>
    BY <2>2 DEF BatchDrainStep
  <2>4. /\ SystemEvents' = e0 /\ SystemOrders' = k0 /\ Warm' = w0
    BY <1>1, <2>a, <2>b, <2>e, <2>3
    DEF SystemEvents, SystemOrders, Warm, Processed, OperationsDone
  <2>5. /\ Len(queue') <= batch'.done /\ Len(queue') <= SystemOrders'
        /\ SystemOrders' - Len(queue') = s0 + 1
    BY <1>0, <1>2, <2>b, <2>d, <2>2, <2>3, <2>4
  <2>6. SystemAt(SystemEvents, SystemOrders, SystemOrders - Len(queue), Warm)'
    BY <2>2, <2>4, <2>5
  <2>7. (stage = "measured" =>
          before = CountersOf(config.warmup_iterations, Warm))'
    BY <1>0, <1>1, <2>e, <2>4 DEF SystemInv
  <2> QED BY <1>1, <2>5, <2>6, <2>7 DEF SystemInv
<1>4. CASE queue = <<>>
  <2>1. EndDrain
    BY <1>4 DEF BatchDrainStep, DrainStep, DrainRiskRejected, DrainNoGateway,
                DrainSent, PopOrder
  <2>2. EndBatch
    BY <2>1 DEF BatchDrainStep, EndDrain
  <2>3. batch'.done = 0 /\ event_index' = event_index + batch.count
    BY <2>2, SystemNumbers DEF EndBatch
  <2>4. OperationsDone' = OperationsDone
    BY <1>0, <2>3 DEF OperationsDone
  <2>5. SystemStays
    BY <1>1, <2>1, <2>4 DEF SystemStays, EndDrain, gatewayVars, Processed
  <2>6. Len(queue) = 0
    BY <1>4
  <2> QED BY <1>1, <2>3, <2>5, <2>6, SystemKept
<1> QED BY <1>3, <1>4

\* At the end of a stage its system has seen every event of it, and counts
\* them and their orders, none missing and none left over.
LEMMA StageCounts ==
  ASSUME LoopInv, SystemInv, config.program # "bench_parser",
         batch = NoBatch, event_index >= iterations
  PROVE  /\ queue = <<>> /\ event_index = iterations
         /\ Processed = IF stage = "baseline" THEN 0 ELSE iterations
         /\ CaptureCounters = CountersOf(SystemEvents, SystemOrders)
<1>0. /\ SystemOrders \in Nat /\ Warm \in Nat /\ SystemEvents \in Nat
      /\ batch.done = 0 /\ batch.count = 0
      /\ event_index \in Nat /\ iterations \in Nat
  BY SystemNumbers, IterationsNumber
<1>1. event_index = iterations /\ OperationsDone = iterations
  BY <1>0 DEF LoopInv, OperationsDone
<1>2. IsSequence(queue) /\ Len(queue) = 0
  <2>1. IsSequence(queue) /\ Len(queue) <= batch.done
    BY DEF SystemInv, SystemAt
  <2> QED BY <1>0, <2>1, LenProperties DEF IsSequence
<1>3. queue = <<>>
  BY <1>2, EmptySeq DEF IsSequence
<1>4. SystemAt(SystemEvents, SystemOrders, SystemOrders, Warm)
  <2>1. SystemOrders - Len(queue) = SystemOrders
    BY <1>0, <1>2
  <2> QED BY <2>1 DEF SystemInv
<1>5. CaptureCounters = CountersOf(SystemEvents, SystemOrders)
  BY <1>0, <1>4 DEF SystemAt, CaptureCounters, CountersOf
<1> QED BY <1>1, <1>3, <1>5 DEF Processed

\* So bench_end_to_end finds what it expects,
LEMMA EndToEndIsValid ==
  ASSUME LoopInv, SystemInv, config.program = "bench_end_to_end",
         batch = NoBatch, event_index >= iterations
  PROVE  stage = "baseline" \/ ValidateCounters(CaptureCounters, iterations)
<1> SUFFICES ASSUME stage # "baseline"
             PROVE  ValidateCounters(CaptureCounters, iterations)
  OBVIOUS
<1>1. stage # "measured"
  BY DEF LoopInv, StagesOf
<1>2. SystemEvents = iterations /\ SystemOrders \in Nat
  BY <1>1, StageCounts, SystemNumbers, IterationsNumber DEF SystemEvents
<1>3. CaptureCounters = CountersOf(iterations, SystemOrders)
  BY <1>2, StageCounts
<1> QED BY <1>2, <1>3 DEF ValidateCounters, CountersOf

\* and bench_path_comparison the number of orders it predicted.
LEMMA PathStageCounters ==
  ASSUME LoopInv, SystemInv, config.program = "bench_path_comparison",
         batch = NoBatch, event_index >= iterations
  PROVE  StageCounters = CountersOf(iterations, Generated(config, iterations))
<1>0. /\ stage # "baseline" /\ Processed = iterations /\ iterations \in Nat
      /\ Generated(config, iterations) \in Nat /\ Warm \in Nat
      /\ config.warmup_iterations \in Nat
      /\ CaptureCounters = CountersOf(SystemEvents, SystemOrders)
  <2>1. stage # "baseline"
    BY DEF LoopInv, StagesOf
  <2> QED BY <2>1, StageCounts, SystemNumbers, IterationsNumber
<1>1. CASE stage # "measured"
  <2>1. SystemEvents = iterations
    BY <1>0, <1>1 DEF SystemEvents
  <2>2. SystemOrders = Generated(config, iterations)
    BY <1>0, <1>1 DEF SystemOrders, Warm
  <2> QED BY <1>0, <1>1, <2>1, <2>2 DEF StageCounters
<1>2. CASE stage = "measured"
  <2>1. SystemEvents = iterations + config.warmup_iterations
    BY <1>0, <1>2 DEF SystemEvents
  <2>2. SystemOrders = Generated(config, iterations) + Warm
    BY <1>0 DEF SystemOrders
  <2>3. before = CountersOf(config.warmup_iterations, Warm)
    BY <1>2 DEF SystemInv
  <2> DEFINE G == Generated(config, iterations)
             i == iterations
             m == config.warmup_iterations
             w == Warm
  <2>4. StageCounters = SubtractCounters(CountersOf(i + m, G + w),
                                         CountersOf(m, w))
    BY <1>0, <1>2, <2>1, <2>2, <2>3 DEF StageCounters
  <2>5. i \in Nat /\ m \in Nat /\ G \in Nat /\ w \in Nat
    BY <1>0
  <2> HIDE DEF G, i, m, w
  <2>6. (i + m) - m = i /\ (G + w) - w = G /\ 0 - 0 = 0
    BY <2>5
  <2>7. SubtractCounters(CountersOf(i + m, G + w), CountersOf(m, w))
          = CountersOf(i, G)
    BY <2>6 DEF SubtractCounters, CountersOf
  <2> QED BY <2>4, <2>7 DEF G, i
<1> QED BY <1>1, <1>2

LEMMA PathIsValid ==
  ASSUME LoopInv, SystemInv, InputsInv, inputs # <<>>,
         config.program = "bench_path_comparison",
         batch = NoBatch, event_index >= iterations
  PROVE  StageIsValid
<1>1. iterations \in Nat /\ StageCounters =
        CountersOf(iterations, Generated(config, iterations))
  BY PathStageCounters, SystemNumbers, IterationsNumber
<1>2. ExpectedOrders(0, iterations) = Generated(config, iterations)
  <2>1. \A i \in 0..(iterations - 1) :
          InputAt(inputs, 0 + i).should_generate_order <=> Generates(config, i)
    BY <1>1 DEF InputsInv
  <2>2. {i \in 0..(iterations - 1) :
           InputAt(inputs, 0 + i).should_generate_order}
          = Generating(config, iterations)
    BY <2>1 DEF Generating
  <2> QED BY <2>2 DEF ExpectedOrders, Generated
<1> QED BY <1>1, <1>2 DEF StageIsValid, ValidatePathCounters, CountersOf

\* A measurement goes on with the system of its warmup: the orders are the
\* same ones, now counted as the warmup's.
LEMMA WarmupContinues ==
  ASSUME LoopInv, SystemInv, LoopInv', config.program # "bench_parser",
         batch = NoBatch, event_index >= iterations,
         batch' = NoBatch, event_index' = 0,
         stage = "warmup", stage' = "measured", before' = CaptureCounters,
         UNCHANGED <<config, wiring, strategy, queue, pipeline, gateway,
                     exchange>>
  PROVE  SystemInv'
<1> DEFINE m == config.warmup_iterations
<1>0. m \in Nat /\ Generated(config, m) \in Nat /\ NoBatch.done = 0
  BY SystemNumbers, GeneratedCounts
<1>a. PICK k0 \in Nat : k0 = Generated(config, m)
  BY <1>0
<1>1. /\ queue = <<>> /\ Len(queue) = 0 /\ Processed = m /\ Warm = 0
      /\ SystemEvents = m /\ SystemOrders = k0
      /\ CaptureCounters = CountersOf(SystemEvents, SystemOrders)
  <2>1. /\ queue = <<>> /\ Processed = m
        /\ CaptureCounters = CountersOf(SystemEvents, SystemOrders)
    BY StageCounts DEF iterations
  <2>2. Warm = 0 /\ SystemEvents = m
    BY <1>0, <2>1 DEF Warm, SystemEvents
  <2>3. SystemOrders = k0
    BY <1>0, <1>a, <2>1, <2>2 DEF SystemOrders
  <2> QED BY <2>1, <2>2, <2>3
<1>2. /\ Processed' = 0 /\ Warm' = k0 /\ SystemEvents' = m
      /\ SystemOrders' = k0
  <2>1. Processed' = 0
    BY <1>0 DEF Processed, OperationsDone
  <2>2. Warm' = k0
    BY <1>a DEF Warm
  <2>3. SystemEvents' = m
    BY <1>0, <2>1 DEF SystemEvents
  <2>4. SystemOrders' = k0
    BY <2>1, <2>2, GeneratedCounts DEF SystemOrders
  <2> QED BY <2>1, <2>2, <2>3, <2>4
<1> HIDE DEF m
<1>3. \A id \in 1..k0 :
        OrderNumber(config, 0, id) = OrderNumber(config, k0, id)
  <2> SUFFICES ASSUME NEW id \in 1..k0
               PROVE  OrderNumber(config, 0, id) = OrderNumber(config, k0, id)
    OBVIOUS
  <2>1. id > 0 /\ ~(id > k0) /\ id - 0 = id
    OBVIOUS
  <2> QED BY <2>1 DEF OrderNumber
<1>4. SystemAt(m, k0, k0, 0)
  <2>1. SystemOrders - Len(queue) = k0
    BY <1>1
  <2> QED BY <1>1, <2>1 DEF SystemInv
<1>5. exchange' = [seen |-> 1..k0,
                   active |-> [id \in 1..k0 |-> OrderNumber(config', k0, id)]]
  BY <1>3, <1>4 DEF SystemAt
<1>6. SystemAt(m, k0, k0, k0)'
  <2>1. m' = m
    BY DEF m
  <2>2. \A i \in 1..Len(queue') : FALSE
    BY <1>1
  <2> QED BY <1>4, <1>5, <2>1, <2>2 DEF SystemAt
<1>7. before' = CountersOf(config'.warmup_iterations, Warm')
  BY <1>1, <1>2 DEF m
<1>8. /\ Len(queue') = 0 /\ batch'.done = 0
      /\ Len(queue') <= batch'.done /\ Len(queue') <= SystemOrders'
      /\ SystemOrders' - Len(queue') = k0
  BY <1>0, <1>1, <1>2
<1>9. m' = m
  BY DEF m
<1>10. SystemAt(SystemEvents, SystemOrders, SystemOrders - Len(queue), Warm)'
  BY <1>2, <1>6, <1>8, <1>9
<1> QED BY <1>7, <1>8, <1>10 DEF SystemInv

----------------------------------------------------------------------------
(* The checks never fire, and batches start clean. *)

MeasuringInv ==
  /\ LoopInv /\ DrainInv /\ InputsInv /\ SystemInv
  /\ outcome # "check_failed"

\* The prepared inputs do not change, and there is no loop without them.
LEMMA InputsStep ==
  ASSUME LoopInv, DrainInv, InputsInv, [BenchmarksNext]_benchmarkVars
  PROVE  InputsInv'
<1> SUFFICES ASSUME config'.program = "bench_path_comparison"
             PROVE  InputsInv'
  BY DEF InputsInv
<1>0. config' = config /\ config.program = "bench_path_comparison"
  BY StepMoves DEF LoopMoves, LoopStays, LoopBegins, LoopAdvances,
                   LoopFinishes
<1>1. CASE inputs # <<>> /\ UNCHANGED inputs
  BY <1>0, <1>1 DEF InputsInv
<1>2. CASE PrepareInputs
  <2>1. CASE inputs' # <<>>
    <3>1. \A index \in Nat :
            /\ InputAt(inputs', index).line = LineAt(config, index)
            /\ AsUpdate(InputAt(inputs', index)) = UpdateAt(config, index)
            /\ InputAt(inputs', index).should_generate_order
                 <=> Generates(config, index)
      BY <1>0, <1>2, PreparedAsPredicted DEF PrepareInputs
    <3> QED BY <1>0, <2>1, <3>1 DEF InputsInv
  <2>2. CASE inputs' = <<>>
    BY <1>0, <1>2, <2>2 DEF PrepareInputs, InputsInv, loopVars
  <2> QED BY <2>1, <2>2
<1>3. CASE inputs = <<>> /\ ~PrepareInputs
  <2>1. /\ stage \in {"args", "stabilization"} /\ batch = NoBatch
        /\ event_index = 0 /\ batch.count = 0 /\ batch.done = 0
        /\ pc # "drain"
    BY <1>0, <1>3 DEF InputsInv, NoBatch, DrainInv
  <2>2. CASE ParseArgs /\ UNCHANGED pathVars
    BY <1>0, <1>3, <2>1, <2>2 DEF ParseArgs, InputsInv, pathVars
  <2>3. CASE UNCHANGED benchmarkVars
    BY <1>0, <1>3, <2>1, <2>3
    DEF benchmarkVars, benchVars, pathVars, InputsInv
  <2>4. ~PathNext
    BY <1>3, <2>1 DEF PathNext, StartPathBatch, TextEvent, PreparedEvent,
         NextEvent, BatchDrain, BatchDrainStep, FinishSystem, FinishWarmup
  <2>5. ~EndToEndNext /\ ~ParserNext /\ ~FinishReport
    BY <1>0, <2>1 DEF EndToEndNext, ParserNext, FinishReport
  <2> QED BY <2>2, <2>3, <2>4, <2>5 DEF BenchmarksNext
<1>4. PrepareInputs \/ UNCHANGED inputs
  BY <1>0 DEF BenchmarksNext, EndToEndNext, ParserNext, PathNext, pathVars,
              benchmarkVars, StartPathBatch, TextEvent, PreparedEvent,
              FinishSystem, FinishWarmup
<1> QED BY <1>1, <1>2, <1>3, <1>4

\* Both programs that measure a system give it the same update for an event.
LEMMA EventsAreTheUpdates ==
  ASSUME MeasuringInv,
         \/ ProcessEvent /\ config.program = "bench_end_to_end"
         \/ /\ TextEvent \/ PreparedEvent
            /\ config.program = "bench_path_comparison"
  PROVE  NextEvent /\ ProcessUpdate(UpdateAt(config, OperationsDone))
<1>0. /\ config \in Configs /\ OperationsDone \in Nat
      /\ OperationsDone = event_index + batch.done
      /\ NextEvent
  BY SystemNumbers
  DEF MeasuringInv, OperationsDone, ProcessEvent, TextEvent, PreparedEvent
<1>1. ParseMarketDataLine(LineAt(config, OperationsDone)).status = "kOk"
  BY <1>0, UpdatesAreUsable
<1>2. CASE ProcessEvent /\ config.program = "bench_end_to_end"
  <2>1. input_of_event = LineAt(config, OperationsDone)
    BY <1>0, <1>2 DEF input_of_event, LineAt, LinesOf
  <2> QED BY <1>0, <1>1, <1>2, <2>1
          DEF ProcessEvent, ProcessParsed, UpdateAt
<1>3. CASE /\ TextEvent \/ PreparedEvent
           /\ config.program = "bench_path_comparison"
  <2>1. batch # NoBatch
    BY <1>0, SystemNumbers DEF NextEvent, MeasuringInv
  <2>2. inputs # <<>>
    BY <1>3, <2>1 DEF MeasuringInv, InputsInv
  <2>3. /\ prepared_input.line = LineAt(config, OperationsDone)
        /\ AsUpdate(prepared_input) = UpdateAt(config, OperationsDone)
    BY <1>0, <1>3, <2>2 DEF MeasuringInv, InputsInv, prepared_input
  <2>4. CASE TextEvent
    BY <1>0, <1>1, <2>3, <2>4 DEF TextEvent, ProcessParsed, UpdateAt
  <2>5. CASE PreparedEvent
    BY <1>0, <2>3, <2>5 DEF PreparedEvent
  <2> QED BY <1>3, <2>4, <2>5
<1> QED BY <1>2, <1>3

\* The steps of the two programs, and of main around them.
LEMMA MeasuringStep ==
  ASSUME MeasuringInv, [BenchmarksNext]_benchmarkVars
  PROVE  MeasuringInv'
<1>0. /\ LoopInv /\ DrainInv /\ InputsInv /\ SystemInv
      /\ outcome # "check_failed" /\ config \in Configs
      /\ LoopInv' /\ DrainInv' /\ InputsInv' /\ config' = config
      /\ batch \in [count : Nat, done : Nat]
      /\ NoBatch.done = 0 /\ NoBatch.count = 0
  <2>1. LoopMoves /\ DrainInv' /\ InputsInv' /\ LoopInv'
    BY StepMoves, LoopKept, InputsStep DEF MeasuringInv
  <2> QED BY <2>1, SystemNumbers
          DEF MeasuringInv, LoopMoves, LoopStays, LoopBegins, LoopAdvances,
              LoopFinishes
<1>a. ASSUME NEW valid, NEW reserved, FinishLoop(valid, reserved), valid
      PROVE  outcome' # "check_failed"
  BY <1>0, <1>a DEF FinishLoop
<1>b. ASSUME config.program # "bench_parser",
             batch = NoBatch \/ batch'.done >= batch.done,
             SystemStays
      PROVE  SystemInv'
  <2>1. Len(queue) <= batch.done /\ Len(queue) \in Nat
    <3>1. IsSequence(queue)
      BY <1>0, <1>b DEF SystemInv, SystemAt
    <3> QED BY <1>0, <1>b, <3>1, LenProperties DEF SystemInv, IsSequence
  <2>2. batch'.done \in Nat
    BY <1>0 DEF LoopInv
  <2>3. batch'.done >= Len(queue)
    BY <1>0, <1>b, <2>1, <2>2
  <2> QED BY <1>0, <1>b, <2>3, SystemKept
<1>1. CASE ParseArgs /\ UNCHANGED pathVars
  <2>1. SystemInv'
    <3>1. CASE config.program = "bench_parser"
      BY <1>0, <3>1 DEF SystemInv
    <3>2. CASE config.program # "bench_parser"
      <4>1. Processed' = Processed
        BY <1>1 DEF ParseArgs, Processed, OperationsDone
      <4>2. SystemStays
        BY <1>0, <1>1, <4>1 DEF ParseArgs, SystemStays, vars, pathVars
      <4> QED BY <1>1, <1>0, <3>2, <4>2, <1>b DEF ParseArgs
    <3> QED BY <3>1, <3>2
  <2> QED BY <1>0, <1>1, <2>1 DEF ParseArgs, MeasuringInv
<1>2. CASE FinishReport /\ UNCHANGED pathVars
  <2>1. SystemInv'
    <3>1. CASE config.program = "bench_parser"
      BY <1>0, <3>1 DEF SystemInv
    <3>2. CASE config.program # "bench_parser"
      <4>1. Processed' = Processed
        BY <1>2 DEF FinishReport, loopVars, Processed, OperationsDone
      <4>2. SystemStays
        BY <1>0, <1>2, <4>1
        DEF FinishReport, SystemStays, vars, pathVars, loopVars
      <4> QED BY <1>2, <1>0, <3>2, <4>2, <1>b DEF FinishReport
    <3> QED BY <3>1, <3>2
  <2> QED BY <1>0, <1>2, <2>1 DEF FinishReport, MeasuringInv
<1>3. CASE UNCHANGED benchmarkVars
  <2>1. SystemInv'
    <3>1. CASE config.program = "bench_parser"
      BY <1>0, <3>1 DEF SystemInv
    <3>2. CASE config.program # "bench_parser"
      <4>1. Processed' = Processed /\ batch' = batch
        BY <1>3 DEF benchmarkVars, benchVars, Processed, OperationsDone
      <4>2. SystemStays
        BY <1>0, <1>3, <4>1
        DEF SystemStays, vars, pathVars, benchVars, benchmarkVars
      <4> QED BY <1>0, <3>2, <4>1, <4>2, <1>b
    <3> QED BY <3>1, <3>2
  <2> QED BY <1>0, <1>3, <2>1 DEF benchmarkVars, benchVars, MeasuringInv
<1>4. CASE StartBatch /\ UNCHANGED pathVars /\ config.program # "bench_parser"
  <2>1. Processed' = Processed
    BY <1>0, <1>4 DEF StartBatch, loopVars, Processed, OperationsDone
  <2>2. SystemStays
    BY <1>0, <1>4, <2>1 DEF StartBatch, SystemStays, vars, pathVars, loopVars
  <2> QED BY <1>0, <1>4, <2>2, <1>b DEF StartBatch, MeasuringInv
<1>5. CASE BatchDrain /\ UNCHANGED pathVars /\ config.program # "bench_parser"
  <2>1. Processed' = Processed
    BY <1>5 DEF BatchDrain, benchVars, Processed, OperationsDone
  <2>2. SystemStays
    BY <1>0, <1>5, <2>1 DEF BatchDrain, BeginDrain, SystemStays, benchVars,
                            pathVars, gatewayVars
  <2> QED BY <1>0, <1>5, <2>2, <1>b DEF BatchDrain, benchVars, MeasuringInv
<1>6. CASE BatchDrainStep /\ UNCHANGED pathVars
  BY <1>0, <1>6, SystemDrain DEF pathVars, MeasuringInv
<1>7. CASE BaselineBatch /\ UNCHANGED pathVars
           /\ config.program = "bench_end_to_end"
  <2>1. Processed' = Processed
    BY <1>7 DEF BaselineBatch, loopVars, Processed
  <2>2. SystemStays
    BY <1>0, <1>7, <2>1 DEF BaselineBatch, SystemStays, vars, pathVars,
                            loopVars
  <2> QED BY <1>0, <1>7, <2>2, <1>b DEF BaselineBatch, MeasuringInv
<1>8. ASSUME \/ ProcessEvent /\ config.program = "bench_end_to_end"
             \/ /\ TextEvent \/ PreparedEvent
                /\ config.program = "bench_path_comparison",
             UNCHANGED pathVars
      PROVE  MeasuringInv'
  <2>1. NextEvent /\ ProcessUpdate(UpdateAt(config, OperationsDone))
    BY <1>8, EventsAreTheUpdates
  <2>2. config.program # "bench_parser" /\ UNCHANGED before
    BY <1>8 DEF pathVars
  <2> QED BY <1>0, <2>1, <2>2, SystemEvent DEF MeasuringInv
<1>9. CASE FinishStage /\ config.program = "bench_end_to_end"
  <2>1. /\ batch = NoBatch /\ event_index >= iterations /\ event_index' = 0
        /\ batch' = NoBatch /\ NewSystemState /\ UNCHANGED <<config, wiring>>
    BY <1>9 DEF FinishStage, FinishLoop, unusedVars
  <2>2. outcome' # "check_failed"
    BY <1>0, <1>9, <1>a, <2>1, EndToEndIsValid DEF FinishStage
  <2>3. stage' # "measured"
    BY <1>0, <1>9 DEF LoopInv, StagesOf
  <2> QED BY <1>0, <2>1, <2>2, <2>3, NewSystemKept DEF MeasuringInv
<1>10. CASE PrepareInputs /\ config.program = "bench_path_comparison"
  <2>1. ~PreparationFails
    <3>1. \A i \in DOMAIN RawInputs :
            ParseMarketDataLine(RawInputs[i].line).status = "kOk"
      BY RawLinesAssumption DEF RawInputs, IsBenchmarkLine
    <3> QED BY <3>1 DEF PreparationFails
  <2>2. Processed' = Processed
    BY <1>10 DEF PrepareInputs, loopVars, Processed, OperationsDone
  <2>3. SystemStays
    BY <1>0, <1>10, <2>2 DEF PrepareInputs, SystemStays, vars, loopVars
  <2> QED BY <1>0, <1>10, <2>1, <2>3, <1>b DEF PrepareInputs, MeasuringInv
<1>11. CASE FinishSystem /\ config.program = "bench_path_comparison"
  <2>1. /\ batch = NoBatch /\ event_index >= iterations /\ event_index' = 0
        /\ batch' = NoBatch /\ NewSystemState /\ UNCHANGED <<config, wiring>>
        /\ FinishLoop(StageIsValid, PathReserved) /\ inputs # <<>>
    BY <1>11 DEF FinishSystem, FinishLoop, unusedVars
  <2>2. outcome' # "check_failed"
    BY <1>0, <1>11, <1>a, <2>1, PathIsValid
  <2>3. stage' # "measured"
    BY <1>11 DEF FinishSystem, OtherModeNext, NextPathTrial, NextTrial
  <2> QED BY <1>0, <2>1, <2>2, <2>3, NewSystemKept DEF MeasuringInv
<1>12. CASE FinishWarmup /\ config.program = "bench_path_comparison"
  <2>1. /\ batch = NoBatch /\ event_index >= iterations /\ event_index' = 0
        /\ batch' = NoBatch /\ stage = "warmup" /\ stage' = "measured"
        /\ FinishLoop(StageIsValid, PathReserved)
        /\ before' = CaptureCounters
        /\ UNCHANGED <<wiring, strategy, queue, pipeline, gateway, exchange>>
    BY <1>12 DEF FinishWarmup, FinishLoop, vars
  <2>2. inputs # <<>>
    BY <1>0, <1>12, <2>1 DEF InputsInv
  <2>3. outcome' # "check_failed"
    BY <1>0, <1>12, <1>a, <2>1, <2>2, PathIsValid
  <2>4. SystemInv'
    BY <1>0, <1>12, <2>1, WarmupContinues
  <2> QED BY <1>0, <2>3, <2>4 DEF MeasuringInv
<1>13. CASE ParserNext
  <2>1. config.program = "bench_parser"
    BY <1>13 DEF ParserNext
  <2>2. SystemInv'
    BY <1>0, <2>1 DEF SystemInv
  <2>3. outcome' # "check_failed"
    <3>1. ParseMarketDataLine(input_of_operation).status = "kOk"
      <4>1. config.inputs \in {"single", "varied"}
        BY <1>0, <2>1, ConfigNumbers DEF InputsNames
      <4>2. OperationsDone \in Nat
        BY <1>0, SystemNumbers
      <4> QED BY <4>1, <4>2, InputIsALine
              DEF input_of_operation, IsBenchmarkLine, OperationsDone
    <3>2. CASE FinishParserStage
      BY <1>a, <3>2 DEF FinishParserStage
    <3> QED BY <1>0, <1>13, <3>1, <3>2
            DEF ParserNext, ParseUntimed, ParseInput, StartParserBatch,
                StartBatch, Operation, TouchInput, EndParserBatch
  <2> QED BY <1>0, <2>2, <2>3 DEF MeasuringInv
<1>14. EndToEndNext /\ UNCHANGED pathVars => MeasuringInv'
  BY <1>4, <1>5, <1>6, <1>7, <1>8, <1>9
  DEF EndToEndNext, StartStageBatch
<1>15. PathNext => MeasuringInv'
  BY <1>4, <1>5, <1>6, <1>8, <1>10, <1>11, <1>12
  DEF PathNext, StartPathBatch, TextEvent, PreparedEvent
<1> QED BY <1>1, <1>2, <1>3, <1>13, <1>14, <1>15 DEF BenchmarksNext

LEMMA MeasuringInit == BenchmarksInit => MeasuringInv
<1> SUFFICES ASSUME BenchmarksInit PROVE MeasuringInv
  OBVIOUS
<1>1. /\ LoopInv /\ DrainInv /\ InputsInv /\ outcome # "check_failed"
      /\ stage = "args" /\ event_index = 0 /\ batch = NoBatch
  BY LoopInit DEF BenchmarksInit, SystemInit, PathInit, InputsInv
<1>2. SystemAt(0, 0, 0, 0)
  <2>1. /\ exchange = [seen |-> {}, active |-> [s \in {} |-> <<>>]]
        /\ gateway = [c \in GatewayCounter |-> 0] /\ queue = <<>>
        /\ pipeline = [c \in PipelineCounter |-> 0]
        /\ strategy = [next_sequence_id |-> 1, signals_seen |-> 0,
                       orders_generated |-> 0]
        /\ wiring = BenchWiring
    BY DEF BenchmarksInit, SystemInit, Init, NewExchange, NewGateway,
           NewStrategy
  <2>2. exchange = [seen |-> 1..0,
                    active |-> [id \in 1..0 |-> OrderNumber(config, 0, id)]]
    BY <2>1
  <2>3. IsSequence(queue) /\ Len(queue) = 0
    BY <2>1, EmptySeq DEF IsSequence
  <2> QED BY <2>1, <2>2, <2>3 DEF SystemAt, PipelineCounter, GatewayCounter
<1>3. Processed = 0 /\ Warm = 0 /\ SystemEvents = 0
  BY <1>1, SystemNumbers DEF Processed, OperationsDone, Warm, SystemEvents
<1>4. SystemOrders = 0
  BY <1>3, GeneratedCounts DEF SystemOrders
<1>5. Len(queue) = 0 /\ batch.done = 0
  BY <1>1, <1>2, SystemNumbers DEF SystemAt
<1>6. SystemInv
  BY <1>1, <1>2, <1>3, <1>4, <1>5 DEF SystemInv
<1> QED BY <1>1, <1>6 DEF MeasuringInv

LEMMA MeasuringHolds == BenchmarksSpec => []MeasuringInv
<1>1. MeasuringInv /\ [BenchmarksNext]_benchmarkVars => MeasuringInv'
  BY MeasuringStep
<1> QED BY <1>1, MeasuringInit, PTL DEF BenchmarksSpec

\* Whatever the workload, the sizes of the stages and of the batches, and the
\* width of size_t, the checks with which the programs guard their results
\* stay silent: no line fails to parse, no order finds the buffer full, and
\* the counters of every stage validate, those of the path comparison
\* against the number of orders predicted from the workload.
THEOREM ChecksStaySilent == BenchmarksSpec => []ChecksNeverFire
<1>1. MeasuringInv => ChecksNeverFire
  BY DEF MeasuringInv, ChecksNeverFire
<1> QED BY <1>1, MeasuringHolds, PTL

\* Nothing is left over from a batch: between two of them the buffer is
\* empty, the book holds one order for each id given out, and the strategy
\* has seen the events of its stage, and of the warmup before it, only.
THEOREM BatchesAlwaysStartClean == BenchmarksSpec => []BatchesStartClean
<1>1. MeasuringInv => BatchesStartClean
  <2> SUFFICES ASSUME MeasuringInv, config.program # "bench_parser",
                      stage # "baseline", batch = NoBatch
               PROVE  /\ queue = <<>>
                      /\ DOMAIN exchange.active =
                           1..(strategy.next_sequence_id - 1)
                      /\ strategy.signals_seen =
                           event_index +
                             IF stage = "measured"
                             THEN config.warmup_iterations ELSE 0
    BY DEF BatchesStartClean
  <2>0. /\ SystemOrders \in Nat /\ event_index \in Nat /\ batch.done = 0
        /\ SystemAt(SystemEvents, SystemOrders, SystemOrders - Len(queue),
                    Warm)
        /\ Len(queue) <= batch.done
    BY SystemNumbers DEF MeasuringInv, SystemInv
  <2>1. IsSequence(queue) /\ Len(queue) = 0
    <3>1. IsSequence(queue)
      BY <2>0 DEF SystemAt
    <3> QED BY <2>0, <3>1, LenProperties DEF IsSequence
  <2>2. queue = <<>>
    BY <2>1, EmptySeq DEF IsSequence
  <2>3. SystemEvents = event_index + IF stage = "measured"
                                     THEN config.warmup_iterations ELSE 0
    BY <2>0 DEF SystemEvents, Processed, OperationsDone
  <2>4. SystemOrders - Len(queue) = SystemOrders
    BY <2>0, <2>1
  <2> QED BY <2>0, <2>2, <2>3, <2>4 DEF SystemAt
<1> QED BY <1>1, MeasuringHolds, PTL

----------------------------------------------------------------------------
(* The samples of a stage. *)

\* The n-th batch is full, or the last and partial one.
BatchNumber(c, n) == IF n * c.batch_size <= c.measured_iterations
                     THEN c.batch_size
                     ELSE c.measured_iterations - (n - 1) * c.batch_size

\* The sum of samples is a fold of +.
Plus(a, b) == a + b

Adding == INSTANCE FoldLemmas WITH op <- Plus

LEMMA SumIsFold == \A s : Sum(s) = Adding!LeftFold(0, s)
  BY DEF Sum, Sequence!FoldLeft, Sequence!MapThenFoldSet, Sequence!Max, Plus,
         Adding!LeftFold, Adding!IsFold, Adding!IsFoldOver, Adding!Latest

LEMMA SumOfNone == Sum(<<>>) = 0
  BY SumIsFold, Adding!FoldEmpty

LEMMA SumOfOneMore ==
  ASSUME NEW s, IsSequence(s), NEW e
  PROVE  Sum(Append(s, e)) = Sum(s) + e
<1> DEFINE S == {s[i] : i \in DOMAIN s} \cup {e}
<1>1. s \in Seq(S) /\ e \in S
  BY DEF IsSequence
<1> HIDE DEF S
<1>2. Adding!LeftFold(0, Append(s, e)) = Plus(Adding!LeftFold(0, s), e)
  BY <1>1, Adding!FoldAppend
<1> QED BY <1>2, SumIsFold DEF Plus

\* s has the samples of the first events of a measurement.
SamplesUpTo(c, s, events) ==
  /\ IsSequence(s)
  /\ \A n \in 1..Len(s) : s[n] = BatchNumber(c, n)
  /\ events = IF Len(s) * c.batch_size <= c.measured_iterations
              THEN Len(s) * c.batch_size ELSE c.measured_iterations
  /\ Len(s) # 0 => (Len(s) - 1) * c.batch_size < c.measured_iterations
  /\ Sum(s) = events

AllSamples(c) == CHOOSE s : SamplesUpTo(c, s, c.measured_iterations)

\* The next batch.
LEMMA OneMoreSample ==
  ASSUME NEW c \in Configs, NEW s, NEW e \in Nat, NEW count,
         SamplesUpTo(c, s, e), e < c.measured_iterations,
         count = IF c.batch_size < c.measured_iterations - e
                 THEN c.batch_size ELSE c.measured_iterations - e
  PROVE  SamplesUpTo(c, Append(s, count), e + count)
<1> DEFINE B == c.batch_size
           N == c.measured_iterations
           q == Len(s)
           t == Append(s, count)
<1>1. B \in Nat \ {0} /\ N \in Nat \ {0}
  BY ConfigNumbers
<1>2. /\ IsSequence(t) /\ Len(t) = q + 1 /\ t[q + 1] = count /\ q \in Nat
      /\ \A n \in 1..q : t[n] = s[n]
  <2>1. IsSequence(s)
    BY DEF SamplesUpTo
  <2> QED BY <2>1, AppendToSequence, LenProperties DEF IsSequence
<1>3. q * B \in Nat /\ (q + 1) * B = q * B + B /\ (q + 1) - 1 = q
  BY <1>1, <1>2
<1>4. e = IF q * B <= N THEN q * B ELSE N
  BY DEF SamplesUpTo
<1>5. e = q * B /\ e < N /\ count = IF B < N - e THEN B ELSE N - e
  BY <1>1, <1>3, <1>4
<1>6. PICK m \in Nat : m = q * B
  BY <1>3
<1>7. BatchNumber(c, q + 1) = IF m + B <= N THEN B ELSE N - m
  BY <1>3, <1>6 DEF BatchNumber
<1>8. /\ BatchNumber(c, q + 1) = count
      /\ e + count = IF m + B <= N THEN m + B ELSE N
  <2> HIDE DEF B, N
  <2> QED BY <1>1, <1>5, <1>6, <1>7
<1>9. \A n \in 1..Len(t) : t[n] = BatchNumber(c, n)
  <2>1. \A n \in 1..q : s[n] = BatchNumber(c, n)
    BY DEF SamplesUpTo
  <2> HIDE DEF q, t
  <2> QED BY <1>2, <1>8, <2>1
<1>10. /\ e + count = IF Len(t) * B <= N THEN Len(t) * B ELSE N
       /\ (Len(t) - 1) * B < N
  <2>1. Len(t) * B = m + B /\ (Len(t) - 1) * B = m
    BY <1>2, <1>3, <1>6
  <2> HIDE DEF t
  <2> QED BY <1>5, <1>6, <1>8, <2>1
<1>11. Sum(t) = e + count
  BY SumOfOneMore DEF SamplesUpTo
<1> HIDE DEF t
<1> QED BY <1>2, <1>9, <1>10, <1>11 DEF SamplesUpTo, t

\* A product grows with its first factor.
LEMMA ProductsGrow ==
  ASSUME NEW p \in Nat, NEW q \in Nat, NEW b \in Nat, p <= q
  PROVE  p * b <= q * b /\ p * b \in Nat /\ q * b \in Nat
<1>1. PICK d \in Nat : q = p + d
  <2>1. q - p \in Nat /\ q = p + (q - p)
    OBVIOUS
  <2> QED BY <2>1
<1>2. q * b = p * b + d * b /\ p * b \in Nat /\ d * b \in Nat
  BY <1>1
<1> QED BY <1>2

\* There is one way to have them all.
LEMMA SamplesAreUnique ==
  ASSUME NEW c \in Configs, NEW s, NEW t,
         SamplesUpTo(c, s, c.measured_iterations),
         SamplesUpTo(c, t, c.measured_iterations)
  PROVE  s = t
<1> DEFINE B == c.batch_size
           N == c.measured_iterations
<1>1. B \in Nat \ {0} /\ N \in Nat \ {0}
  BY ConfigNumbers
<1>2. /\ IsSequence(s) /\ IsSequence(t) /\ Len(s) \in Nat /\ Len(t) \in Nat
  BY LenProperties DEF SamplesUpTo, IsSequence
<1>3. ASSUME NEW u, SamplesUpTo(c, u, N), Len(u) \in Nat
      PROVE  Len(u) # 0 /\ N <= Len(u) * B /\ (Len(u) - 1) * B < N
  <2>1. Len(u) * B \in Nat
    BY <1>1, <1>3
  <2>2. N = IF Len(u) * B <= N THEN Len(u) * B ELSE N
    BY <1>3 DEF SamplesUpTo
  <2>3. N <= Len(u) * B
    BY <1>1, <2>1, <2>2
  <2>4. Len(u) # 0
    BY <1>1, <2>3
  <2> QED BY <1>3, <2>3, <2>4 DEF SamplesUpTo
<1>4. ASSUME NEW p \in Nat, NEW q \in Nat, N <= p * B, (q - 1) * B < N,
             q # 0
      PROVE  q <= p
  <2> SUFFICES ASSUME p < q PROVE FALSE
    OBVIOUS
  <2>1. p <= q - 1 /\ q - 1 \in Nat
    BY <1>4
  <2>2. p * B <= (q - 1) * B /\ p * B \in Nat /\ (q - 1) * B \in Nat
    BY <1>1, <2>1, ProductsGrow
  <2> HIDE DEF B, N
  <2> QED BY <1>1, <1>4, <2>2
<1>5. Len(s) = Len(t)
  <2>1. Len(s) <= Len(t) /\ Len(t) <= Len(s)
    BY <1>2, <1>3, <1>4
  <2> QED BY <1>2, <2>1
<1>6. \A n \in 1..Len(s) : s[n] = t[n]
  BY <1>5 DEF SamplesUpTo
<1>7. s = [n \in 1..Len(s) |-> s[n]] /\ t = [n \in 1..Len(t) |-> t[n]]
  BY <1>2, LenProperties DEF IsSequence
<1>8. [n \in 1..Len(s) |-> s[n]] = [n \in 1..Len(t) |-> t[n]]
  BY <1>5, <1>6
<1> QED BY <1>7, <1>8

LEMMA AllSamplesIs ==
  ASSUME NEW c \in Configs, NEW s,
         SamplesUpTo(c, s, c.measured_iterations)
  PROVE  s = AllSamples(c)
<1> DEFINE P(t) == SamplesUpTo(c, t, c.measured_iterations)
<1>1. P(s) /\ \A t : P(t) => t = s
  BY SamplesAreUnique
<1> HIDE DEF P
<1>2. P(CHOOSE t : P(t))
  BY <1>1
<1>3. (CHOOSE t : P(t)) = s
  BY <1>1, <1>2
<1> QED BY <1>3 DEF AllSamples, P

\* A batch is as large as it can be, and a measurement has the samples of the
\* batches that are over.
SamplesInv ==
  /\ batch # NoBatch => batch.count = NextCount
  /\ IF Timed THEN SamplesUpTo(config, samples, event_index)
     ELSE samples = <<>>

\* There are none at first.
LEMMA NoSamples ==
  ASSUME NEW c \in Configs PROVE SamplesUpTo(c, <<>>, 0)
<1>1. c.batch_size \in Nat \ {0} /\ c.measured_iterations \in Nat \ {0}
  BY ConfigNumbers
<1>2. IsSequence(<<>>) /\ Len(<<>>) = 0
  BY EmptySeq DEF IsSequence
<1>3. 0 * c.batch_size = 0
  BY <1>1
<1> QED BY <1>1, <1>2, <1>3, SumOfNone DEF SamplesUpTo

LEMMA SamplesKept ==
  ASSUME LoopInv, DrainInv, SamplesInv, [BenchmarksNext]_benchmarkVars
  PROVE  SamplesInv'
<1>0. /\ config \in Configs /\ config' = config
      /\ event_index \in Nat /\ batch \in [count : Nat, done : Nat]
      /\ iterations \in Nat \ {0} /\ event_index + batch.count <= iterations
      /\ batch # NoBatch => batch.count # 0
      /\ pc = "drain" => batch # NoBatch
      /\ Unbatched => batch = NoBatch
      /\ NoBatch.done = 0 /\ NoBatch.count = 0
  <2>1. LoopMoves
    BY StepMoves
  <2>2. config' = config
    BY <2>1 DEF LoopMoves, LoopStays, LoopBegins, LoopAdvances, LoopFinishes
  <2> QED BY <2>2, EmptyBatch, IterationsNumber DEF LoopInv, DrainInv, NoBatch
<1>a. ASSUME UNCHANGED <<stage, event_index, samples>>,
             \/ batch' = NoBatch
             \/ batch'.count = NextCount
             \/ batch'.count = batch.count /\ batch # NoBatch
      PROVE  SamplesInv'
  <2>1. NextCount' = NextCount /\ Timed' = Timed
    BY <1>0, <1>a DEF NextCount, iterations, Timed
  <2> QED BY <1>0, <1>a, <2>1 DEF SamplesInv, NoBatch
<1>b. ASSUME UNCHANGED stage, batch' = NoBatch, event_index < iterations,
             event_index' = event_index + NextCount,
             samples' = IF Timed THEN Append(samples, NextCount) ELSE samples
      PROVE  SamplesInv'
  <2>1. Timed' = Timed
    BY <1>b DEF Timed
  <2>2. CASE Timed
    <3>1. iterations = config.measured_iterations
      BY <2>2 DEF Timed, iterations
    <3>2. NextCount =
            IF config.batch_size < config.measured_iterations - event_index
            THEN config.batch_size
            ELSE config.measured_iterations - event_index
      BY <3>1 DEF NextCount
    <3>3. SamplesUpTo(config, samples, event_index)
      BY <2>2 DEF SamplesInv
    <3>4. SamplesUpTo(config, Append(samples, NextCount),
                      event_index + NextCount)
      <4> HIDE DEF NextCount
      <4> QED BY <1>0, <1>b, <3>1, <3>2, <3>3, OneMoreSample
    <3> QED BY <1>0, <1>b, <2>1, <2>2, <3>4 DEF SamplesInv
  <2>3. CASE ~Timed
    BY <1>0, <1>b, <2>1, <2>3 DEF SamplesInv
  <2> QED BY <2>2, <2>3
<1>c. ASSUME UNCHANGED stage, batch # NoBatch, EndBatch
      PROVE  SamplesInv'
  <2>1. batch.count = NextCount
    BY <1>c DEF SamplesInv
  <2>2. event_index < iterations
    BY <1>0, <1>c
  <2> QED BY <1>b, <1>c, <2>1, <2>2 DEF EndBatch
<1>d. ASSUME NEW valid, NEW reserved, FinishLoop(valid, reserved)
      PROVE  SamplesInv'
  <2>1. /\ batch' = NoBatch /\ event_index' = 0 /\ samples' = <<>>
        /\ SamplesUpTo(config, <<>>, 0)
    BY <1>0, <1>d, NoSamples DEF FinishLoop
  <2> QED BY <1>0, <2>1 DEF SamplesInv
<1>1. CASE ParseArgs
  <2>1. ~Timed /\ ~Timed' /\ batch = NoBatch
    BY <1>0, <1>1 DEF ParseArgs, Timed, Unbatched
  <2> QED BY <1>1, <2>1 DEF ParseArgs, SamplesInv
<1>2. CASE FinishReport \/ PrepareInputs \/ UNCHANGED benchmarkVars
  <2>1. UNCHANGED <<stage, event_index, samples, batch>>
    BY <1>2 DEF FinishReport, PrepareInputs, benchmarkVars, benchVars,
                loopVars
  <2> QED BY <1>a, <2>1
<1>3. CASE StartBatch
  BY <1>a, <1>3 DEF StartBatch, loopVars
<1>4. CASE NextEvent
  <2>1. batch'.count = batch.count /\ batch # NoBatch
    BY <1>0, <1>4 DEF NextEvent
  <2> QED BY <1>a, <1>4, <2>1 DEF NextEvent, loopVars
<1>5. CASE BatchDrain
  <2>1. UNCHANGED <<stage, event_index, samples, batch>>
    BY <1>5 DEF BatchDrain, benchVars
  <2> QED BY <1>a, <2>1
<1>6. CASE BatchDrainStep
  <2>1. CASE pc' = "drain"
    <3>1. UNCHANGED <<stage, event_index, samples, batch>>
      BY <1>6, <2>1 DEF BatchDrainStep, loopVars
    <3> QED BY <1>a, <3>1
  <2>2. CASE pc' # "drain"
    BY <1>0, <1>6, <1>c, <2>2 DEF BatchDrainStep, loopVars
  <2> QED BY <2>1, <2>2
<1>7. CASE BaselineBatch /\ config.program = "bench_end_to_end"
  <2>1. batch = NoBatch /\ Timed
    BY <1>0, <1>7 DEF BaselineBatch, Unbatched, Timed
  <2> QED BY <1>b, <1>7, <2>1 DEF BaselineBatch, loopVars
<1>8. CASE ParseUntimed /\ config.program = "bench_parser"
  <2>1. batch = NoBatch /\ ~Timed
    BY <1>0, <1>8 DEF ParseUntimed, Unbatched, Timed
  <2>2. ~Timed' /\ UNCHANGED <<batch, samples>>
    BY <1>8, <2>1 DEF ParseUntimed, Timed, loopVars
  <2> QED BY <2>1, <2>2 DEF SamplesInv
<1>9. CASE EndParserBatch
  BY <1>9, <1>c DEF EndParserBatch, loopVars
<1>10. EndToEndNext => SamplesInv'
  BY <1>3, <1>4, <1>5, <1>6, <1>7, <1>d
  DEF EndToEndNext, StartStageBatch, ProcessEvent, FinishStage
<1>11. PathNext => SamplesInv'
  BY <1>2, <1>3, <1>4, <1>5, <1>6, <1>d
  DEF PathNext, StartPathBatch, TextEvent, PreparedEvent, FinishSystem,
      FinishWarmup
<1>12. ParserNext => SamplesInv'
  BY <1>3, <1>4, <1>8, <1>9, <1>d
  DEF ParserNext, StartParserBatch, Operation, FinishParserStage
<1> QED BY <1>1, <1>2, <1>10, <1>11, <1>12 DEF BenchmarksNext

LEMMA SamplesHold == BenchmarksSpec => []SamplesInv
<1>1. BenchmarksInit => SamplesInv
  BY DEF BenchmarksInit, SystemInit, SamplesInv, Timed
<1>2. LoopInv /\ DrainInv /\ SamplesInv /\ [BenchmarksNext]_benchmarkVars
        => SamplesInv'
  BY SamplesKept
<1> QED BY <1>1, <1>2, LoopsHold, PTL DEF BenchmarksSpec

\* At the end of a measurement it has them all.
LEMMA AllMeasured ==
  ASSUME LoopInv, SamplesInv, Timed, batch = NoBatch,
         event_index >= iterations
  PROVE  /\ config \in Configs
         /\ SamplesUpTo(config, samples, config.measured_iterations)
<1>1. /\ iterations = config.measured_iterations /\ iterations \in Nat
      /\ event_index \in Nat /\ config \in Configs /\ batch.count = 0
      /\ event_index + batch.count <= iterations
  BY IterationsNumber DEF LoopInv, Timed, iterations, NoBatch
<1>2. event_index = config.measured_iterations
  BY <1>1
<1> QED BY <1>1, <1>2 DEF SamplesInv

LEMMA MeasurementHasAll ==
  ASSUME LoopInv, SamplesInv, Timed, batch = NoBatch,
         event_index >= iterations
  PROVE  samples = AllSamples(config)
  BY AllMeasured, AllSamplesIs

\* There are as many as BatchCount says, if its sum does not wrap.
LEMMA SamplesAreCounted ==
  ASSUME NEW c \in Configs, NEW s,
         SamplesUpTo(c, s, c.measured_iterations),
         c.measured_iterations + c.batch_size <= 2^Width
  PROVE  Len(s) = BatchCount(c.measured_iterations, c.batch_size)
<1> DEFINE B == c.batch_size
           N == c.measured_iterations
           q == Len(s)
<1>1. /\ B \in Nat \ {0} /\ N \in Nat \ {0} /\ q \in Nat
      /\ 2^Width \in Nat /\ N + B <= 2^Width
  BY ConfigNumbers, LenProperties, BenchmarkAssumption
  DEF SamplesUpTo, IsSequence
<1>2. /\ N = IF q * B <= N THEN q * B ELSE N
      /\ q # 0 => (q - 1) * B < N
  BY DEF SamplesUpTo
<1>3. q * B \in Nat /\ (q - 1) * B = q * B - B
  BY <1>1
<1> HIDE DEF B, N, q
<1>4. PICK m \in Nat : m = q * B
  BY <1>3
<1>5. N <= m /\ q # 0 /\ m - B < N
  BY <1>1, <1>2, <1>3, <1>4
<1>6. (N + B - 1) % 2^Width = N + B - 1
  BY <1>1
<1>7. PICK r \in 0..(B - 1) : N + B - 1 = m + r
  <2>1. N + B - 1 - m \in 0..(B - 1) /\ N + B - 1 = m + (N + B - 1 - m)
    BY <1>1, <1>5
  <2> QED BY <2>1
<1>8. (N + B - 1) \div B = q
  BY <1>1, <1>4, <1>7
<1> QED BY <1>6, <1>8 DEF BatchCount, B, N, q

\* Every event of a measurement is in one of its timing samples, and there
\* are as many samples as the program reports, for every batch size and
\* number of events for which the sum in BatchCount does not wrap.
THEOREM SamplesStayAllBatches == BenchmarksSpec => []SamplesAreAllBatches
<1>1. LoopInv /\ SamplesInv => SamplesAreAllBatches
  <2> SUFFICES ASSUME LoopInv, SamplesInv, Timed, batch = NoBatch,
                      event_index >= iterations
               PROVE  /\ Sum(samples) = config.measured_iterations
                      /\ config.measured_iterations + config.batch_size
                            <= 2^Width
                           => Len(samples) = timed_batches
    BY DEF SamplesAreAllBatches
  <2>1. /\ config \in Configs
        /\ SamplesUpTo(config, samples, config.measured_iterations)
    BY AllMeasured
  <2>2. Sum(samples) = config.measured_iterations
    BY <2>1 DEF SamplesUpTo
  <2> QED BY <2>1, <2>2, SamplesAreCounted DEF timed_batches
<1> QED BY <1>1, LoopsHold, SamplesHold, PTL

----------------------------------------------------------------------------
(* Where the programs are in their trials. *)

InTrial == stage \notin {"args", "stabilization", "report"}

\* What is being measured, or warmed up for.
Measuring == IF config.program = "bench_path_comparison" THEN mode
             ELSE IF stage = "warmup" THEN FirstMeasured(trial_index)
             ELSE stage

\* A trial is under way and has made its first measurement, or not; all are
\* made in the end.  trial_index does not wrap, since memory was reserved for
\* the trials.
PositionInv ==
  /\ mode \in PathMode
  /\ stage \in {"args", "stabilization"} =>
       trial_index = 0 /\ Len(trials) = 0
  /\ InTrial =>
       /\ trial_index \in 1..config.trials
       /\ \/ /\ Measuring = FirstMeasured(trial_index)
             /\ Len(trials) = 2 * trial_index - 2
          \/ /\ Measuring = LastMeasured(trial_index)
             /\ Len(trials) = 2 * trial_index - 1
       /\ Running => config.trials <= MaxElements
  /\ stage = "report" => Len(trials) = 2 * config.trials

\* The two measurements of a program.
LEMMA MeasurementNames ==
  ASSUME NEW t
  PROVE  /\ config.program = "bench_parser" =>
              \/ /\ FirstMeasured(t) = "baseline" /\ LastMeasured(t) = "parser"
              \/ /\ FirstMeasured(t) = "parser" /\ LastMeasured(t) = "baseline"
         /\ config.program = "bench_end_to_end" =>
              \/ /\ FirstMeasured(t) = "baseline" /\ LastMeasured(t) = "path"
              \/ /\ FirstMeasured(t) = "path" /\ LastMeasured(t) = "baseline"
         /\ config.program = "bench_path_comparison" =>
              \/ /\ FirstMeasured(t) = "kText" /\ LastMeasured(t) = "kPrepared"
              \/ /\ FirstMeasured(t) = "kPrepared" /\ LastMeasured(t) = "kText"
BY DEF FirstMeasured, LastMeasured, Measurements

\* Every step needs the program to be running.
LEMMA OnlyRunning == BenchmarksNext => Running
BY DEF BenchmarksNext, ParseArgs, FinishReport, EndToEndNext, PathNext,
       ParserNext, StartStageBatch, StartBatch, BaselineBatch, ProcessEvent,
       NextEvent, BatchDrain, BatchDrainStep, FinishStage, FinishLoop,
       PrepareInputs, StartPathBatch, TextEvent, PreparedEvent, FinishSystem,
       FinishWarmup, ParseUntimed, StartParserBatch, Operation,
       EndParserBatch, FinishParserStage

\* The steps that do not end a stage.
LEMMA PositionStays ==
  ASSUME [BenchmarksNext]_benchmarkVars
  PROVE  \/ UNCHANGED <<stage, trial_index, mode, trials>>
         \/ ParseArgs /\ UNCHANGED pathVars
         \/ FinishStage /\ UNCHANGED pathVars
              /\ config.program = "bench_end_to_end"
         \/ FinishSystem /\ config.program = "bench_path_comparison"
         \/ FinishWarmup /\ config.program = "bench_path_comparison"
         \/ FinishParserStage /\ UNCHANGED pathVars
              /\ config.program = "bench_parser"
BY DEF BenchmarksNext, FinishReport, EndToEndNext, PathNext,
       ParserNext, StartStageBatch, StartBatch, BaselineBatch, ProcessEvent,
       NextEvent, BatchDrain, BatchDrainStep, benchVars, benchmarkVars,
       PrepareInputs, StartPathBatch, TextEvent, PreparedEvent, pathVars,
       ParseUntimed, StartParserBatch, Operation, EndParserBatch, loopVars

\* A trial that follows.
LEMMA NextTrialIs ==
  ASSUME config \in Configs, NextTrial, config.trials <= MaxElements,
         trial_index \in 0..config.trials
  PROVE  /\ trial_index' = trial_index + 1
         /\ stage' = IF trial_index < config.trials THEN "warmup"
                                                    ELSE "report"
<1>1. /\ 2^Width \in Nat /\ MaxElements \in Nat
      /\ MaxElements <= 2^Width - 2 /\ config.trials \in Nat
  BY BenchmarkAssumption, ConfigNumbers
<1>2. trial_index + 1 < 2^Width /\ trial_index + 1 \in Nat
  BY <1>1
<1>3. (trial_index + 1) % 2^Width = trial_index + 1
  BY <1>1, <1>2
<1>4. trial_index' = trial_index + 1
  BY <1>3 DEF NextTrial
<1> QED BY <1>1, <1>4 DEF NextTrial

LEMMA PositionKept ==
  ASSUME LoopInv, DrainInv, IsSequence(trials), PositionInv,
         [BenchmarksNext]_benchmarkVars
  PROVE  PositionInv'
<1>0. /\ config \in Configs /\ config' = config
      /\ config.program \in Program /\ stage \in StagesOf[config.program]
      /\ config.trials \in Nat \ {0} /\ MaxElements \in Nat
      /\ Len(trials) \in Nat
      /\ Running' => Running
  <2>1. config' = config
    BY StepMoves DEF LoopMoves, LoopStays, LoopBegins, LoopAdvances,
                     LoopFinishes
  <2>2. Running' => Running
    BY OnlyRunning DEF Running, benchmarkVars, benchVars
  <2>3. Len(trials) \in Nat
    BY LenProperties DEF IsSequence
  <2> QED BY <2>1, <2>2, <2>3, ConfigNumbers, BenchmarkAssumption DEF LoopInv
<1>a. \A t : FirstMeasured(t)' = FirstMeasured(t)
             /\ LastMeasured(t)' = LastMeasured(t)
  BY <1>0 DEF FirstMeasured, LastMeasured
<1>b. ASSUME NEW name, NEW work, Measured(name, work)
      PROVE  Len(trials') = Len(trials) + IF Timed THEN 1 ELSE 0
  <2>1. CASE Timed
    <3>1. ~(trials' = trials /\ ~Timed)
      BY <2>1
    <3> QED BY <1>b, <2>1, <3>1, MeasuredAdds
  <2>2. CASE ~Timed
    <3>1. trials' = trials
      BY <1>b, <2>2 DEF Measured
    <3> QED BY <1>0, <2>2, <3>1
  <2> QED BY <2>1, <2>2
<1>c. ASSUME NEW valid, NEW reserved, FinishLoop(valid, reserved),
             reserved \in Nat, Running'
      PROVE  reserved <= MaxElements
  BY <1>0, <1>c DEF FinishLoop, Running
<1>1. CASE UNCHANGED <<stage, trial_index, mode, trials>>
  <2>1. Measuring' = Measuring /\ InTrial' = InTrial
    BY <1>0, <1>1 DEF Measuring, InTrial, FirstMeasured
  <2> QED BY <1>0, <1>1, <1>a, <2>1 DEF PositionInv
<1>2. CASE ParseArgs /\ UNCHANGED pathVars
  <2>1. /\ stage = "args" /\ stage' \in {"args", "stabilization"}
        /\ UNCHANGED <<trial_index, trials, mode>>
    BY <1>2 DEF ParseArgs, pathVars
  <2>2. ~InTrial'
    BY <2>1 DEF InTrial
  <2> QED BY <2>1, <2>2 DEF PositionInv
<1>3. ASSUME NEW valid, NEW work, FinishLoop(valid, Reserved), NextStage,
             Measured(stage, work), UNCHANGED mode,
             config.program \in {"bench_parser", "bench_end_to_end"}
      PROVE  PositionInv'
  <2>0. /\ stage \notin {"args", "report"}
        /\ Timed <=> stage \in {"baseline", "path", "parser"}
        /\ Len(trials') = Len(trials) + IF Timed THEN 1 ELSE 0
        /\ mode' \in PathMode
    BY <1>0, <1>3, <1>b
    DEF FinishLoop, InLoop, Timed, StagesOf, PositionInv
  <2>n. /\ FirstMeasured(trial_index) # LastMeasured(trial_index)
        /\ {FirstMeasured(trial_index), LastMeasured(trial_index)}
             \subseteq {"baseline", "path", "parser"}
    BY <1>3, MeasurementNames
  <2>i. InTrial <=> stage # "stabilization"
    BY <2>0 DEF InTrial
  <2>1. CASE /\ stage = "warmup" /\ stage' = FirstMeasured(trial_index)
             /\ UNCHANGED trial_index
    <3>1. /\ Measuring = FirstMeasured(trial_index)
          /\ Measuring' = FirstMeasured(trial_index)
          /\ InTrial' /\ stage' # "report"
      BY <1>0, <1>3, <1>a, <2>1, <2>n DEF Measuring, InTrial
    <3>2. Len(trials') = Len(trials)
      BY <1>0, <2>0, <2>1
    <3> QED BY <1>0, <1>a, <2>0, <2>1, <2>i, <2>n, <3>1, <3>2
            DEF PositionInv, InTrial
  <2>2. CASE /\ stage = FirstMeasured(trial_index)
             /\ stage' = LastMeasured(trial_index)
             /\ UNCHANGED trial_index
    <3>1. /\ Measuring = FirstMeasured(trial_index)
          /\ Measuring' = LastMeasured(trial_index)
          /\ InTrial' /\ stage' # "report" /\ Timed /\ InTrial
      BY <1>0, <1>3, <1>a, <2>0, <2>2, <2>n, <2>i DEF Measuring, InTrial
    <3>2. /\ Len(trials) = 2 * trial_index - 2
          /\ trial_index \in 1..config.trials
          /\ Running => config.trials <= MaxElements
      BY <2>n, <3>1 DEF PositionInv
    <3>3. Len(trials') = 2 * trial_index - 1
      BY <1>0, <2>0, <3>1, <3>2
    <3> QED BY <1>0, <1>a, <2>0, <2>2, <3>1, <3>2, <3>3
            DEF PositionInv, InTrial
  <2>t. ASSUME NextTrial, config.trials <= MaxElements,
               trial_index \in 0..config.trials,
               Len(trials') = 2 * trial_index
        PROVE  PositionInv'
    <3>1. /\ trial_index' = trial_index + 1
          /\ stage' = IF trial_index < config.trials THEN "warmup"
                                                     ELSE "report"
      BY <1>0, <2>t, NextTrialIs
    <3>2. CASE trial_index < config.trials
      <4>1. trial_index' \in 1..config.trials
        BY <1>0, <2>t, <3>1, <3>2
      <4>2. Measuring' = FirstMeasured(trial_index')
        BY <1>0, <1>3, <1>a, <3>1, <3>2 DEF Measuring
      <4>3. Len(trials') = 2 * trial_index' - 2
        BY <2>t, <3>1
      <4> QED BY <1>0, <1>a, <2>0, <2>t, <3>1, <3>2, <4>1, <4>2, <4>3
              DEF PositionInv, InTrial
    <3>3. CASE ~(trial_index < config.trials)
      <4>1. trial_index = config.trials
        BY <1>0, <2>t, <3>3
      <4> QED BY <1>0, <2>0, <2>t, <3>1, <3>3, <4>1 DEF PositionInv, InTrial
    <3> QED BY <3>2, <3>3
  <2>3. CASE stage = "stabilization" /\ NextTrial
    <3>1. trial_index = 0 /\ Len(trials') = 0 /\ Reserved = config.trials
      BY <1>0, <2>0, <2>3 DEF PositionInv, Reserved
    <3>2. CASE Running'
      <4>1. config.trials <= MaxElements
        BY <1>0, <1>3, <1>c, <3>1, <3>2
      <4> QED BY <1>0, <2>3, <2>t, <3>1, <4>1
    <3>3. CASE ~Running'
      <4>1. /\ trial_index' = 1 /\ stage' = "warmup"
        <5>1. 2^Width \in Nat /\ 2^Width >= 2
          BY BenchmarkAssumption
        <5>2. (0 + 1) % 2^Width = 1
          BY <5>1
        <5> QED BY <1>0, <2>3, <3>1, <5>2 DEF NextTrial
      <4>2. Measuring' = FirstMeasured(trial_index')
        BY <1>0, <1>3, <1>a, <4>1 DEF Measuring
      <4> QED BY <1>0, <1>a, <2>0, <3>1, <3>3, <4>1, <4>2
              DEF PositionInv, InTrial
    <3> QED BY <3>2, <3>3
  <2>4. CASE stage = LastMeasured(trial_index) /\ NextTrial
    <3>1. InTrial /\ Timed /\ Measuring = LastMeasured(trial_index)
      BY <1>0, <1>3, <2>0, <2>4, <2>i, <2>n DEF Measuring
    <3>2. /\ Len(trials) = 2 * trial_index - 1
          /\ trial_index \in 1..config.trials
          /\ Running => config.trials <= MaxElements
      BY <2>n, <3>1 DEF PositionInv
    <3>3. /\ Len(trials') = 2 * trial_index
          /\ config.trials <= MaxElements
          /\ trial_index \in 0..config.trials
      BY <1>0, <1>3, <2>0, <3>1, <3>2 DEF FinishLoop
    <3> QED BY <2>4, <2>t, <3>3
  <2> QED BY <1>3, <2>1, <2>2, <2>3, <2>4 DEF NextStage
<1>4. CASE FinishSystem /\ config.program = "bench_path_comparison"
  <2>0. /\ stage \in {"stabilization", "measured"}
        /\ Timed <=> stage = "measured"
        /\ Len(trials') = Len(trials) + IF Timed THEN 1 ELSE 0
        /\ mode \in PathMode
        /\ Running
        /\ InTrial <=> stage = "measured"
    BY <1>0, <1>4, <1>b
    DEF FinishSystem, FinishLoop, Timed, PositionInv, InTrial
  <2>n. \A t : /\ FirstMeasured(t) \in PathMode
               /\ LastMeasured(t) \in PathMode
               /\ FirstMeasured(t) # LastMeasured(t)
    BY <1>4, MeasurementNames DEF PathMode
  <2>m. Measuring = mode /\ Measuring' = mode'
    BY <1>0, <1>4 DEF Measuring
  <2>t. ASSUME NextPathTrial, trial_index \in 0..config.trials,
               Len(trials') = 2 * trial_index,
               trial_index' = trial_index + 1,
               stage' = (IF trial_index < config.trials THEN "warmup"
                                                        ELSE "report"),
               Running' => config.trials <= MaxElements
        PROVE  PositionInv'
    <3>1. mode' = FirstMeasured(trial_index') /\ mode' \in PathMode
      BY <2>n, <2>t DEF NextPathTrial
    <3>2. CASE trial_index < config.trials
      <4>1. trial_index' \in 1..config.trials
        BY <1>0, <2>t, <3>2
      <4>2. Len(trials') = 2 * trial_index' - 2
        BY <2>t
      <4> QED BY <1>0, <1>a, <2>m, <2>t, <3>1, <3>2, <4>1, <4>2
              DEF PositionInv, InTrial
    <3>3. CASE ~(trial_index < config.trials)
      <4>1. trial_index = config.trials
        BY <1>0, <2>t, <3>3
      <4> QED BY <1>0, <2>t, <3>1, <3>3, <4>1 DEF PositionInv, InTrial
    <3> QED BY <3>2, <3>3
  <2>1. CASE stage = "stabilization" /\ OtherModeNext
    <3>1. /\ stage' = "stabilization" /\ mode' \in PathMode
          /\ trial_index' = 0 /\ Len(trials') = 0
      BY <1>0, <2>0, <2>1 DEF OtherModeNext, OtherMode, PathMode, PositionInv
    <3> QED BY <3>1 DEF PositionInv, InTrial
  <2>2. CASE stage = "stabilization" /\ NextPathTrial
    <3>1. /\ trial_index = 0 /\ Len(trials') = 0 /\ NextTrial
          /\ mode = "kPrepared"
      BY <1>0, <2>0, <2>2 DEF PositionInv, NextPathTrial, BothModesDone
    <3>2. /\ PathReserved = config.trials
          /\ FinishLoop(StageIsValid, PathReserved)
      BY <1>4, <2>2, <3>1 DEF PathReserved, Reserved, FinishSystem
    <3>3. Running' => config.trials <= MaxElements
      BY <1>0, <1>c, <3>2
    <3>4. trial_index' = 1 /\ stage' = "warmup"
      <4>1. 2^Width \in Nat /\ 2^Width >= 2
        BY BenchmarkAssumption
      <4>2. (0 + 1) % 2^Width = 1
        BY <4>1
      <4> QED BY <1>0, <3>1, <4>2 DEF NextTrial
    <3> QED BY <1>0, <2>2, <2>t, <3>1, <3>3, <3>4
  <2>3. CASE stage = "measured" /\ OtherModeNext
    <3>1. /\ mode # LastMeasured(trial_index) /\ stage' = "warmup"
          /\ trial_index' = trial_index /\ mode' = OtherMode
      BY <2>3 DEF OtherModeNext, BothModesDone
    <3>2. /\ trial_index \in 1..config.trials
          /\ Len(trials) = 2 * trial_index - 2
          /\ config.trials <= MaxElements
      BY <2>0, <2>3, <2>m, <3>1 DEF PositionInv
    <3>3. mode' = LastMeasured(trial_index) /\ mode' \in PathMode
      BY <2>0, <2>n, <3>1 DEF OtherMode, PathMode
    <3>4. Len(trials') = 2 * trial_index - 1
      BY <1>0, <2>0, <2>3, <3>2
    <3> QED BY <1>0, <1>a, <2>m, <3>1, <3>2, <3>3, <3>4
            DEF PositionInv, InTrial
  <2>4. CASE stage = "measured" /\ NextPathTrial
    <3>1. mode = LastMeasured(trial_index) /\ NextTrial
      BY <2>4 DEF NextPathTrial, BothModesDone
    <3>2. /\ trial_index \in 1..config.trials
          /\ Len(trials) = 2 * trial_index - 1
          /\ config.trials <= MaxElements
      BY <2>0, <2>4, <2>m, <2>n, <3>1 DEF PositionInv
    <3>3. /\ trial_index \in 0..config.trials
          /\ Len(trials') = 2 * trial_index
      BY <1>0, <2>0, <2>4, <3>2
    <3>4. /\ trial_index' = trial_index + 1
          /\ stage' = IF trial_index < config.trials THEN "warmup"
                                                     ELSE "report"
      BY <1>0, <3>1, <3>2, <3>3, NextTrialIs
    <3> QED BY <2>4, <2>t, <3>2, <3>3, <3>4
  <2> QED BY <1>4, <2>0, <2>1, <2>2, <2>3, <2>4 DEF FinishSystem
<1>5. CASE FinishWarmup /\ config.program = "bench_path_comparison"
  <2>1. /\ stage = "warmup" /\ stage' = "measured"
        /\ UNCHANGED <<trial_index, trials, mode>>
    BY <1>5 DEF FinishWarmup
  <2>2. Measuring = mode /\ Measuring' = mode' /\ InTrial /\ InTrial'
    BY <1>0, <1>5, <2>1 DEF Measuring, InTrial
  <2> QED BY <1>0, <1>a, <2>1, <2>2 DEF PositionInv
<1>6. CASE FinishStage /\ UNCHANGED pathVars
           /\ config.program = "bench_end_to_end"
  BY <1>3, <1>6 DEF FinishStage, pathVars
<1>7. CASE FinishParserStage /\ UNCHANGED pathVars
           /\ config.program = "bench_parser"
  BY <1>3, <1>7 DEF FinishParserStage, pathVars
<1> QED BY <1>1, <1>2, <1>4, <1>5, <1>6, <1>7, PositionStays

----------------------------------------------------------------------------
(* The results. *)

\* The trial that the j-th result belongs to, and what was measured.
TrialOf(j) == (j + 1) \div 2

NameOf(c, j) ==
  Measurements[c.program][IF j % 2 = TrialOf(j) % 2 THEN 1 ELSE 2]

\* The work that a measurement does, in whichever trial.
WorkOf(c, name) ==
  LET events == c.measured_iterations
      orders == Generated(c, events)
      warm   == Generated(c, c.warmup_iterations)
  IN  IF c.program = "bench_parser" THEN MixedInByTrial(c, name)
      ELSE IF c.program = "bench_end_to_end"
      THEN IF name = "baseline" THEN CountersOf(0, 0)
                                ELSE CountersOf(events, orders)
      ELSE [counters |-> CountersOf(events, orders),
            book |-> [id \in 1..(orders + warm) |-> OrderNumber(c, warm, id)]]

TrialNumber(c, j) == [trial |-> TrialOf(j), name |-> NameOf(c, j),
                      work |-> WorkOf(c, NameOf(c, j)),
                      samples |-> AllSamples(c)]

\* The results are a function of the configuration.
TrialsInv == \A j \in 1..Len(trials) : trials[j] = TrialNumber(config, j)

\* The next result is that of the measurement under way.
LEMMA NextResultIs ==
  ASSUME PositionInv, InTrial, config \in Configs
  PROVE  /\ TrialOf(Len(trials) + 1) = trial_index
         /\ NameOf(config, Len(trials) + 1) = Measuring
<1>0. trial_index \in Nat \ {0}
  BY ConfigNumbers DEF PositionInv
<1>1. CASE /\ Measuring = FirstMeasured(trial_index)
           /\ Len(trials) = 2 * trial_index - 2
  <2>1. Len(trials) + 1 = 2 * trial_index - 1
    BY <1>0, <1>1
  <2>2. TrialOf(Len(trials) + 1) = trial_index
    BY <1>0, <2>1 DEF TrialOf
  <2>3. (Len(trials) + 1) % 2 = 1 /\ trial_index % 2 \in {0, 1}
    BY <1>0, <2>1
  <2> QED BY <1>1, <2>2, <2>3 DEF NameOf, FirstMeasured
<1>2. CASE /\ Measuring = LastMeasured(trial_index)
           /\ Len(trials) = 2 * trial_index - 1
  <2>1. Len(trials) + 1 = 2 * trial_index
    BY <1>0, <1>2
  <2>2. TrialOf(Len(trials) + 1) = trial_index
    BY <1>0, <2>1 DEF TrialOf
  <2>3. (Len(trials) + 1) % 2 = 0 /\ trial_index % 2 \in {0, 1}
    BY <1>0, <2>1
  <2> QED BY <1>2, <2>2, <2>3 DEF NameOf, LastMeasured
<1> QED BY <1>1, <1>2 DEF PositionInv

\* So it is added as expected.
LEMMA ResultAdded ==
  ASSUME IsSequence(trials), TrialsInv, PositionInv, config \in Configs,
         UNCHANGED config, NEW name, NEW work, Measured(name, work),
         Timed => /\ InTrial /\ name = Measuring
                  /\ work = WorkOf(config, name)
                  /\ samples = AllSamples(config)
  PROVE  TrialsInv'
<1>1. CASE ~Timed
  BY <1>1 DEF Measured, TrialsInv
<1>2. CASE Timed
  <2>1. ~(trials' = trials /\ ~Timed)
    BY <1>2
  <2>2. /\ Len(trials) \in Nat /\ Len(trials') = Len(trials) + 1
        /\ trials'[Len(trials) + 1] =
             [trial |-> trial_index, name |-> name, work |-> work,
              samples |-> samples]
        /\ \A i \in 1..Len(trials) : trials'[i] = trials[i]
    BY <2>1, MeasuredAdds
  <2>3. trials'[Len(trials) + 1] = TrialNumber(config, Len(trials) + 1)
    BY <1>2, <2>2, NextResultIs DEF TrialNumber
  <2>4. \A j \in 1..Len(trials') : trials'[j] = TrialNumber(config, j)
    <3> SUFFICES ASSUME NEW j \in 1..Len(trials')
                 PROVE  trials'[j] = TrialNumber(config, j)
      OBVIOUS
    <3>1. CASE j = Len(trials) + 1
      BY <2>3, <3>1
    <3>2. CASE j # Len(trials) + 1
      <4>1. j \in 1..Len(trials)
        BY <2>2, <3>2
      <4> QED BY <2>2, <4>1 DEF TrialsInv
    <3> QED BY <3>1, <3>2
  <2> QED BY <2>4 DEF TrialsInv
<1> QED BY <1>1, <1>2

\* The book of a system that has nothing left to send.
LEMMA BookIs ==
  ASSUME LoopInv, SystemInv, config.program # "bench_parser",
         queue = <<>>
  PROVE  exchange.active = [id \in 1..SystemOrders |->
                              OrderNumber(config, Warm, id)]
<1>1. Len(queue) = 0 /\ SystemOrders \in Nat
  BY SystemNumbers
<1>2. SystemOrders - Len(queue) = SystemOrders
  BY <1>1
<1>3. SystemAt(SystemEvents, SystemOrders, SystemOrders, Warm)
  BY <1>2 DEF SystemInv
<1> QED BY <1>3 DEF SystemAt

LEMMA TrialsKept ==
  ASSUME MeasuringInv, BatchingInv, SamplesInv, PositionInv, TrialsInv,
         [BenchmarksNext]_benchmarkVars
  PROVE  TrialsInv'
<1>0. /\ LoopInv /\ DrainInv /\ SystemInv /\ IsSequence(trials)
      /\ config \in Configs /\ config' = config
      /\ stage \in StagesOf[config.program]
  <2>1. config' = config
    BY StepMoves DEF LoopMoves, LoopStays, LoopBegins, LoopAdvances,
                     LoopFinishes, MeasuringInv
  <2> QED BY <2>1 DEF MeasuringInv, BatchingInv, LoopInv
<1>a. ASSUME NEW valid, NEW reserved, FinishLoop(valid, reserved), Timed
      PROVE  /\ samples = AllSamples(config) /\ InTrial
             /\ batch = NoBatch /\ event_index >= iterations
             /\ iterations = config.measured_iterations
             /\ config.program # "bench_path_comparison" =>
                  Measuring = stage
  BY <1>0, <1>a, MeasurementHasAll
  DEF FinishLoop, InTrial, Timed, iterations, Measuring
<1>1. CASE UNCHANGED trials
  BY <1>0, <1>1 DEF TrialsInv
<1>2. CASE FinishStage /\ config.program = "bench_end_to_end"
  <2>1. ASSUME Timed
        PROVE  /\ InTrial /\ stage = Measuring
               /\ CaptureCounters = WorkOf(config, stage)
               /\ samples = AllSamples(config)
    <3>1. /\ samples = AllSamples(config) /\ InTrial /\ Measuring = stage
          /\ batch = NoBatch /\ event_index >= iterations
          /\ iterations = config.measured_iterations
      BY <1>2, <1>a, <2>1 DEF FinishStage
    <3>2. /\ Processed = IF stage = "baseline" THEN 0 ELSE iterations
          /\ CaptureCounters = CountersOf(SystemEvents, SystemOrders)
      BY <1>0, <1>2, <3>1, StageCounts
    <3>3. stage # "measured"
      BY <1>0, <1>2 DEF StagesOf
    <3>4. /\ Processed \in Nat /\ Generated(config, Processed) \in Nat
          /\ Warm = 0
      BY <1>0, <3>3, SystemNumbers DEF Warm
    <3>5. /\ SystemEvents = Processed
          /\ SystemOrders = Generated(config, Processed)
      BY <3>3, <3>4 DEF SystemEvents, SystemOrders
    <3>6. CaptureCounters = WorkOf(config, stage)
      <4>1. CASE stage = "baseline"
        <5>1. Generated(config, 0) = 0
          BY GeneratedCounts
        <5> QED BY <1>2, <3>2, <3>5, <4>1, <5>1 DEF WorkOf
      <4>2. CASE stage # "baseline"
        BY <1>2, <3>1, <3>2, <3>5, <4>2 DEF WorkOf
      <4> QED BY <4>1, <4>2
    <3> QED BY <3>1, <3>6
  <2>2. Measured(stage, CaptureCounters)
    BY <1>2 DEF FinishStage
  <2> HIDE DEF CaptureCounters
  <2> QED BY <1>0, <2>1, <2>2, ResultAdded
<1>3. CASE FinishSystem /\ config.program = "bench_path_comparison"
  <2> DEFINE work == [counters |-> StageCounters, book |-> exchange.active]
  <2>1. ASSUME Timed
        PROVE  /\ InTrial /\ mode = Measuring
               /\ work = WorkOf(config, mode)
               /\ samples = AllSamples(config)
    <3>1. /\ samples = AllSamples(config) /\ InTrial /\ Measuring = mode
          /\ batch = NoBatch /\ event_index >= iterations
          /\ iterations = config.measured_iterations
      BY <1>3, <1>a, <2>1 DEF FinishSystem, Measuring
    <3>2. stage = "measured"
      BY <1>0, <1>3, <2>1 DEF StagesOf, Timed
    <3>3. StageCounters = CountersOf(iterations,
                                     Generated(config, iterations))
      BY <1>0, <1>3, <3>1, PathStageCounters
    <3>4. queue = <<>> /\ Processed = iterations
      BY <1>0, <1>3, <3>1, <3>2, StageCounts
    <3>5. exchange.active = [id \in 1..SystemOrders |->
                               OrderNumber(config, Warm, id)]
      BY <1>0, <1>3, <3>4, BookIs
    <3>6. /\ Warm = Generated(config, config.warmup_iterations)
          /\ SystemOrders = Generated(config, iterations) + Warm
      BY <3>2, <3>4 DEF Warm, SystemOrders
    <3>7. work = WorkOf(config, mode)
      BY <1>3, <3>1, <3>3, <3>5, <3>6 DEF WorkOf
    <3> QED BY <3>1, <3>7
  <2>2. Measured(mode, work)
    BY <1>3 DEF FinishSystem
  <2> HIDE DEF work
  <2> QED BY <1>0, <2>1, <2>2, ResultAdded
<1>4. CASE FinishParserStage /\ config.program = "bench_parser"
  <2>1. ASSUME Timed
        PROVE  /\ InTrial /\ stage = Measuring
               /\ checksum = WorkOf(config, stage)
               /\ samples = AllSamples(config)
    <3>1. /\ samples = AllSamples(config) /\ InTrial /\ Measuring = stage
          /\ batch = NoBatch /\ event_index >= iterations
          /\ iterations = config.measured_iterations
      BY <1>4, <1>a, <2>1 DEF FinishParserStage
    <3>2. OperationsDone = config.measured_iterations
      <4>1. /\ event_index \in Nat /\ iterations \in Nat
            /\ event_index + batch.count <= iterations
            /\ batch.count = 0 /\ batch.done = 0
        BY <1>0, <3>1, IterationsNumber DEF LoopInv, NoBatch
      <4> QED BY <3>1, <4>1 DEF OperationsDone
    <3>3. checksum = MixedInByTrial(config, stage)
      BY <1>4, <3>2 DEF BatchingInv, ChecksumInv, MixedInByTrial
    <3> QED BY <1>4, <3>1, <3>3 DEF WorkOf
  <2>2. Measured(stage, checksum)
    BY <1>4 DEF FinishParserStage
  <2> QED BY <1>0, <2>1, <2>2, ResultAdded
<1> QED BY <1>1, <1>2, <1>3, <1>4, TrialsChange

\* Half of the numbers from 1 to n are odd, and half of them are even.
LEMMA Halves ==
  ASSUME NEW n \in Nat
  PROVE  /\ Cardinality({t \in 1..n : t % 2 = 1}) = (n + 1) \div 2
         /\ Cardinality({t \in 1..n : t % 2 = 0}) = n \div 2
<1> DEFINE Odd  == {t \in 1..n : t % 2 = 1}
           Even == {t \in 1..n : t % 2 = 0}
           odd  == [i \in 1..((n + 1) \div 2) |-> 2 * i - 1]
           even == [i \in 1..(n \div 2) |-> 2 * i]
<1>1. (n + 1) \div 2 \in Nat /\ n \div 2 \in Nat
  OBVIOUS
<1>2. odd \in Bijection(1..((n + 1) \div 2), Odd)
  <2>1. odd \in [1..((n + 1) \div 2) -> Odd]
    <3> SUFFICES ASSUME NEW i \in 1..((n + 1) \div 2)
                 PROVE  2 * i - 1 \in 1..n /\ (2 * i - 1) % 2 = 1
      OBVIOUS
    <3> QED OBVIOUS
  <2>2. \A i, k \in 1..((n + 1) \div 2) : odd[i] = odd[k] => i = k
    OBVIOUS
  <2>3. \A t \in Odd : \E i \in 1..((n + 1) \div 2) : odd[i] = t
    <3> SUFFICES ASSUME NEW t \in 1..n, t % 2 = 1
                 PROVE  \E i \in 1..((n + 1) \div 2) : 2 * i - 1 = t
      OBVIOUS
    <3>1. /\ (t + 1) \div 2 \in 1..((n + 1) \div 2)
          /\ 2 * ((t + 1) \div 2) - 1 = t
      OBVIOUS
    <3> QED BY <3>1
  <2> HIDE DEF odd, Odd
  <2> QED BY <2>1, <2>2, <2>3
          DEF Bijection, Injection, Surjection, IsInjective
<1>3. even \in Bijection(1..(n \div 2), Even)
  <2>1. even \in [1..(n \div 2) -> Even]
    <3> SUFFICES ASSUME NEW i \in 1..(n \div 2)
                 PROVE  2 * i \in 1..n /\ (2 * i) % 2 = 0
      OBVIOUS
    <3> QED OBVIOUS
  <2>2. \A i, k \in 1..(n \div 2) : even[i] = even[k] => i = k
    OBVIOUS
  <2>3. \A t \in Even : \E i \in 1..(n \div 2) : even[i] = t
    <3> SUFFICES ASSUME NEW t \in 1..n, t % 2 = 0
                 PROVE  \E i \in 1..(n \div 2) : 2 * i = t
      OBVIOUS
    <3>1. t \div 2 \in 1..(n \div 2) /\ 2 * (t \div 2) = t
      OBVIOUS
    <3> QED BY <3>1
  <2> HIDE DEF even, Even
  <2> QED BY <2>1, <2>2, <2>3
          DEF Bijection, Injection, Surjection, IsInjective
<1> HIDE DEF odd, even, Odd, Even
<1>4. /\ ExistsBijection(1..((n + 1) \div 2), Odd)
      /\ ExistsBijection(1..(n \div 2), Even)
  BY <1>2, <1>3 DEF ExistsBijection
<1>5. /\ Cardinality(Odd) = (n + 1) \div 2
      /\ Cardinality(Even) = n \div 2
  BY <1>1, <1>4, FS_CountingElements
<1> QED BY <1>5 DEF Odd, Even

\* When all results are there, the measurements have taken turns.
LEMMA TheyAlternate ==
  ASSUME config \in Configs, TrialsInv, PositionInv, stage = "report"
  PROVE  MeasurementsAlternate
<1> DEFINE T == config.trials
           M == Measurements[config.program]
           first(name) == {t \in 1..T : trials[2 * t - 1].name = name}
<1>1. T \in Nat \ {0} /\ Len(trials) = 2 * T
  BY ConfigNumbers DEF PositionInv
<1>2. M[1] # M[2] /\ FirstMeasured(1) = M[1] /\ LastMeasured(1) = M[2]
  BY ConfigNumbers DEF Program, Measurements, FirstMeasured, LastMeasured
<1>3. ASSUME NEW t \in 1..T
      PROVE  /\ trials[2 * t - 1].trial = t /\ trials[2 * t].trial = t
             /\ trials[2 * t - 1].name = IF t % 2 = 1 THEN M[1] ELSE M[2]
             /\ trials[2 * t].name = IF t % 2 = 1 THEN M[2] ELSE M[1]
  <2>1. 2 * t - 1 \in 1..Len(trials) /\ 2 * t \in 1..Len(trials)
    BY <1>1
  <2>2. /\ trials[2 * t - 1] = TrialNumber(config, 2 * t - 1)
        /\ trials[2 * t] = TrialNumber(config, 2 * t)
    BY <2>1 DEF TrialsInv
  <2>3. TrialOf(2 * t - 1) = t /\ TrialOf(2 * t) = t
    BY <1>1 DEF TrialOf
  <2>4. (2 * t - 1) % 2 = 1 /\ (2 * t) % 2 = 0 /\ t % 2 \in {0, 1}
    BY <1>1
  <2>5. /\ NameOf(config, 2 * t - 1) = IF t % 2 = 1 THEN M[1] ELSE M[2]
        /\ NameOf(config, 2 * t) = IF t % 2 = 1 THEN M[2] ELSE M[1]
    BY <2>3, <2>4 DEF NameOf
  <2> HIDE DEF M
  <2> QED BY <2>2, <2>3, <2>5 DEF TrialNumber
<1> HIDE DEF M
<1>4. /\ first(M[1]) = {t \in 1..T : t % 2 = 1}
      /\ first(M[2]) = {t \in 1..T : t % 2 = 0}
  <2>1. \A t \in 1..T : t % 2 \in {0, 1}
    BY <1>1
  <2> HIDE DEF T
  <2> QED BY <1>2, <1>3, <2>1
<1>5. Cardinality(first(M[1])) - Cardinality(first(M[2])) \in 0..1
  <2>1. /\ Cardinality(first(M[1])) = (T + 1) \div 2
        /\ Cardinality(first(M[2])) = T \div 2
    BY <1>1, <1>4, Halves
  <2>2. (T + 1) \div 2 - T \div 2 \in 0..1
    BY <1>1
  <2> QED BY <2>1, <2>2
<1>6. \A t \in 1..T :
        /\ trials[2 * t - 1].trial = t /\ trials[2 * t].trial = t
        /\ trials[2 * t - 1].name # trials[2 * t].name
  BY <1>2, <1>3
<1>7. Cardinality(first(FirstMeasured(1)))
        - Cardinality(first(LastMeasured(1))) \in 0..1
  BY <1>2, <1>5
<1> QED BY <1>1, <1>6, <1>7, Zenon DEF MeasurementsAlternate

ProgramInv == /\ MeasuringInv /\ BatchingInv /\ SamplesInv
              /\ PositionInv /\ TrialsInv

\* The results of a program are a function of its configuration and of which
\* measurement they are of: whichever went first, a measurement does the same
\* work on a system as good as new and is timed in the same batches; the two
\* paths send the same orders and leave the same book.  Each trial has both,
\* and neither of them went first more than once more often.
THEOREM TrialsStayComparable == BenchmarksSpec => []TrialsAreComparable
<1>1. BenchmarksInit => PositionInv /\ TrialsInv
  <2> SUFFICES ASSUME BenchmarksInit PROVE PositionInv /\ TrialsInv
    OBVIOUS
  <2>1. /\ mode \in PathMode /\ stage = "args" /\ trial_index = 0
        /\ trials = <<>> /\ Len(trials) = 0 /\ ~InTrial
    BY DEF BenchmarksInit, SystemInit, PathInit, PathMode, InTrial
  <2> QED BY <2>1 DEF PositionInv, TrialsInv
<1>2. ProgramInv /\ [BenchmarksNext]_benchmarkVars
        => (PositionInv /\ TrialsInv)'
  BY PositionKept, TrialsKept DEF ProgramInv, MeasuringInv, BatchingInv
<1>3. ProgramInv => TrialsAreComparable
  <2> SUFFICES ASSUME ProgramInv PROVE TrialsAreComparable
    OBVIOUS
  <2>0. config \in Configs /\ TrialsInv /\ PositionInv
    BY DEF ProgramInv, MeasuringInv, LoopInv
  <2>1. ASSUME NEW i \in 1..Len(trials), NEW k \in 1..Len(trials)
        PROVE  /\ trials[i].samples = trials[k].samples
               /\ \/ trials[i].name = trials[k].name
                  \/ config.program = "bench_path_comparison"
                  => trials[i].work = trials[k].work
    <3>1. /\ trials[i] = TrialNumber(config, i)
          /\ trials[k] = TrialNumber(config, k)
      BY <2>0, <2>1 DEF TrialsInv
    <3>2. ASSUME config.program = "bench_path_comparison",
                 NEW a, NEW b
          PROVE  WorkOf(config, a) = WorkOf(config, b)
      BY <3>2 DEF WorkOf
    <3> QED BY <3>1, <3>2 DEF TrialNumber
  <2>2. stage = "report" => MeasurementsAlternate
    BY <2>0, TheyAlternate
  <2> QED BY <2>1, <2>2 DEF TrialsAreComparable
<1> QED BY <1>1, <1>2, <1>3, MeasuringHolds, BatchingHolds, SamplesHold, PTL
        DEF BenchmarksSpec, ProgramInv

============================================================================
