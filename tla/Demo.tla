-------------------------------- MODULE Demo --------------------------------
(***************************************************************************)
(* main.cpp: replay a feed file; each valid update goes to the strategy    *)
(* and the order it may generate into the pipeline; drain the pipeline     *)
(* once the file was read to its end; on a replay error, return 1.         *)
(***************************************************************************)
EXTENDS OrderPipeline, FeedReplay, SimpleStrategy

CONSTANTS
  Lines,       \* the lines a feed file may hold
  MaxLines     \* bound on the length of the file

ASSUME DemoAssumption ==
  /\ Lines \subseteq Line
  /\ MaxLines \in Nat
  /\ 1..MaxLines \subseteq SeqId

VARIABLES
  phase,       \* "open", "replay", "drain", "exit"
  exit_code,
  replay,      \* replay_result
  strategy,    \* strategy
  update       \* the update the callback got last

demoVars == <<phase, exit_code, replay, strategy, update>>

allVars == <<vars, demoVars>>

DemoInit ==
  /\ Init
  /\ phase = "open"
  /\ exit_code = 0
  /\ replay = NewReplay
  /\ strategy = NewStrategy
  /\ update = NoUpdate

OpenFailed ==
  /\ phase = "open"
  /\ phase' = "exit"
  /\ exit_code' = 1
  /\ UNCHANGED <<vars, replay, strategy, update>>

OpenFile ==
  /\ phase = "open"
  /\ phase' = "replay"
  /\ UNCHANGED <<vars, exit_code, replay, strategy, update>>

\* Mutant: main drains before it returns 1.
ReadBadLineDrains(line) ==
  /\ phase = "replay"
  /\ ParseMarketDataLine(line).status # "kOk"
  /\ replay' = ReplayLine(replay, line)
  /\ phase' = "drain"
  /\ exit_code' = 1
  /\ BeginDrain
  /\ UNCHANGED <<strategy, update>>

\* A malformed line ends the replay, and main returns without draining.
ReadBadLine(line) ==
  /\ phase = "replay"
  /\ ParseMarketDataLine(line).status # "kOk"
  /\ replay' = ReplayLine(replay, line)
  /\ phase' = "exit"
  /\ exit_code' = 1
  /\ UNCHANGED <<vars, strategy, update>>

\* The callback: the strategy sees the update, the pipeline the order.
ReadUpdate(line) ==
  LET u      == ParseMarketDataLine(line).update
      orders == GeneratedOrders(strategy, u)
  IN  /\ phase = "replay"
      /\ ParseMarketDataLine(line).status = "kOk"
      /\ replay' = ReplayLine(replay, line)
      /\ strategy' = OnMarketData(strategy, u)
      /\ update' = u
      /\ \/ orders = {} /\ UNCHANGED vars
         \/ \E o \in orders : Enqueue(o)
      /\ UNCHANGED <<phase, exit_code>>

\* Mutant: main returns without draining.
EndOfFileExits ==
  /\ phase = "replay"
  /\ replay' = ReplayEnd(replay)
  /\ phase' = "exit"
  /\ UNCHANGED <<vars, exit_code, strategy, update>>

EndOfFile ==
  /\ phase = "replay"
  /\ replay' = ReplayEnd(replay)
  /\ phase' = "drain"
  /\ BeginDrain
  /\ UNCHANGED <<exit_code, strategy, update>>

\* Mutant: main calls Drain again when it returns.
DrainAllAgain ==
  /\ phase = "drain"
  /\ DrainStep \/ BeginDrain
  /\ UNCHANGED demoVars

DrainAll ==
  /\ phase = "drain"
  /\ DrainStep
  /\ phase' = IF pc' = "idle" THEN "exit" ELSE "drain"
  /\ UNCHANGED <<exit_code, replay, strategy, update>>

ReadLine(line) == ReadBadLine(line) \/ ReadUpdate(line)

DemoNext ==
  \/ OpenFailed
  \/ OpenFile
  \/ \E line \in Lines : replay.lines_read < MaxLines /\ ReadLine(line)
  \/ EndOfFile
  \/ DrainAll

\* The file is finite and the thread runs until main returns.
DemoSpec == DemoInit /\ [][DemoNext]_allVars /\ WF_allVars(DemoNext)

----------------------------------------------------------------------------
(* Properties *)

\* The statistics main prints have their declared types and agree across
\* components: every update is a signal, every generated order was enqueued
\* or dropped for lack of room and none was refused as a duplicate, and a
\* parse error is on the last line read, the only one without an update.
StatisticsAgree ==
  /\ replay \in FeedReplayResult /\ strategy \in Strategy
  /\ strategy.signals_seen = replay.updates_parsed
  /\ strategy.orders_generated = pipeline["orders_enqueued"]
                                   + pipeline["orders_dropped_on_enqueue"]
  /\ replay.lines_read = replay.updates_parsed
                           + (IF replay.status = "kParseError" THEN 1 ELSE 0)
  /\ replay.error_line =
       IF replay.status = "kParseError" THEN replay.lines_read ELSE 0

\* Nothing reaches the exchange unless the whole file was valid
\* (docs/study_log.md: "Verified replay stops on parse error before later
\* strategy/order processing"): until then every order enqueued stays in the
\* buffer, known to the tracker as queued and in no other state, also in a
\* run that fails; and main fails exactly when the statistics say that the
\* file could not be opened or which line, the last one read, is bad.
FailedReplaySendsNothing ==
  /\ phase \in {"open", "replay"} \/ exit_code = 1 =>
       /\ gateway["orders_sent"] = 0 /\ risk["orders_checked"] = 0
       /\ Len(queue) = pipeline["orders_enqueued"]
       /\ wiring.pipeline_tracker =>
            {s \in SeqId : Contains(tracker, s)} = QueuedIds
  /\ phase = "exit" =>
       \/ exit_code = 0 /\ replay.status = "kOk"
       \/ /\ exit_code = 1 /\ replay.status = "kFileOpenFailed"
          /\ replay.lines_read = 0
       \/ /\ exit_code = 1 /\ replay.status = "kParseError"
          /\ replay.parse_status # "kOk"
          /\ replay.error_line = replay.lines_read /\ replay.lines_read > 0

\* A run that exits with 0 has settled every order it enqueued.
SuccessSettlesEverything ==
  phase = "exit" /\ exit_code = 0 =>
    /\ queue = <<>>
    /\ \A s \in SeqId : StateOf(tracker, s) \in
         {Absent, "kRiskRejected", "kExchangeAccepted"}
    /\ strategy.orders_generated =
         tracker.count["orders_risk_rejected"]
           + tracker.count["orders_exchange_accepted"]
           + pipeline["orders_dropped_on_enqueue"]

\* Orders leave the pipeline in the order of the updates that caused them:
\* the journal's dispatch reports, and then the orders still in the buffer,
\* have increasing sequence ids, although ids are skipped and orders dropped
\* on the way.  With a tracker and its journal, the orders dropped are the
\* only ones missing: all others are dispatched once or still in the buffer.
DispatchInOrder ==
  LET reports  == tracker.journal.reports
      dispatch == {i \in 1..Len(reports) :
                     reports[i].type \in {"kSent", "kRiskRejected"}}
  IN  /\ \A i, k \in dispatch :
           i < k => reports[i].sequence_id < reports[k].sequence_id
      /\ \A i \in dispatch, r \in QueuedIds : reports[i].sequence_id < r
      /\ \A i, k \in 1..Len(queue) :
           i < k => queue[i].sequence_id < queue[k].sequence_id
      /\ wiring.pipeline_tracker /\ wiring.journal =>
           strategy.orders_generated =
             Cardinality(dispatch) + Len(queue)
               + pipeline["orders_dropped_on_enqueue"]

\* docs/architecture.md on MarketDataParser: "Validation includes: ... finite
\* positive prices".
UpdatesHaveFinitePrices ==
  replay.updates_parsed > 0 =>
    IsFinite(update.bid_price) /\ IsFinite(update.ask_price)

\* docs/architecture.md on SimpleStrategy: it "generates a small test buy order
\* when the spread meets a configured threshold".
OrdersMeetSpread ==
  [][strategy'.orders_generated > strategy.orders_generated =>
       LessEq(min_spread,
              Minus(update'.ask_price, update'.bid_price))]_allVars

\* main returns, whatever the file holds.
MainReturns == <>(phase = "exit")

============================================================================
