--------------------------- MODULE OrderPipeline ---------------------------
(***************************************************************************)
(* OrderPipeline<Capacity> (order_pipeline.hpp) composed with everything   *)
(* it drives: the risk manager, the gateway, the exchange, the tracker and *)
(* its journal.  A client calls Enqueue, Drain and the gateway's methods   *)
(* one at a time (the program has one thread); Drain is a loop, and each   *)
(* iteration is a step.                                                    *)
(*                                                                         *)
(* The buffer is the bounded FIFO queue that RingBuffer is proved to       *)
(* implement.                                                              *)
(***************************************************************************)
EXTENDS OrderGateway, PreTradeRisk

CONSTANTS
  Capacity,       \* the template parameter
  Wirings,        \* the wirings considered
  Orders,         \* the orders the client submits
  Amends,         \* the amendments the client requests
  DirectSend,     \* whether the client also calls SendOrder itself
  DirectCancels,  \* the ids it may cancel at the exchange itself
  MaxEnqueues, MaxCancels, MaxAmends, MaxSends    \* bounds on client calls

ASSUME PipelineAssumption ==
  /\ Capacity \in Nat \ {0}
  /\ Wirings \subseteq Wiring
  /\ Orders \subseteq Order
  /\ Amends \subseteq AmendRequest
  /\ DirectSend \in BOOLEAN
  /\ DirectCancels \subseteq SeqId
  /\ {MaxEnqueues, MaxCancels, MaxAmends, MaxSends} \subseteq Nat

VARIABLES
  queue,       \* buffer_
  risk,        \* the risk manager's counters
  pipeline,    \* the pipeline's counters
  last_risk_reject_reason,
  pc           \* "idle" between calls, "drain" inside Drain's loop

vars == <<wiring, tracker, exchange, gateway,
          queue, risk, pipeline, last_risk_reject_reason, pc>>

PipelineCounter ==
  {"orders_enqueued", "orders_dropped_on_enqueue",
   "orders_rejected_by_lifecycle_on_enqueue", "orders_drained",
   "orders_accepted", "orders_rejected", "orders_rejected_by_risk",
   "orders_rejected_by_gateway", "lifecycle_transition_errors"}

Init ==
  /\ wiring \in Wirings
  /\ tracker = NewTracker(wiring.journal)
  /\ exchange = NewExchange
  /\ gateway = NewGateway
  /\ queue = <<>>
  /\ risk = NewRiskManager
  /\ pipeline = [c \in PipelineCounter |-> 0]
  /\ last_risk_reject_reason = "kNone"
  /\ pc = "idle"

\* A call of the tracker, if the pipeline was given one.
Tracked(t) == IF wiring.pipeline_tracker THEN t ELSE tracker

\* The pipeline counts a tracker call that returned false.
TrackedOk(t) == wiring.pipeline_tracker => Ok(t)

----------------------------------------------------------------------------
(* Enqueue: refused by the tracker, refused by the buffer, or queued. *)

\* Mutant: only an order that is still queued counts as a duplicate.
IsKnownWhileQueued(o) ==
  wiring.pipeline_tracker /\ StateOf(tracker, o.sequence_id) = "kQueued"

IsKnown(o) == wiring.pipeline_tracker /\ Contains(tracker, o.sequence_id)

\* Mutant: one order too many fits.
BufferFullLate == Len(queue) = Capacity + 1

BufferFull == Len(queue) = Capacity

EnqueueRejected(o) ==
  /\ IsKnown(o)
  /\ pipeline' = Bump(pipeline, {"orders_rejected_by_lifecycle_on_enqueue"})
  /\ UNCHANGED <<queue, tracker>>

EnqueueDropped(o) ==
  /\ ~IsKnown(o)
  /\ BufferFull
  /\ pipeline' = Bump(pipeline, {"orders_dropped_on_enqueue"})
  /\ UNCHANGED <<queue, tracker>>

\* Mutant: last in, first out.
EnqueueQueuedInFront(o) ==
  LET registered == RegisterQueued(tracker, o.sequence_id)
  IN  /\ ~IsKnown(o)
      /\ ~BufferFull
      /\ queue' = <<o>> \o queue
      /\ tracker' = Tracked(registered)
      /\ pipeline' = Bump(pipeline,
           {"orders_enqueued"} \cup ErrorCounter(TrackedOk(registered)))

EnqueueQueued(o) ==
  LET registered == RegisterQueued(tracker, o.sequence_id)
  IN  /\ ~IsKnown(o)
      /\ ~BufferFull
      /\ queue' = Append(queue, o)
      /\ tracker' = Tracked(registered)
      /\ pipeline' = Bump(pipeline,
           {"orders_enqueued"} \cup ErrorCounter(TrackedOk(registered)))

Enqueue(o) ==
  /\ pc = "idle"
  /\ EnqueueRejected(o) \/ EnqueueDropped(o) \/ EnqueueQueued(o)
  /\ UNCHANGED <<wiring, exchange, gateway, risk, last_risk_reject_reason,
                 pc>>

----------------------------------------------------------------------------
(* Drain: pop an order, check it, send it, until the buffer is empty. *)

BeginDrain ==
  /\ pc = "idle"
  /\ pc' = "drain"
  /\ UNCHANGED <<wiring, gatewayVars, queue, risk, pipeline,
                 last_risk_reject_reason>>

\* Mutant: Drain returns after any number of orders.
EndDrainEarly ==
  /\ pc = "drain"
  /\ pc' = "idle"
  /\ UNCHANGED <<wiring, gatewayVars, queue, risk, pipeline,
                 last_risk_reject_reason>>

\* Mutant: the loop has no break.
EndDrainSpins ==
  /\ pc = "drain"
  /\ queue = <<>>
  /\ UNCHANGED vars

\* The buffer is empty: Drain returns.
EndDrain ==
  /\ pc = "drain"
  /\ queue = <<>>
  /\ pc' = "idle"
  /\ UNCHANGED <<wiring, gatewayVars, queue, risk, pipeline,
                 last_risk_reject_reason>>

\* What every iteration does first.
PopOrder ==
  /\ pc = "drain"
  /\ queue # <<>>
  /\ queue' = Tail(queue)
  /\ risk' = IF wiring.risk_manager THEN Check(risk, Head(queue)) ELSE risk
  /\ UNCHANGED <<wiring, pc>>

PassesRisk(o) == wiring.risk_manager => RiskDecision(o).accepted

\* Mutant: the tracker is told the reason of the rejection before.
DrainRiskRejectedStale ==
  LET o      == Head(queue)
      marked == MarkRiskRejected(tracker, o.sequence_id,
                                 last_risk_reject_reason)
  IN  /\ PopOrder
      /\ ~PassesRisk(o)
      /\ tracker' = Tracked(marked)
      /\ last_risk_reject_reason' = RiskDecision(o).reject_reason
      /\ pipeline' = Bump(pipeline,
           {"orders_drained", "orders_rejected", "orders_rejected_by_risk"}
           \cup ErrorCounter(TrackedOk(marked)))
      /\ UNCHANGED <<exchange, gateway>>

\* The risk manager rejects the order: it goes no further.
DrainRiskRejected ==
  LET o      == Head(queue)
      reason == RiskDecision(o).reject_reason
      marked == MarkRiskRejected(tracker, o.sequence_id, reason)
  IN  /\ PopOrder
      /\ ~PassesRisk(o)
      /\ tracker' = Tracked(marked)
      /\ last_risk_reject_reason' = reason
      /\ pipeline' = Bump(pipeline,
           {"orders_drained", "orders_rejected", "orders_rejected_by_risk"}
           \cup ErrorCounter(TrackedOk(marked)))
      /\ UNCHANGED <<exchange, gateway>>

\* Counters of an order handed to the gateway, after the two tracker calls.
\* Both calls may go wrong, and each one counts.
Dispatched(outcome, sent, settled) ==
  LET errors == (IF TrackedOk(sent) THEN 0 ELSE 1)
                  + (IF TrackedOk(settled) THEN 0 ELSE 1)
  IN  [Bump(pipeline, {"orders_drained"} \cup outcome)
         EXCEPT !["lifecycle_transition_errors"] = @ + errors]

\* No gateway: the order is rejected as if its symbol were invalid.
DrainNoGateway ==
  LET o       == Head(queue)
      sent    == MarkSent(tracker, o.sequence_id)
      settled == MarkExchangeRejected(sent, o.sequence_id, "kInvalidSymbol")
  IN  /\ PopOrder
      /\ PassesRisk(o)
      /\ ~wiring.pipeline_gateway
      /\ tracker' = Tracked(settled)
      /\ pipeline' = Dispatched({"orders_rejected",
                                 "orders_rejected_by_gateway"}, sent, settled)
      /\ UNCHANGED <<exchange, gateway, last_risk_reject_reason>>

\* The gateway answers, and the tracker follows.
DrainSent ==
  LET o       == Head(queue)
      resp    == SendOrderResponse(o)
      sent    == MarkSent(tracker, o.sequence_id)
      settled == IF resp.accepted
                 THEN MarkExchangeAccepted(sent, o.sequence_id)
                 ELSE MarkExchangeRejected(sent, o.sequence_id,
                                           resp.reject_reason)
  IN  /\ PopOrder
      /\ PassesRisk(o)
      /\ wiring.pipeline_gateway
      /\ SendOrder(o)
      /\ tracker' = Tracked(settled)
      /\ pipeline' = Dispatched(IF resp.accepted THEN {"orders_accepted"}
                                ELSE {"orders_rejected",
                                      "orders_rejected_by_gateway"},
                                sent, settled)
      /\ UNCHANGED last_risk_reject_reason

DrainStep == DrainRiskRejected \/ DrainNoGateway \/ DrainSent \/ EndDrain

----------------------------------------------------------------------------
(* The client *)

Enqueues == pipeline["orders_enqueued"]
              + pipeline["orders_dropped_on_enqueue"]
              + pipeline["orders_rejected_by_lifecycle_on_enqueue"]

pipelineVars == <<queue, risk, pipeline, last_risk_reject_reason, pc>>

ClientCancel(s) ==
  /\ pc = "idle"
  /\ gateway["cancels_sent"] < MaxCancels
  /\ SendCancel(s)
  /\ UNCHANGED <<wiring, pipelineVars>>

ClientAmend(req) ==
  /\ pc = "idle"
  /\ gateway["amends_sent"] < MaxAmends
  /\ SendAmend(req)
  /\ UNCHANGED <<wiring, pipelineVars>>

\* The client bypasses the pipeline.
ClientSend(o) ==
  /\ pc = "idle"
  /\ DirectSend
  /\ gateway["orders_sent"] < MaxSends
  /\ SendOrder(o)
  /\ UNCHANGED <<wiring, tracker, pipelineVars>>

\* The client cancels at the exchange, behind the gateway: the tracker goes
\* on calling the order accepted.  (A refused call changes nothing.)
ClientCancelDirectly(s) ==
  /\ pc = "idle"
  /\ s \in DirectCancels
  /\ CancelResponse(exchange, s).accepted
  /\ exchange' = CancelOrder(exchange, s)
  /\ UNCHANGED <<wiring, tracker, gateway, pipelineVars>>

Next ==
  \/ \E o \in Orders : Enqueues < MaxEnqueues /\ Enqueue(o)
  \/ BeginDrain
  \/ DrainStep
  \/ \E s \in SeqId : ClientCancel(s)
  \/ \E req \in Amends : ClientAmend(req)
  \/ \E o \in Orders : ClientSend(o)
  \/ \E s \in SeqId : ClientCancelDirectly(s)

\* Once inside Drain the single thread keeps running its loop.
Fairness == WF_vars(DrainStep)

Spec == Init /\ [][Next]_vars /\ Fairness

----------------------------------------------------------------------------
(* Properties *)

\* Every component's state has the types its header declares.
TypeOK ==
  /\ wiring \in Wiring
  /\ tracker \in Tracker
  /\ IsExchange(exchange)
  /\ gateway \in [GatewayCounter -> Nat]
  /\ queue \in Seq(Order) /\ Len(queue) <= Capacity
  /\ risk \in RiskManager
  /\ pipeline \in [PipelineCounter -> Nat]
  /\ last_risk_reject_reason \in RiskRejectReason
  /\ pc \in {"idle", "drain"}

QueuedIds == {queue[i].sequence_id : i \in 1..Len(queue)}

\* A pipeline with a tracker holds exactly the orders the tracker says are
\* queued, each once, and no call leaves an order half way (created, sent,
\* or with a cancellation or an amendment pending) when it returns.
\* Enqueue updates the buffer and the tracker in separate steps, Drain pops
\* before it marks, and the gateway rolls a refused request back, also one
\* about an order that was cancelled behind its back.
QueueMatchesTracker ==
  wiring.pipeline_tracker =>
    /\ InState(tracker, "kQueued") = QueuedIds
    /\ \A i, k \in 1..Len(queue) :
         queue[i].sequence_id = queue[k].sequence_id => i = k
    /\ \A state \in {"kCreated", "kSent", "kCancelPending",
                      "kAmendPending"} : InState(tracker, state) = {}

\* The pipeline never makes a call the tracker refuses, whatever the client
\* enqueues: lifecycle_transition_errors_ of order_pipeline.hpp stays zero.
\* The gateway's is exactly the requests the tracker refused at the door: a
\* request once pending is always settled.
OnlyRefusalsErr ==
  /\ pipeline["lifecycle_transition_errors"] = 0
  /\ gateway["lifecycle_transition_errors"] =
       tracker.count["transition_errors"]
  /\ wiring.gateway_tracker =>
       gateway["cancels_sent"] + gateway["amends_sent"] =
         tracker.count["cancel_requests"] + tracker.count["amend_requests"]
           + gateway["lifecycle_transition_errors"]

FullyTracked ==
  wiring.pipeline_tracker /\ wiring.gateway_tracker
    /\ ~DirectSend /\ DirectCancels = {}

\* With one tracker shared by the pipeline and the gateway, as main.cpp
\* wires them, the tracker and the exchange never disagree: the accepted
\* orders are the active ones, the cancelled ones are gone for good, and no
\* other id was ever consumed.
BookMatchesTracker ==
  FullyTracked =>
    /\ DOMAIN exchange.active = InState(tracker, "kExchangeAccepted")
    /\ exchange.seen = InState(tracker, "kExchangeAccepted")
                         \cup InState(tracker, "kCancelled")

\* With a shared tracker and a client that also sends orders past the
\* pipeline and cancels some behind the gateway, the tracker is never wrong
\* about an order it calls cancelled, an order is gone without the tracker
\* knowing only if it was cancelled behind the gateway, and the ids the
\* tracker calls neither accepted nor cancelled are exactly those sent past
\* the pipeline: such an order can collide with a queued one, but nothing can
\* cancel or amend it through the gateway.
TrackerNeverMisleads ==
  wiring.pipeline_tracker /\ wiring.gateway_tracker =>
    LET accepted  == InState(tracker, "kExchangeAccepted")
        cancelled == InState(tracker, "kCancelled")
        gone      == exchange.seen \ DOMAIN exchange.active
    IN  /\ accepted \subseteq exchange.seen /\ cancelled \subseteq gone
        /\ gone \ cancelled \subseteq DirectCancels
        /\ Cardinality(exchange.seen \ (accepted \cup cancelled)) =
             gateway["orders_accepted"] - pipeline["orders_accepted"]

\* Why orders were refused is told in three places that agree: the risk
\* manager counts each reason as often as the journal reports it, and the
\* pipeline remembers the last one (none before the first, and it survives
\* every order that passes).
RiskReasonsAgree ==
  wiring.risk_manager /\ wiring.pipeline_tracker /\ wiring.journal =>
    LET reports  == tracker.journal.reports
        rejected == {i \in 1..Len(reports) : reports[i].type = "kRiskRejected"}
    IN  /\ \A reason \in RiskRejectReason \ {"kNone"} :
             risk[reason] = Cardinality({i \in rejected :
               reports[i].reject_reason =
                 ReasonString["kRisk"][reason]})
        /\ ReasonString["kRisk"][last_risk_reject_reason] =
             IF rejected = {} THEN "none"
             ELSE reports[CHOOSE i \in rejected :
                            \A k \in rejected : k <= i].reject_reason

\* Nothing is lost between the components: each order enqueued is queued,
\* rejected by the risk manager or answered by the gateway, and the counters
\* of the four components and the exchange's state tell the same story: an
\* order left the book through the gateway, or is one of DirectCancels.
OrdersAreConserved ==
  /\ pipeline["orders_enqueued"] = pipeline["orders_drained"] + Len(queue)
  /\ pipeline["orders_drained"] =
       pipeline["orders_accepted"] + pipeline["orders_rejected"]
  /\ pipeline["orders_rejected"] = pipeline["orders_rejected_by_risk"]
                                     + pipeline["orders_rejected_by_gateway"]
  /\ pipeline["orders_rejected_by_risk"] = risk["orders_rejected"]
  /\ wiring.risk_manager =>
       risk["orders_checked"] = pipeline["orders_drained"]
  /\ gateway["orders_accepted"] = Cardinality(exchange.seen)
  /\ gateway["orders_accepted"] - gateway["cancels_accepted"]
       - Cardinality(DOMAIN exchange.active) \in
         0..Cardinality((exchange.seen \ DOMAIN exchange.active)
                          \cap DirectCancels)
  /\ ~DirectSend => pipeline["orders_accepted"] = gateway["orders_accepted"]
  /\ wiring.pipeline_tracker =>
       /\ tracker.count["orders_queued"] = pipeline["orders_enqueued"]
       /\ tracker.count["orders_risk_rejected"] =
            pipeline["orders_rejected_by_risk"]
       /\ tracker.count["orders_exchange_accepted"] =
            pipeline["orders_accepted"]

\* The entries of the allow list that exist and are in use.
AllowedSymbols ==
  {RiskLimits.allowed_symbols[i] :
     i \in {k \in 1..kMaxAllowedSymbols : k <= RiskLimits.allowed_symbol_count}}

\* The limits of docs/pre_trade_risk.md, stated without the order of checks.
\* A limit that is NaN or infinite forbids no finite notional, and an order
\* without a symbol is refused even if the empty text is on the list.
WithinLimits(o) ==
  /\ o.symbol # <<>>
  /\ AllowedSymbols = {} \/ o.symbol \in AllowedSymbols
  /\ IsFinite(o.price) /\ Less(Zero, o.price)
  /\ o.quantity \in 1..RiskLimits.max_order_quantity
  /\ IsFinite(Notional(o))
  /\ ~Less(RiskLimits.max_order_notional, Notional(o))

\* What the exchange may hold at all: a symbol, a finite positive price and
\* a positive quantity.
IsTradable(o) ==
  o.symbol # <<>> /\ IsFinite(o.price) /\ Less(Zero, o.price)
    /\ o.quantity > 0

\* A sequence id is used once, ever: the exchange never forgets an id, an
\* order that left the book does not come back, and an amendment keeps the
\* symbol and the side (docs/final_report.md: "cancelled sequence IDs
\* remaining non-reusable").  An order that appears on the book is tradable
\* and, sent through a pipeline with a risk manager, within the limits; an
\* amended one is tradable but is not checked against them.
BookOnlyMovesForward ==
  [][/\ exchange.seen \subseteq exchange'.seen
     /\ \A s \in DOMAIN exchange'.active :
          LET o == exchange'.active[s]
          IN  /\ IsTradable(o)
              /\ s \notin DOMAIN exchange.active =>
                   /\ s \notin exchange.seen
                   /\ wiring.risk_manager /\ pc = "drain" => WithinLimits(o)
              /\ s \in DOMAIN exchange.active =>
                   /\ o.symbol = exchange.active[s].symbol
                   /\ o.side = exchange.active[s].side]_vars

\* Drain returns, and leaves the buffer empty.
DrainTerminates == [](pc = "drain" => <>(pc = "idle" /\ queue = <<>>))

----------------------------------------------------------------------------
(* The abstract order book, seen through the components. *)

Status(s) ==
  IF HasActiveOrder(exchange, s) THEN "live"
  ELSE IF s \in exchange.seen THEN "cancelled"
  ELSE IF s \in QueuedIds THEN "pending"
  ELSE IF StateOf(tracker, s) \in {"kRiskRejected", "kExchangeRejected"}
       THEN "rejected"
  ELSE "new"

\* A queued order is read from the buffer, a live one from the exchange.
OrderOf(s) ==
  IF HasActiveOrder(exchange, s) THEN exchange.active[s]
  ELSE queue[CHOOSE i \in 1..Len(queue) : queue[i].sequence_id = s]

Book == INSTANCE OrderBook WITH
  Admissible <- {o \in Orders : WithinLimits(o)},
  Tradable   <- {o \in Order : IsTradable(o)},
  status     <- [s \in SeqId |-> Status(s)],
  order      <- [s \in DOMAIN exchange.active \cup QueuedIds |-> OrderOf(s)]

\* Wired as in main.cpp, the whole path from Enqueue to the exchange and
\* back implements OrderBook: no order is lost, duplicated, swapped with
\* another, resurrected, or live when the limits forbid it, nor refused when
\* they allow it.
ImplementsOrderBook == Book!Spec

============================================================================
