------------------------ MODULE OrderPipelineProofs ------------------------
(***************************************************************************)
(* Proofs about the pipeline composed with the components it drives, for   *)
(* every capacity, every wiring, every set of orders and amendments, and   *)
(* every limit; that the pipeline, wired as in main.cpp, implements        *)
(* OrderBook; and about main.cpp's program (Demo), for every feed file and *)
(* every threshold of the strategy.                                        *)
(***************************************************************************)
EXTENDS Demo, OrderLifecycleLemmas, SequenceTheorems, FiniteSetTheorems

----------------------------------------------------------------------------
(***************************************************************************)
(* Part one: types, and what the queue, the exchange and the tracker share *)
(***************************************************************************)

----------------------------------------------------------------------------
(* What the risk manager and the exchange answer. *)

\* The enumerators that the components pass to one another.
LEMMA ReasonTypes ==
  /\ RiskRejectReason \subseteq RejectReason
  /\ {"kInvalidSymbol", "kInvalidPrice", "kInvalidQuantity",
      "kDuplicateSequence", "kUnknownOrder"} \subseteq RejectReason \ {"kNone"}
BY DEF RejectReason, RiskRejectReason, OrderRejectReason, CancelRejectReason

\* A rejection by the risk manager has a reason.
LEMMA RiskReasons ==
  ASSUME NEW o, ~RiskDecision(o).accepted
  PROVE  RiskDecision(o).reject_reason \in RiskRejectReason \ {"kNone"}
BY DEF RiskDecision, Rejected, Accepted, RiskRejectReason

\* So has one by the exchange, of an order...
LEMMA SubmitReasons ==
  ASSUME NEW ex, NEW o, ~SubmitResponse(ex, o).accepted
  PROVE  SubmitResponse(ex, o).reject_reason \in RejectReason \ {"kNone"}
BY ReasonTypes DEF SubmitResponse, Rejected, Accepted

\* ... of a cancellation...
LEMMA CancelReasons ==
  ASSUME NEW ex, NEW s, ~CancelResponse(ex, s).accepted
  PROVE  CancelResponse(ex, s).reject_reason \in RejectReason \ {"kNone"}
BY ReasonTypes DEF CancelResponse, Rejected, Accepted

\* ... and of an amendment.
LEMMA AmendReasons ==
  ASSUME NEW ex, NEW req, ~AmendResponse(ex, req).accepted
  PROVE  AmendResponse(ex, req).reject_reason \in RejectReason \ {"kNone"}
BY ReasonTypes DEF AmendResponse, Rejected, Accepted

\* The test that the risk manager and the exchange share: finite, above zero.
LEMMA ValidPrice ==
  ASSUME NEW p \in Double
  PROVE  ~IsInvalidPrice(p) <=> IsFinite(p) /\ Less(Zero, p)
<1>1. CASE ~IsFinite(p)
  BY <1>1 DEF IsInvalidPrice
<1>2. CASE IsFinite(p)
  <2>1. p.kind = "finite" /\ p.val \in Int
    BY <1>2 DEF IsFinite, Double
  <2>2. p = Zero <=> p.val = 0
    BY <2>1 DEF Zero, Double
  <2>3. LessEq(p, Zero) <=> p.val < 0 \/ p.val = 0
    BY <2>1, <2>2 DEF LessEq, Less, Zero
  <2>4. Less(Zero, p) <=> 0 < p.val
    BY <2>1 DEF Less, Zero
  <2> QED BY <1>2, <2>1, <2>3, <2>4 DEF IsInvalidPrice
<1> QED BY <1>1, <1>2

\* The clamped count selects the entries of the allow list that exist and are
\* in use.
LEMMA AllowListMeaning ==
  ASSUME NEW o
  PROVE  IsAllowedSymbol(o)
           <=> AllowedSymbols = {} \/ o.symbol \in AllowedSymbols
<1> DEFINE I == {k \in 1..kMaxAllowedSymbols :
                   k <= RiskLimits.allowed_symbol_count}
<1>1. /\ kMaxAllowedSymbols \in Nat
      /\ RiskLimits.allowed_symbol_count \in Nat
  BY RiskLimitsAssumption
<1>2. allowed_symbol_count_ \in Nat /\ I = 1..allowed_symbol_count_
  BY <1>1 DEF allowed_symbol_count_
<1>3. AllowedSymbols = {RiskLimits.allowed_symbols[i] :
                          i \in 1..allowed_symbol_count_}
  BY <1>2 DEF AllowedSymbols
<1>4. AllowedSymbols = {} <=> allowed_symbol_count_ = 0
  <2> HIDE DEF I
  <2>1. CASE allowed_symbol_count_ = 0
    <3>1. 1..allowed_symbol_count_ = {}
      BY <2>1
    <3> QED BY <1>3, <2>1, <3>1
  <2>2. CASE allowed_symbol_count_ # 0
    <3>1. 1 \in 1..allowed_symbol_count_
      BY <1>2, <2>2
    <3>2. RiskLimits.allowed_symbols[1] \in AllowedSymbols
      BY <1>3, <3>1
    <3> QED BY <2>2, <3>2
  <2> QED BY <2>1, <2>2
<1> QED BY <1>3, <1>4 DEF IsAllowedSymbol

\* The order of the risk manager's checks does not matter to its verdict: it
\* accepts exactly the orders within the limits.
LEMMA RiskVerdict ==
  ASSUME NEW o \in Order
  PROVE  RiskDecision(o).accepted <=> WithinLimits(o)
<1>1. /\ o.price \in Double /\ o.quantity \in Nat
      /\ RiskLimits.max_order_quantity \in Nat
  BY RiskLimitsAssumption DEF Order
<1>2. RiskDecision(o).accepted <=>
        /\ o.symbol # <<>> /\ ~IsInvalidPrice(o.price) /\ o.quantity # 0
        /\ ~(o.quantity > RiskLimits.max_order_quantity)
        /\ ~IsOverNotional(o) /\ IsAllowedSymbol(o)
  BY DEF RiskDecision, Accepted, Rejected, IsInvalidPrice
<1>3. ~IsInvalidPrice(o.price) <=> IsFinite(o.price) /\ Less(Zero, o.price)
  BY <1>1, ValidPrice
<1>4. o.quantity # 0 /\ ~(o.quantity > RiskLimits.max_order_quantity)
        <=> o.quantity \in 1..RiskLimits.max_order_quantity
  BY <1>1
<1> QED BY <1>2, <1>3, <1>4, AllowListMeaning DEF WithinLimits, IsOverNotional

\* What an accepted order is, and what it does to the exchange.
LEMMA ExchangeSubmitEffect ==
  ASSUME NEW ex, IsExchange(ex), NEW o \in Order, SubmitResponse(ex, o).accepted
  PROVE  LET s == o.sequence_id
             e == SubmitOrder(ex, o)
         IN  /\ IsTradable(o) /\ s \notin ex.seen
             /\ IsExchange(e)
             /\ e.seen = ex.seen \cup {s}
             /\ DOMAIN e.active = DOMAIN ex.active \cup {s}
             /\ e.active[s] = o
             /\ \A r \in DOMAIN ex.active : e.active[r] = ex.active[r]
<1> DEFINE s == o.sequence_id
           e == SubmitOrder(ex, o)
<1>1. /\ o.symbol # <<>> /\ ~IsInvalidPrice(o.price) /\ o.quantity # 0
      /\ s \notin ex.seen
  BY DEF SubmitResponse, Rejected
<1>2. IsTradable(o)
  BY <1>1, ValidPrice DEF IsTradable, Order
<1>3. e = [seen |-> ex.seen \cup {s},
           active |-> [r \in DOMAIN ex.active \cup {s} |->
                         IF r \in DOMAIN ex.active THEN ex.active[r] ELSE o]]
  BY DEF SubmitOrder
<1>4. s \in SeqId /\ s \notin DOMAIN ex.active
  BY <1>1 DEF Order, IsExchange
<1> HIDE DEF e
<1>5. /\ e.seen = ex.seen \cup {s}
      /\ e.active = [r \in DOMAIN ex.active \cup {s} |->
                       IF r \in DOMAIN ex.active THEN ex.active[r] ELSE o]
      /\ e = [seen |-> e.seen, active |-> e.active]
  BY <1>3
<1>6. /\ DOMAIN e.active = DOMAIN ex.active \cup {s}
      /\ e.active[s] = o
      /\ \A r \in DOMAIN ex.active : e.active[r] = ex.active[r]
  BY <1>4, <1>5
<1>7. IsExchange(e)
  BY <1>4, <1>5 DEF IsExchange
<1> QED BY <1>1, <1>2, <1>5, <1>6, <1>7 DEF e

\* What an accepted cancellation does.
LEMMA ExchangeCancelEffect ==
  ASSUME NEW ex, IsExchange(ex), NEW s
  PROVE  LET e == CancelOrder(ex, s)
         IN  /\ IsExchange(e)
             /\ e.seen = ex.seen
             /\ DOMAIN e.active = DOMAIN ex.active \ {s}
             /\ \A r \in DOMAIN e.active : e.active[r] = ex.active[r]
<1> DEFINE e == CancelOrder(ex, s)
           active == [r \in DOMAIN ex.active \ {s} |-> ex.active[r]]
<1>1. ex = [seen |-> ex.seen, active |-> ex.active]
  BY DEF IsExchange
<1>2. e = [seen |-> ex.seen, active |-> active]
  BY <1>1 DEF CancelOrder
<1> HIDE DEF e
<1>3. e.seen = ex.seen /\ e.active = active
  BY <1>2
<1>4. e = [seen |-> e.seen, active |-> e.active]
  BY <1>2, <1>3
<1>5. IsExchange(e)
  BY <1>3, <1>4 DEF IsExchange
<1> QED BY <1>3, <1>5 DEF e

\* What an accepted amendment is, and does.
LEMMA ExchangeAmendEffect ==
  ASSUME NEW ex, IsExchange(ex), NEW req \in AmendRequest,
         AmendResponse(ex, req).accepted
  PROVE  LET s == req.sequence_id
             e == AmendOrder(ex, req)
         IN  /\ s \in DOMAIN ex.active
             /\ IsExchange(e)
             /\ e.seen = ex.seen
             /\ DOMAIN e.active = DOMAIN ex.active
             /\ e.active[s].sequence_id = ex.active[s].sequence_id
             /\ e.active[s].symbol = ex.active[s].symbol
             /\ e.active[s].side = ex.active[s].side
             /\ (IsTradable(ex.active[s]) => IsTradable(e.active[s]))
             /\ \A r \in DOMAIN ex.active \ {s} : e.active[r] = ex.active[r]
<1> DEFINE s == req.sequence_id
           e == AmendOrder(ex, req)
           o == ex.active[s]
           new == [o EXCEPT !.price = req.new_price,
                            !.quantity = req.new_quantity]
           active == [ex.active EXCEPT ![s] = new]
<1>1. /\ s \in DOMAIN ex.active
      /\ ~IsInvalidPrice(req.new_price) /\ req.new_quantity # 0
  BY DEF AmendResponse, Rejected, HasActiveOrder
<1>2. ex = [seen |-> ex.seen, active |-> ex.active]
      /\ ex.active \in [DOMAIN ex.active -> Order]
  BY DEF IsExchange
<1>3. o \in Order /\ req.new_price \in Double /\ req.new_quantity \in Nat
  BY <1>1, <1>2 DEF AmendRequest
<1>4. /\ new \in Order /\ new.price = req.new_price
      /\ new.quantity = req.new_quantity /\ new.symbol = o.symbol
      /\ new.sequence_id = o.sequence_id /\ new.side = o.side
  BY <1>3 DEF Order
<1>5. e = [seen |-> ex.seen, active |-> active]
  <2>1. e = [ex EXCEPT !.active[s] = new]
    BY DEF AmendOrder
  <2> HIDE DEF e, new
  <2>2. [ex EXCEPT !.active[s] = new] = [seen |-> ex.seen, active |-> active]
    BY <1>2
  <2> QED BY <2>1, <2>2
<1> HIDE DEF e
<1>6. e.seen = ex.seen /\ e.active = active
      /\ e = [seen |-> e.seen, active |-> e.active]
  BY <1>5
<1>7. /\ DOMAIN e.active = DOMAIN ex.active
      /\ e.active[s] = new
      /\ \A r \in DOMAIN ex.active \ {s} : e.active[r] = ex.active[r]
  BY <1>1, <1>2, <1>6
<1>8. IsExchange(e)
  <2>1. ex.seen \subseteq SeqId /\ DOMAIN ex.active \subseteq ex.seen
    BY DEF IsExchange
  <2>2. new \in Order
    BY <1>4
  <2> HIDE DEF new
  <2>3. active \in [DOMAIN ex.active -> Order]
    BY <1>2, <2>2
  <2>4. e.active \in [DOMAIN e.active -> Order]
    BY <1>6, <1>7, <2>3
  <2> QED BY <1>6, <1>7, <2>1, <2>4 DEF IsExchange
<1>9. IsTradable(o) => IsTradable(new)
  <2>1. IsFinite(req.new_price) /\ Less(Zero, req.new_price)
    BY <1>1, <1>3, ValidPrice
  <2> HIDE DEF new
  <2> QED BY <1>1, <1>3, <1>4, <2>1 DEF IsTradable
<1> HIDE DEF new
<1> QED BY <1>1, <1>4, <1>6, <1>7, <1>8, <1>9 DEF e

----------------------------------------------------------------------------
(* The actions, in terms of what they do to an order.  A tracked pipeline  *)
(* makes no call that its tracker refuses, so each action moves one order. *)

\* The inductive invariant that everything else rests on.
Inv == TypeOK /\ QueueMatchesTracker

\* The tracker, if the pipeline has one, follows the order.
Follows(s, next, names) ==
  IF wiring.pipeline_tracker THEN Moved(tracker, tracker', s, next, names)
                             ELSE tracker' = tracker

\* The order that Drain pops.
Popped == Head(queue)

\* It is one that was enqueued, and the tracker has it as queued.
LEMMA PoppedIsQueued ==
  ASSUME Inv, queue # <<>>
  PROVE  /\ Popped \in Order /\ Popped.sequence_id \in SeqId
         /\ Popped = queue[1] /\ 1 \in 1..Len(queue)
         /\ wiring.pipeline_tracker =>
              StateOf(tracker, Popped.sequence_id) = "kQueued"
<1>1. queue \in Seq(Order)
  BY DEF Inv, TypeOK
<1>2. Popped \in Order /\ Popped = queue[1] /\ 1 \in 1..Len(queue)
  BY <1>1 DEF Popped
<1>3. Popped.sequence_id \in SeqId
  BY <1>2 DEF Order
<1>4. Popped.sequence_id \in QueuedIds
  BY <1>2 DEF QueuedIds
<1> QED BY <1>2, <1>3, <1>4 DEF Inv, QueueMatchesTracker, InState, StateOf

\* A step of the composition with a client that may submit any order.  What
\* a step does is proved of these, so that it also holds for the clients that
\* make their orders themselves.
Step ==
  \/ \E o \in Order : Enqueue(o)
  \/ BeginDrain
  \/ DrainStep
  \/ \E s \in SeqId : ClientCancel(s)
  \/ \E req \in Amends : ClientAmend(req)
  \/ \E o \in Order : ClientSend(o)
  \/ \E s \in SeqId : ClientCancelDirectly(s)

\* The specification's client is one of them.
LEMMA NextIsStep == [Next]_vars => [Step]_vars
BY PipelineAssumption DEF Next, Step

\* A cancellation behind the gateway is one at the exchange and nowhere else.
LEMMA DirectCancelEffect ==
  ASSUME TypeOK, NEW s \in SeqId, ClientCancelDirectly(s)
  PROVE  /\ s \in DirectCancels /\ s \in DOMAIN exchange.active
         /\ exchange' = CancelOrder(exchange, s)
         /\ IsExchange(exchange') /\ exchange'.seen = exchange.seen
         /\ DOMAIN exchange'.active = DOMAIN exchange.active \ {s}
         /\ wiring' = wiring /\ tracker' = tracker /\ gateway' = gateway
         /\ queue' = queue /\ risk' = risk /\ pipeline' = pipeline
         /\ last_risk_reject_reason' = last_risk_reject_reason /\ pc' = pc
<1>1. s \in DOMAIN exchange.active
  BY DEF ClientCancelDirectly, CancelResponse, HasActiveOrder, Rejected
<1>2. exchange' = CancelOrder(exchange, s) /\ IsExchange(exchange)
  BY DEF ClientCancelDirectly, TypeOK
<1>3. /\ IsExchange(exchange') /\ exchange'.seen = exchange.seen
      /\ DOMAIN exchange'.active = DOMAIN exchange.active \ {s}
  BY <1>2, ExchangeCancelEffect
<1> QED BY <1>1, <1>2, <1>3 DEF ClientCancelDirectly, pipelineVars

\* Enqueue registers a new order.
LEMMA EnqueueFollows ==
  ASSUME Inv, NEW o \in Order, EnqueueQueued(o)
  PROVE  /\ Follows(o.sequence_id, "kQueued",
                    {"orders_registered", "orders_queued"})
         /\ pipeline' = Bump(pipeline, {"orders_enqueued"})
<1> DEFINE s == o.sequence_id
           u == RegisterQueued(tracker, s)
<1>1. s \in SeqId /\ tracker \in Tracker
  BY PipelineAssumption DEF Order, Inv, TypeOK
<1>2. wiring.pipeline_tracker =>
        Moved(tracker, u, s, "kQueued", {"orders_registered", "orders_queued"})
  BY <1>1, RegisterQueuedEffect DEF EnqueueQueued, IsKnown
<1>3. tracker' = IF wiring.pipeline_tracker THEN u ELSE tracker
  BY DEF EnqueueQueued, Tracked
<1>4. TrackedOk(u)
  BY <1>2 DEF TrackedOk, Moved
<1>5. {"orders_enqueued"} \cup ErrorCounter(TrackedOk(u)) = {"orders_enqueued"}
  BY <1>4 DEF ErrorCounter
<1>6. pipeline' = Bump(pipeline, {"orders_enqueued"})
  BY <1>5, Zenon DEF EnqueueQueued
<1> QED BY <1>2, <1>3, <1>6 DEF Follows

\* Drain tells the tracker of a rejection by the risk manager.
LEMMA RiskRejectedFollows ==
  ASSUME Inv, DrainRiskRejected
  PROVE  /\ Follows(Popped.sequence_id, "kRiskRejected",
                    {"orders_risk_rejected"})
         /\ last_risk_reject_reason' \in RiskRejectReason \ {"kNone"}
         /\ pipeline' = Bump(pipeline, {"orders_drained", "orders_rejected",
                                        "orders_rejected_by_risk"})
         /\ wiring.risk_manager
         /\ risk' = Check(risk, Popped) /\ ~RiskDecision(Popped).accepted
<1> DEFINE s == Popped.sequence_id
           reason == RiskDecision(Popped).reject_reason
           u == MarkRiskRejected(tracker, s, reason)
           names == {"orders_drained", "orders_rejected",
                     "orders_rejected_by_risk"}
<1>0. queue # <<>> /\ ~PassesRisk(Popped)
  BY DEF DrainRiskRejected, PopOrder, Popped
<1>1. /\ s \in SeqId /\ tracker \in Tracker
      /\ wiring.pipeline_tracker => StateOf(tracker, s) = "kQueued"
  BY <1>0, PoppedIsQueued DEF Inv, TypeOK
<1>2. wiring.risk_manager /\ ~RiskDecision(Popped).accepted
  BY <1>0 DEF PassesRisk
<1>3. reason \in RiskRejectReason \ {"kNone"}
      /\ reason \in RejectReason \ {"kNone"}
  BY <1>2, RiskReasons, ReasonTypes
<1>4. wiring.pipeline_tracker =>
        Moved(tracker, u, s, "kRiskRejected", {"orders_risk_rejected"})
  BY <1>1, <1>3, RiskRejectedEffect
<1>5. tracker' = IF wiring.pipeline_tracker THEN u ELSE tracker
  BY DEF DrainRiskRejected, Tracked, Popped
<1>6. TrackedOk(u)
  BY <1>4 DEF TrackedOk, Moved
<1>7. names \cup ErrorCounter(TrackedOk(u)) = names
  BY <1>6 DEF ErrorCounter
<1>8. pipeline' = Bump(pipeline, names)
  BY <1>7, Zenon DEF DrainRiskRejected, Popped
<1>9. last_risk_reject_reason' = reason /\ risk' = Check(risk, Popped)
  BY <1>2 DEF DrainRiskRejected, PopOrder, Popped
<1> QED BY <1>2, <1>3, <1>4, <1>5, <1>8, <1>9 DEF Follows

\* Two calls that succeed cost no error.
LEMMA DispatchedCleanly ==
  ASSUME TypeOK, NEW outcome, NEW t, NEW u, TrackedOk(t), TrackedOk(u)
  PROVE  Dispatched(outcome, t, u) =
           Bump(pipeline, {"orders_drained"} \cup outcome)
<1> DEFINE b == Bump(pipeline, {"orders_drained"} \cup outcome)
<1>1. b \in [PipelineCounter -> Nat]
  BY BumpType DEF TypeOK
<1>2. Dispatched(outcome, t, u) =
        [b EXCEPT !["lifecycle_transition_errors"] = @ + 0]
  BY DEF Dispatched
<1> HIDE DEF b
<1>3. [b EXCEPT !["lifecycle_transition_errors"] = @ + 0] = b
  BY <1>1 DEF PipelineCounter
<1> QED BY <1>2, <1>3 DEF b

\* Without a gateway the order is sent, for the tracker, and rejected.
LEMMA NoGatewayFollows ==
  ASSUME Inv, DrainNoGateway
  PROVE  /\ Follows(Popped.sequence_id, "kExchangeRejected",
                    {"orders_sent", "orders_exchange_rejected"})
         /\ pipeline' = Bump(pipeline, {"orders_drained"} \cup
                               {"orders_rejected",
                                "orders_rejected_by_gateway"})
<1> DEFINE s == Popped.sequence_id
           t == MarkSent(tracker, s)
           u == MarkExchangeRejected(t, s, "kInvalidSymbol")
<1>1. /\ s \in SeqId /\ tracker \in Tracker
      /\ wiring.pipeline_tracker => StateOf(tracker, s) = "kQueued"
  BY PoppedIsQueued DEF Inv, TypeOK, DrainNoGateway, PopOrder
<1>2. wiring.pipeline_tracker =>
        /\ Moved(tracker, t, s, "kSent", {"orders_sent"})
        /\ Moved(tracker, u, s, "kExchangeRejected",
                 {"orders_sent", "orders_exchange_rejected"})
  BY <1>1, SentEffect, SentRejectedEffect, ReasonTypes
<1>3. tracker' = IF wiring.pipeline_tracker THEN u ELSE tracker
  BY DEF DrainNoGateway, Tracked, Popped
<1>4. TrackedOk(t) /\ TrackedOk(u)
  BY <1>2 DEF TrackedOk, Moved
<1>5. pipeline' = Dispatched({"orders_rejected",
                              "orders_rejected_by_gateway"}, t, u)
  BY DEF DrainNoGateway, Popped
<1> HIDE DEF t, u
<1>6. pipeline' = Bump(pipeline, {"orders_drained"} \cup
                         {"orders_rejected", "orders_rejected_by_gateway"})
  BY <1>4, <1>5, DispatchedCleanly DEF Inv
<1> QED BY <1>2, <1>3, <1>6 DEF Follows

\* Otherwise the tracker follows the gateway's answer.
LEMMA SentFollows ==
  ASSUME Inv, DrainSent
  PROVE  IF SendOrderResponse(Popped).accepted
         THEN /\ Follows(Popped.sequence_id, "kExchangeAccepted",
                         {"orders_sent", "orders_exchange_accepted"})
              /\ pipeline' = Bump(pipeline, {"orders_drained"} \cup
                                    {"orders_accepted"})
         ELSE /\ Follows(Popped.sequence_id, "kExchangeRejected",
                         {"orders_sent", "orders_exchange_rejected"})
              /\ pipeline' = Bump(pipeline, {"orders_drained"} \cup
                                    {"orders_rejected",
                                     "orders_rejected_by_gateway"})
<1> DEFINE s == Popped.sequence_id
           resp == SendOrderResponse(Popped)
           t == MarkSent(tracker, s)
           u == MarkExchangeAccepted(t, s)
           v == MarkExchangeRejected(t, s, resp.reject_reason)
<1>1. /\ s \in SeqId /\ tracker \in Tracker
      /\ wiring.pipeline_tracker => StateOf(tracker, s) = "kQueued"
  BY PoppedIsQueued DEF Inv, TypeOK, DrainSent, PopOrder
<1>2. ~resp.accepted => resp.reject_reason \in RejectReason \ {"kNone"}
  BY SubmitReasons, ReasonTypes DEF SendOrderResponse, Rejected
<1>3. wiring.pipeline_tracker =>
        /\ Moved(tracker, t, s, "kSent", {"orders_sent"})
        /\ Moved(tracker, u, s, "kExchangeAccepted",
                 {"orders_sent", "orders_exchange_accepted"})
        /\ ~resp.accepted =>
             Moved(tracker, v, s, "kExchangeRejected",
                   {"orders_sent", "orders_exchange_rejected"})
  BY <1>1, <1>2, SentEffect, SentAcceptedEffect, SentRejectedEffect
<1>4. TrackedOk(t) /\ TrackedOk(u) /\ (~resp.accepted => TrackedOk(v))
  BY <1>3 DEF TrackedOk, Moved
<1> HIDE DEF t, u, v
<1>5. CASE resp.accepted
  <2>1. tracker' = IF wiring.pipeline_tracker THEN u ELSE tracker
    BY <1>5 DEF DrainSent, Tracked, Popped, t, u
  <2>2. pipeline' = Dispatched({"orders_accepted"}, t, u)
    BY <1>5 DEF DrainSent, Popped, t, u
  <2>3. pipeline' = Bump(pipeline, {"orders_drained"} \cup
                           {"orders_accepted"})
    BY <1>4, <2>2, DispatchedCleanly DEF Inv
  <2> QED BY <1>3, <1>5, <2>1, <2>3 DEF Follows
<1>6. CASE ~resp.accepted
  <2>1. tracker' = IF wiring.pipeline_tracker THEN v ELSE tracker
    BY <1>6 DEF DrainSent, Tracked, Popped, t, v
  <2>2. pipeline' = Dispatched({"orders_rejected",
                                "orders_rejected_by_gateway"}, t, v)
    BY <1>6 DEF DrainSent, Popped, t, v
  <2>3. pipeline' = Bump(pipeline, {"orders_drained"} \cup
                           {"orders_rejected", "orders_rejected_by_gateway"})
    BY <1>4, <1>6, <2>2, DispatchedCleanly DEF Inv
  <2> QED BY <1>3, <1>6, <2>1, <2>3 DEF Follows
<1> QED BY <1>5, <1>6

\* The tracker, if the gateway has one, had the order as accepted and settles
\* the request it was asked to follow.
Settles(s, next, names) ==
  IF wiring.gateway_tracker
  THEN /\ StateOf(tracker, s) = "kExchangeAccepted"
       /\ Moved(tracker, tracker', s, next, names)
  ELSE tracker' = tracker

\* The tracker refused a request, and nothing reached the exchange.
RequestRefused(sent, rejected) ==
  /\ wiring.gateway_tracker
  /\ Refused(tracker, tracker')
  /\ exchange' = exchange
  /\ gateway' = Bump(gateway, {sent, rejected, "lifecycle_transition_errors"})

\* The exchange refused a cancellation or cancelled the order.
CancelRejectedBy(s) ==
  /\ Settles(s, "kExchangeAccepted", {"cancel_requests", "cancels_rejected"})
  /\ exchange' = exchange
  /\ gateway' = Bump(gateway, {"cancels_sent", "cancels_rejected"})

CancelAcceptedBy(s) ==
  /\ Settles(s, "kCancelled", {"cancel_requests", "cancels_accepted"})
  /\ s \in DOMAIN exchange.active
  /\ exchange' = CancelOrder(exchange, s)
  /\ gateway' = Bump(gateway, {"cancels_sent", "cancels_accepted"})

\* There is no fourth outcome of a cancellation: what is pending is settled.
LEMMA CancelOutcomes ==
  ASSUME TypeOK, NEW s \in SeqId, SendCancel(s)
  PROVE  \/ RequestRefused("cancels_sent", "cancels_rejected")
         \/ CancelRejectedBy(s)
         \/ CancelAcceptedBy(s)
<1> DEFINE pending == IF wiring.gateway_tracker
                      THEN MarkCancelPending(tracker, s) ELSE tracker
           resp == IF wiring.gateway_exchange THEN CancelResponse(exchange, s)
                                              ELSE Rejected("kUnknownOrder")
           cancelled == MarkCancelled(pending, s)
           rejected == MarkCancelRejected(pending, s, resp.reject_reason)
           settled == IF resp.accepted THEN cancelled ELSE rejected
<1>0. tracker \in Tracker
  BY DEF TypeOK
<1>1. CASE SendCancelRefused(s)
  <2>1. wiring.gateway_tracker /\ ~Ok(MarkCancelPending(tracker, s))
    BY <1>1 DEF SendCancelRefused
  <2>2. Refused(tracker, MarkCancelPending(tracker, s))
    BY <1>0, <2>1, PendingEffect DEF Moved
  <2> QED BY <1>1, <2>1, <2>2 DEF SendCancelRefused, RequestRefused
<1>2. CASE SendCancelForwarded(s)
  <2>1. /\ wiring.gateway_tracker => Ok(pending)
        /\ tracker' = IF wiring.gateway_tracker THEN settled ELSE tracker
        /\ exchange' = IF resp.accepted THEN CancelOrder(exchange, s)
                                        ELSE exchange
        /\ gateway' = Bump(gateway,
             {"cancels_sent", IF resp.accepted THEN "cancels_accepted"
                                               ELSE "cancels_rejected"}
             \cup ErrorCounter(wiring.gateway_tracker => Ok(settled)))
    BY <1>2 DEF SendCancelForwarded
  <2>2. ~resp.accepted => resp.reject_reason \in RejectReason \ {"kNone"}
    BY CancelReasons, ReasonTypes DEF Rejected
  <2>3. wiring.gateway_tracker => StateOf(tracker, s) = "kExchangeAccepted"
    BY <1>0, <2>1, PendingEffect DEF Refused
  <2>4. wiring.gateway_tracker /\ ~resp.accepted =>
          Moved(tracker, rejected, s, "kExchangeAccepted",
                {"cancel_requests", "cancels_rejected"})
    BY <1>0, <2>2, <2>3, CancelSettledEffect
  <2>5. wiring.gateway_tracker =>
          Moved(tracker, cancelled, s, "kCancelled",
                {"cancel_requests", "cancels_accepted"})
    BY <1>0, <2>3, CancelSettledEffect, ReasonTypes
  <2>6. resp.accepted => s \in DOMAIN exchange.active
    BY DEF CancelResponse, Rejected, HasActiveOrder
  <2>7. wiring.gateway_tracker => Ok(settled)
    BY <2>4, <2>5 DEF Moved
  <2> HIDE DEF cancelled, rejected, resp, pending
  <2>8. CASE resp.accepted
    <3>1. {"cancels_sent", IF resp.accepted THEN "cancels_accepted"
                                            ELSE "cancels_rejected"}
            \cup ErrorCounter(wiring.gateway_tracker => Ok(settled))
            = {"cancels_sent", "cancels_accepted"}
      BY <2>7, <2>8 DEF ErrorCounter
    <3>2. gateway' = Bump(gateway, {"cancels_sent", "cancels_accepted"})
      BY <2>1, <3>1, Zenon
    <3> QED BY <2>1, <2>3, <2>5, <2>6, <2>8, <3>2
            DEF CancelAcceptedBy, Settles
  <2>9. CASE ~resp.accepted
    <3>1. {"cancels_sent", IF resp.accepted THEN "cancels_accepted"
                                            ELSE "cancels_rejected"}
            \cup ErrorCounter(wiring.gateway_tracker => Ok(settled))
            = {"cancels_sent", "cancels_rejected"}
      BY <2>7, <2>9 DEF ErrorCounter
    <3>2. gateway' = Bump(gateway, {"cancels_sent", "cancels_rejected"})
      BY <2>1, <3>1, Zenon
    <3> QED BY <2>1, <2>3, <2>4, <2>9, <3>2 DEF CancelRejectedBy, Settles
  <2> QED BY <2>8, <2>9
<1> QED BY <1>1, <1>2 DEF SendCancel

\* The exchange refused an amendment, or amended the order.
AmendRejectedBy(req) ==
  /\ Settles(req.sequence_id, "kExchangeAccepted",
             {"amend_requests", "amends_rejected"})
  /\ exchange' = exchange
  /\ gateway' = Bump(gateway, {"amends_sent", "amends_rejected"})

AmendAcceptedBy(req) ==
  /\ Settles(req.sequence_id, "kExchangeAccepted",
             {"amend_requests", "amends_accepted"})
  /\ AmendResponse(exchange, req).accepted
  /\ exchange' = AmendOrder(exchange, req)
  /\ gateway' = Bump(gateway, {"amends_sent", "amends_accepted"})

\* There is no fourth outcome of an amendment either.
LEMMA AmendOutcomes ==
  ASSUME TypeOK, NEW req \in AmendRequest, SendAmend(req)
  PROVE  \/ RequestRefused("amends_sent", "amends_rejected")
         \/ AmendRejectedBy(req)
         \/ AmendAcceptedBy(req)
<1> DEFINE s == req.sequence_id
           pending == IF wiring.gateway_tracker
                      THEN MarkAmendPending(tracker, s) ELSE tracker
           resp == IF wiring.gateway_exchange THEN AmendResponse(exchange, req)
                                              ELSE Rejected("kUnknownOrder")
           amended == MarkAmendAccepted(pending, s)
           rejected == MarkAmendRejected(pending, s, resp.reject_reason)
           settled == IF resp.accepted THEN amended ELSE rejected
<1>0. tracker \in Tracker /\ s \in SeqId
  BY DEF TypeOK, AmendRequest
<1>1. CASE SendAmendRefused(req)
  <2>1. wiring.gateway_tracker /\ ~Ok(MarkAmendPending(tracker, s))
    BY <1>1 DEF SendAmendRefused
  <2>2. Refused(tracker, MarkAmendPending(tracker, s))
    BY <1>0, <2>1, PendingEffect DEF Moved
  <2> QED BY <1>1, <2>1, <2>2 DEF SendAmendRefused, RequestRefused
<1>2. CASE SendAmendForwarded(req)
  <2>1. /\ wiring.gateway_tracker => Ok(pending)
        /\ tracker' = IF wiring.gateway_tracker THEN settled ELSE tracker
        /\ exchange' = IF resp.accepted THEN AmendOrder(exchange, req)
                                        ELSE exchange
        /\ gateway' = Bump(gateway,
             {"amends_sent", IF resp.accepted THEN "amends_accepted"
                                              ELSE "amends_rejected"}
             \cup ErrorCounter(wiring.gateway_tracker => Ok(settled)))
    BY <1>2 DEF SendAmendForwarded
  <2>2. ~resp.accepted => resp.reject_reason \in RejectReason \ {"kNone"}
    BY AmendReasons, ReasonTypes DEF Rejected
  <2>3. wiring.gateway_tracker => StateOf(tracker, s) = "kExchangeAccepted"
    BY <1>0, <2>1, PendingEffect DEF Refused
  <2>4. wiring.gateway_tracker /\ ~resp.accepted =>
          Moved(tracker, rejected, s, "kExchangeAccepted",
                {"amend_requests", "amends_rejected"})
    BY <1>0, <2>2, <2>3, AmendSettledEffect
  <2>5. wiring.gateway_tracker =>
          Moved(tracker, amended, s, "kExchangeAccepted",
                {"amend_requests", "amends_accepted"})
    BY <1>0, <2>3, AmendSettledEffect, ReasonTypes
  <2>6. resp.accepted => AmendResponse(exchange, req).accepted
    BY DEF Rejected
  <2>7. wiring.gateway_tracker => Ok(settled)
    BY <2>4, <2>5 DEF Moved
  <2> HIDE DEF amended, rejected, resp, pending
  <2>8. CASE resp.accepted
    <3>1. {"amends_sent", IF resp.accepted THEN "amends_accepted"
                                           ELSE "amends_rejected"}
            \cup ErrorCounter(wiring.gateway_tracker => Ok(settled))
            = {"amends_sent", "amends_accepted"}
      BY <2>7, <2>8 DEF ErrorCounter
    <3>2. gateway' = Bump(gateway, {"amends_sent", "amends_accepted"})
      BY <2>1, <3>1, Zenon
    <3> QED BY <2>1, <2>3, <2>5, <2>6, <2>8, <3>2
            DEF AmendAcceptedBy, Settles
  <2>9. CASE ~resp.accepted
    <3>1. {"amends_sent", IF resp.accepted THEN "amends_accepted"
                                           ELSE "amends_rejected"}
            \cup ErrorCounter(wiring.gateway_tracker => Ok(settled))
            = {"amends_sent", "amends_rejected"}
      BY <2>7, <2>9 DEF ErrorCounter
    <3>2. gateway' = Bump(gateway, {"amends_sent", "amends_rejected"})
      BY <2>1, <3>1, Zenon
    <3> QED BY <2>1, <2>3, <2>4, <2>9, <3>2 DEF AmendRejectedBy, Settles
  <2> QED BY <2>8, <2>9
<1> QED BY <1>1, <1>2 DEF SendAmend

\* SendOrder is SubmitOrder, counted, if there is an exchange.
LEMMA SendOrderEffect ==
  ASSUME TypeOK, NEW o \in Order, SendOrder(o)
  PROVE  /\ IF SendOrderResponse(o).accepted
            THEN /\ SubmitResponse(exchange, o).accepted
                 /\ exchange' = SubmitOrder(exchange, o)
                 /\ gateway' = Bump(gateway, {"orders_sent",
                                              "orders_accepted"})
            ELSE /\ exchange' = exchange
                 /\ gateway' = Bump(gateway, {"orders_sent",
                                              "orders_rejected"})
         /\ IsExchange(exchange')
<1>1. CASE SendOrderResponse(o).accepted
  <2>1. wiring.gateway_exchange /\ SubmitResponse(exchange, o).accepted
    BY <1>1 DEF SendOrderResponse, Rejected
  <2>2. exchange' = SubmitOrder(exchange, o)
    BY <2>1 DEF SendOrder
  <2>3. IsExchange(exchange')
    BY <2>1, <2>2, ExchangeSubmitEffect DEF TypeOK
  <2> QED BY <1>1, <2>1, <2>2, <2>3 DEF SendOrder
<1>2. CASE ~SendOrderResponse(o).accepted
  <2>1. exchange' = exchange
    BY <1>2 DEF SendOrder, SubmitOrder, SendOrderResponse
  <2> QED BY <1>2, <2>1 DEF SendOrder, TypeOK
<1> QED BY <1>1, <1>2

----------------------------------------------------------------------------
(* The invariant is inductive. *)

\* Init establishes the invariant.
LEMMA InitInv == Init => Inv
<1> SUFFICES ASSUME Init PROVE Inv
  OBVIOUS
<1>1. NoRecord \in LifecycleRecord
  BY DEF NoRecord, LifecycleRecord, Absent, RejectReason, RiskRejectReason
<1>2. NewJournal \in Journal
  BY DEF NewJournal, Journal
<1>3. wiring \in Wiring /\ wiring.journal \in BOOLEAN
  BY PipelineAssumption DEF Init, Wiring
<1>4. tracker \in Tracker
  BY <1>1, <1>2, <1>3 DEF Init, NewTracker, Tracker, LifecycleError
<1>5. exchange.seen = {} /\ DOMAIN exchange.active = {}
      /\ exchange = [seen |-> exchange.seen, active |-> exchange.active]
  BY DEF Init, NewExchange
<1>6. exchange.active \in [DOMAIN exchange.active -> Order]
  BY <1>5 DEF Init, NewExchange
<1>7. IsExchange(exchange)
  BY <1>5, <1>6 DEF IsExchange
<1>8. queue \in Seq(Order) /\ Len(queue) = 0 /\ Len(queue) <= Capacity
  BY PipelineAssumption DEF Init
<1>9. TypeOK
  BY <1>3, <1>4, <1>7, <1>8
  DEF Init, TypeOK, NewGateway, NewRiskManager, RiskManager, RiskRejectReason
<1>10. \A s \in SeqId : StateOf(tracker, s) = "absent"
  BY DEF Init, NewTracker, NoRecord, StateOf, Absent
<1>11. QueueMatchesTracker
  BY <1>8, <1>10 DEF QueueMatchesTracker, InState, QueuedIds, StateOf
<1> QED BY <1>9, <1>11 DEF Inv

\* Every step keeps the types.
LEMMA TypeStep == Inv /\ [Step]_vars => TypeOK'
<1> SUFFICES ASSUME Inv, [Step]_vars PROVE TypeOK'
  OBVIOUS
<1>0. /\ wiring \in Wiring /\ tracker \in Tracker /\ IsExchange(exchange)
      /\ gateway \in [GatewayCounter -> Nat]
      /\ queue \in Seq(Order) /\ Len(queue) <= Capacity
      /\ risk \in RiskManager /\ pipeline \in [PipelineCounter -> Nat]
      /\ last_risk_reject_reason \in RiskRejectReason
      /\ pc \in {"idle", "drain"} /\ TypeOK
  BY DEF Inv, TypeOK
<1>a. /\ \A names : Bump(gateway, names) \in [GatewayCounter -> Nat]
      /\ \A names : Bump(pipeline, names) \in [PipelineCounter -> Nat]
      /\ \A o : Check(risk, o) \in RiskManager
  BY <1>0, BumpType DEF Check, RiskManager
<1>b. queue # <<>> => Tail(queue) \in Seq(Order) /\ Len(Tail(queue)) <= Capacity
  BY <1>0, PipelineAssumption, HeadTailProperties
<1>c. \A s, next, names : Follows(s, next, names) => tracker' \in Tracker
  BY <1>0 DEF Follows, Moved
<1>d. \A s, next, names : Settles(s, next, names) => tracker' \in Tracker
  BY <1>0 DEF Settles, Moved
<1>1. ASSUME NEW o \in Order, Enqueue(o)
      PROVE  TypeOK'
  <2>0. o \in Order
    BY PipelineAssumption
  <2>1. CASE EnqueueRejected(o) \/ EnqueueDropped(o)
    <3>1. /\ pipeline' \in [PipelineCounter -> Nat]
          /\ tracker' = tracker /\ queue' = queue
      BY <1>a, <2>1 DEF EnqueueRejected, EnqueueDropped
    <3> QED BY <1>0, <1>1, <3>1 DEF Enqueue, TypeOK
  <2>2. CASE EnqueueQueued(o)
    <3>1. tracker' \in Tracker /\ pipeline' \in [PipelineCounter -> Nat]
      BY <1>a, <1>c, <2>2, EnqueueFollows
    <3>2. queue' = Append(queue, o) /\ Len(queue) # Capacity
      BY <2>2 DEF EnqueueQueued, BufferFull
    <3>3. queue' \in Seq(Order) /\ Len(queue') <= Capacity
      BY <1>0, <2>0, <3>2, PipelineAssumption
    <3> QED BY <1>0, <1>1, <3>1, <3>3 DEF Enqueue, TypeOK
  <2> QED BY <1>1, <2>1, <2>2 DEF Enqueue
<1>2. CASE BeginDrain \/ EndDrain
  BY <1>0, <1>2 DEF BeginDrain, EndDrain, gatewayVars, TypeOK
<1>3. ASSUME PopOrder
      PROVE  /\ queue' \in Seq(Order) /\ Len(queue') <= Capacity
             /\ risk' \in RiskManager /\ wiring' \in Wiring
             /\ pc' \in {"idle", "drain"}
             /\ Popped \in Order
  BY <1>0, <1>3, <1>a, <1>b, PoppedIsQueued DEF PopOrder
<1>4. CASE DrainRiskRejected
  <2>1. /\ tracker' \in Tracker /\ pipeline' \in [PipelineCounter -> Nat]
        /\ last_risk_reject_reason' \in RiskRejectReason
    BY <1>4, <1>a, <1>c, RiskRejectedFollows
  <2>2. PopOrder /\ exchange' = exchange /\ gateway' = gateway
    BY <1>4 DEF DrainRiskRejected
  <2> QED BY <1>0, <1>3, <2>1, <2>2 DEF TypeOK
<1>5. CASE DrainNoGateway
  <2>1. tracker' \in Tracker /\ pipeline' \in [PipelineCounter -> Nat]
    BY <1>5, <1>a, <1>c, NoGatewayFollows
  <2>2. /\ PopOrder /\ exchange' = exchange /\ gateway' = gateway
        /\ last_risk_reject_reason' = last_risk_reject_reason
    BY <1>5 DEF DrainNoGateway
  <2> QED BY <1>0, <1>3, <2>1, <2>2 DEF TypeOK
<1>6. CASE DrainSent
  <2>1. tracker' \in Tracker /\ pipeline' \in [PipelineCounter -> Nat]
    BY <1>6, <1>a, <1>c, SentFollows
  <2>2. /\ PopOrder /\ SendOrder(Popped)
        /\ last_risk_reject_reason' = last_risk_reject_reason
    BY <1>6 DEF DrainSent, Popped
  <2>3. IsExchange(exchange') /\ gateway' \in [GatewayCounter -> Nat]
    BY <1>0, <1>3, <1>a, <2>2, SendOrderEffect
  <2> QED BY <1>0, <1>3, <2>1, <2>2, <2>3 DEF TypeOK
<1>7. ASSUME NEW s \in SeqId, ClientCancel(s)
      PROVE  TypeOK'
  <2>1. \/ RequestRefused("cancels_sent", "cancels_rejected")
        \/ CancelRejectedBy(s) \/ CancelAcceptedBy(s)
    BY <1>0, <1>7, CancelOutcomes DEF ClientCancel
  <2>2. /\ tracker' \in Tracker /\ IsExchange(exchange')
        /\ gateway' \in [GatewayCounter -> Nat]
    BY <1>0, <1>a, <1>d, <2>1, ExchangeCancelEffect
    DEF RequestRefused, CancelRejectedBy, CancelAcceptedBy, Refused
  <2> QED BY <1>0, <1>7, <2>2 DEF ClientCancel, pipelineVars, TypeOK
<1>8. ASSUME NEW req \in Amends, ClientAmend(req)
      PROVE  TypeOK'
  <2>0. req \in AmendRequest
    BY PipelineAssumption
  <2>1. \/ RequestRefused("amends_sent", "amends_rejected")
        \/ AmendRejectedBy(req) \/ AmendAcceptedBy(req)
    BY <1>0, <1>8, <2>0, AmendOutcomes DEF ClientAmend
  <2>2. tracker' \in Tracker /\ gateway' \in [GatewayCounter -> Nat]
    BY <1>a, <1>d, <2>1
    DEF RequestRefused, AmendRejectedBy, AmendAcceptedBy, Refused
  <2>3. IsExchange(exchange')
    <3>1. CASE AmendResponse(exchange, req).accepted
               /\ exchange' = AmendOrder(exchange, req)
      BY <1>0, <2>0, <3>1, ExchangeAmendEffect
    <3>2. CASE exchange' = exchange
      BY <1>0, <3>2
    <3> QED BY <2>1, <3>1, <3>2
            DEF RequestRefused, AmendRejectedBy, AmendAcceptedBy
  <2> QED BY <1>0, <1>8, <2>2, <2>3 DEF ClientAmend, pipelineVars, TypeOK
<1>9. ASSUME NEW o \in Order, ClientSend(o)
      PROVE  TypeOK'
  <2>0. o \in Order /\ SendOrder(o)
    BY <1>9, PipelineAssumption DEF ClientSend
  <2>1. IsExchange(exchange') /\ gateway' \in [GatewayCounter -> Nat]
    BY <1>0, <1>a, <2>0, SendOrderEffect
  <2> QED BY <1>0, <1>9, <2>1 DEF ClientSend, pipelineVars, TypeOK
<1>10. CASE UNCHANGED vars
  BY <1>0, <1>10 DEF vars, TypeOK
<1>11. ASSUME NEW s \in SeqId, ClientCancelDirectly(s)
       PROVE  TypeOK'
  BY <1>0, <1>11, DirectCancelEffect DEF TypeOK
<1> QED BY <1>1, <1>2, <1>4, <1>5, <1>6, <1>7, <1>8, <1>9, <1>10, <1>11
        DEF Step, DrainStep

\* The ids in a queue, and that it has none of them twice.
Ids(q) == {q[i].sequence_id : i \in 1..Len(q)}

Distinct(q) ==
  \A i, k \in 1..Len(q) : q[i].sequence_id = q[k].sequence_id => i = k

\* A queue without its head has one id less.
LEMMA PoppedIds ==
  ASSUME NEW q \in Seq(Order), q # <<>>, Distinct(q)
  PROVE  /\ Ids(Tail(q)) = Ids(q) \ {q[1].sequence_id}
         /\ Distinct(Tail(q))
<1> USE DEF Distinct
<1> DEFINE r == Tail(q)
<1>1. /\ Len(q) \in Nat \ {0} /\ Len(r) = Len(q) - 1
      /\ \A i \in 1..Len(r) : r[i] = q[i + 1]
  BY HeadTailProperties, EmptySeq
<1> HIDE DEF r
<1>2. ASSUME NEW i \in 1..Len(r)
      PROVE  /\ r[i].sequence_id \in {q[k].sequence_id : k \in 1..Len(q)}
             /\ r[i].sequence_id # q[1].sequence_id
  <2>1. i + 1 \in 1..Len(q) /\ 1 \in 1..Len(q) /\ i + 1 # 1
    BY <1>1
  <2> QED BY <1>1, <2>1
<1>3. ASSUME NEW k \in 1..Len(q), q[k].sequence_id # q[1].sequence_id
      PROVE  q[k].sequence_id \in {r[i].sequence_id : i \in 1..Len(r)}
  <2>1. k # 1
    BY <1>3
  <2>2. k - 1 \in 1..Len(r) /\ (k - 1) + 1 = k
    BY <1>1, <2>1
  <2>3. r[k - 1] = q[k]
    BY <1>1, <2>2
  <2> QED BY <2>2, <2>3
<1>4. \A i, k \in 1..Len(r) : r[i].sequence_id = r[k].sequence_id => i = k
  <2> SUFFICES ASSUME NEW i \in 1..Len(r), NEW k \in 1..Len(r),
                      r[i].sequence_id = r[k].sequence_id
               PROVE  i = k
    OBVIOUS
  <2>1. i + 1 \in 1..Len(q) /\ k + 1 \in 1..Len(q)
    BY <1>1
  <2>2. i + 1 = k + 1
    BY <1>1, <2>1
  <2> QED BY <2>2
<1>5. Ids(r) = Ids(q) \ {q[1].sequence_id}
  <2>1. \A x \in Ids(r) : x \in Ids(q) \ {q[1].sequence_id}
    BY <1>2 DEF Ids
  <2>2. \A x \in Ids(q) \ {q[1].sequence_id} : x \in Ids(r)
    BY <1>3 DEF Ids
  <2> QED BY <2>1, <2>2
<1> QED BY <1>4, <1>5 DEF r

\* A queue with a new order at its end has one id more.
LEMMA AppendedIds ==
  ASSUME NEW q \in Seq(Order), NEW o \in Order,
         Distinct(q), o.sequence_id \notin Ids(q)
  PROVE  /\ Ids(Append(q, o)) = Ids(q) \cup {o.sequence_id}
         /\ Distinct(Append(q, o))
<1> USE DEF Ids, Distinct
<1> DEFINE r == Append(q, o)
<1>1. /\ Len(q) \in Nat /\ Len(r) = Len(q) + 1
      /\ \A i \in 1..Len(q) : r[i] = q[i]
      /\ r[Len(q) + 1] = o
  BY AppendProperties, LenProperties
<1> HIDE DEF r
<1>2. \A i \in 1..Len(r) : i \in 1..Len(q) \/ i = Len(q) + 1
  BY <1>1
<1>3. 1..Len(q) \subseteq 1..Len(r) /\ Len(q) + 1 \in 1..Len(r)
  BY <1>1
<1>4. Ids(r) = Ids(q) \cup {o.sequence_id}
  BY <1>1, <1>2, <1>3
<1>5. \A i, k \in 1..Len(r) : r[i].sequence_id = r[k].sequence_id => i = k
  BY <1>1, <1>2
<1> QED BY <1>4, <1>5 DEF r

\* A step that leaves the queue alone and moves an order between states that
\* a call may leave it in keeps the queue and the tracker in agreement.
LEMMA MovedElsewhere ==
  ASSUME QueueMatchesTracker, wiring' = wiring, queue' = queue,
         NEW s \in SeqId, NEW next, NEW names,
         next \notin {"kQueued", "kCreated", "kSent", "kCancelPending",
                      "kAmendPending"},
         StateOf(tracker, s) # "kQueued",
         Moved(tracker, tracker', s, next, names)
  PROVE  QueueMatchesTracker'
<1>1. \A state \in {"kQueued", "kCreated", "kSent", "kCancelPending",
                    "kAmendPending"} :
        InState(tracker', state) = InState(tracker, state) \ {s}
  BY MovedInState
<1>2. s \notin InState(tracker, "kQueued")
  BY DEF InState, StateOf
<1> QED BY <1>1, <1>2 DEF QueueMatchesTracker, QueuedIds

\* So does a step that changes no record.
LEMMA RecordsUnchanged ==
  ASSUME QueueMatchesTracker, wiring' = wiring, queue' = queue,
         tracker'.records = tracker.records
  PROVE  QueueMatchesTracker'
BY DEF QueueMatchesTracker, QueuedIds, InState

\* An order popped is no longer queued, for both.
LEMMA PopStep ==
  ASSUME Inv, PopOrder,
         NEW next \in {"kRiskRejected", "kExchangeAccepted",
                       "kExchangeRejected"},
         NEW names, Follows(Popped.sequence_id, next, names)
  PROVE  QueueMatchesTracker'
<1> SUFFICES ASSUME wiring.pipeline_tracker
             PROVE  QueueMatchesTracker'
  BY DEF PopOrder, QueueMatchesTracker
<1> DEFINE s == Popped.sequence_id
<1>1. /\ queue # <<>> /\ queue' = Tail(queue) /\ wiring' = wiring
      /\ queue \in Seq(Order)
  BY DEF PopOrder, Inv, TypeOK
<1>2. s \in SeqId /\ s = queue[1].sequence_id
  BY <1>1, PoppedIsQueued
<1>3. /\ InState(tracker, "kQueued") = QueuedIds
      /\ Distinct(queue)
      /\ \A state \in {"kCreated", "kSent", "kCancelPending",
                       "kAmendPending"} : InState(tracker, state) = {}
  BY DEF Inv, QueueMatchesTracker, Distinct
<1>4. /\ InState(tracker', "kQueued") = InState(tracker, "kQueued") \ {s}
      /\ \A state \in {"kCreated", "kSent", "kCancelPending",
                       "kAmendPending"} : InState(tracker', state) = {}
  <2>1. Moved(tracker, tracker', s, next, names)
    BY DEF Follows
  <2> HIDE DEF s
  <2>2. \A state : state # next =>
          InState(tracker', state) = InState(tracker, state) \ {s}
    BY <1>2, <2>1, MovedInState
  <2> QED BY <1>3, <2>2
<1>5. /\ QueuedIds' = QueuedIds \ {s}
      /\ Distinct(queue')
  <2>1. /\ Ids(Tail(queue)) = Ids(queue) \ {queue[1].sequence_id}
        /\ Distinct(Tail(queue))
    BY <1>1, <1>3, PoppedIds
  <2>2. QueuedIds = Ids(queue) /\ QueuedIds' = Ids(queue')
    BY DEF QueuedIds, Ids
  <2> QED BY <1>1, <1>2, <2>1, <2>2
<1> HIDE DEF s
<1>6. InState(tracker', "kQueued") = QueuedIds'
  BY <1>3, <1>4, <1>5, Zenon
<1> QED BY <1>4, <1>5, <1>6, Zenon DEF QueueMatchesTracker, Distinct

\* Every step keeps the queue and the tracker in agreement.
LEMMA QueueStep == Inv /\ [Step]_vars => QueueMatchesTracker'
<1> SUFFICES ASSUME Inv, [Step]_vars PROVE QueueMatchesTracker'
  OBVIOUS
<1>0. TypeOK /\ QueueMatchesTracker /\ queue \in Seq(Order)
  BY DEF Inv, TypeOK
<1>1. ASSUME NEW o \in Order, Enqueue(o)
      PROVE  QueueMatchesTracker'
  <2>0. o \in Order /\ o.sequence_id \in SeqId /\ wiring' = wiring
    BY <1>1, PipelineAssumption DEF Order, Enqueue
  <2>1. CASE EnqueueRejected(o) \/ EnqueueDropped(o)
    <3>1. queue' = queue /\ tracker' = tracker
      BY <2>1 DEF EnqueueRejected, EnqueueDropped
    <3> QED BY <1>0, <2>0, <3>1, RecordsUnchanged
  <2>2. CASE EnqueueQueued(o) /\ wiring.pipeline_tracker
    <3> DEFINE s == o.sequence_id
    <3>1. Moved(tracker, tracker', s, "kQueued",
                {"orders_registered", "orders_queued"})
      BY <2>2, EnqueueFollows DEF Follows
    <3>2. queue' = Append(queue, o) /\ StateOf(tracker, s) = "absent"
      BY <2>2 DEF EnqueueQueued, IsKnown, Contains, StateOf, Absent
    <3>3. /\ InState(tracker, "kQueued") = QueuedIds
          /\ Distinct(queue)
          /\ \A state \in {"kCreated", "kSent", "kCancelPending",
                           "kAmendPending"} : InState(tracker, state) = {}
      BY <1>0, <2>2 DEF QueueMatchesTracker, Distinct
    <3>4. s \notin QueuedIds
      BY <3>2, <3>3 DEF InState, StateOf
    <3>5. /\ QueuedIds' = QueuedIds \cup {s}
          /\ Distinct(queue')
      BY <1>0, <2>0, <3>2, <3>3, <3>4, AppendedIds DEF QueuedIds, Ids
    <3>6. /\ InState(tracker', "kQueued") =
               InState(tracker, "kQueued") \cup {s}
          /\ \A state \in {"kCreated", "kSent", "kCancelPending",
                           "kAmendPending"} : InState(tracker', state) = {}
      <4>1. \A state : InState(tracker', state) =
                         IF state = "kQueued"
                         THEN InState(tracker, state) \cup {s}
                         ELSE InState(tracker, state) \ {s}
        BY <2>0, <3>1, MovedInState
      <4> HIDE DEF s
      <4> QED BY <3>3, <4>1
    <3> HIDE DEF s
    <3>7. InState(tracker', "kQueued") = QueuedIds'
      BY <3>3, <3>5, <3>6, Zenon
    <3> QED BY <3>5, <3>6, <3>7, Zenon DEF QueueMatchesTracker, Distinct
  <2>3. CASE EnqueueQueued(o) /\ ~wiring.pipeline_tracker
    BY <2>0, <2>3 DEF QueueMatchesTracker
  <2> QED BY <1>1, <2>1, <2>2, <2>3 DEF Enqueue
<1>2. CASE BeginDrain \/ EndDrain
  BY <1>0, <1>2, RecordsUnchanged DEF BeginDrain, EndDrain, gatewayVars
<1>3. CASE DrainRiskRejected
  BY <1>3, PopStep, RiskRejectedFollows DEF DrainRiskRejected
<1>4. CASE DrainNoGateway
  BY <1>4, PopStep, NoGatewayFollows DEF DrainNoGateway
<1>5. CASE DrainSent
  <2>1. PopOrder
    BY <1>5 DEF DrainSent
  <2> QED BY <1>5, <2>1, PopStep, SentFollows
<1>6. ASSUME wiring' = wiring, queue' = queue,
             NEW s \in SeqId, NEW next \in {"kExchangeAccepted", "kCancelled"},
             NEW names, Settles(s, next, names)
      PROVE  QueueMatchesTracker'
  <2>1. CASE wiring.gateway_tracker
    BY <1>0, <1>6, <2>1, MovedElsewhere DEF Settles
  <2>2. CASE ~wiring.gateway_tracker
    BY <1>0, <1>6, <2>2, RecordsUnchanged DEF Settles
  <2> QED BY <2>1, <2>2
<1>7. ASSUME NEW s \in SeqId, ClientCancel(s)
      PROVE  QueueMatchesTracker'
  <2>1. wiring' = wiring /\ queue' = queue /\ SendCancel(s)
    BY <1>7 DEF ClientCancel, pipelineVars
  <2>2. CASE RequestRefused("cancels_sent", "cancels_rejected")
    BY <1>0, <2>1, <2>2, RecordsUnchanged DEF RequestRefused, Refused
  <2>3. CASE CancelRejectedBy(s) \/ CancelAcceptedBy(s)
    BY <1>6, <2>1, <2>3 DEF CancelRejectedBy, CancelAcceptedBy
  <2> QED BY <1>0, <2>1, <2>2, <2>3, CancelOutcomes
<1>8. ASSUME NEW req \in Amends, ClientAmend(req)
      PROVE  QueueMatchesTracker'
  <2>1. /\ wiring' = wiring /\ queue' = queue /\ SendAmend(req)
        /\ req \in AmendRequest /\ req.sequence_id \in SeqId
    BY <1>8, PipelineAssumption DEF ClientAmend, pipelineVars, AmendRequest
  <2>2. CASE RequestRefused("amends_sent", "amends_rejected")
    BY <1>0, <2>1, <2>2, RecordsUnchanged DEF RequestRefused, Refused
  <2>3. CASE AmendRejectedBy(req) \/ AmendAcceptedBy(req)
    BY <1>6, <2>1, <2>3 DEF AmendRejectedBy, AmendAcceptedBy
  <2> QED BY <1>0, <2>1, <2>2, <2>3, AmendOutcomes
<1>9. ASSUME NEW o \in Order, ClientSend(o)
      PROVE  QueueMatchesTracker'
  BY <1>0, <1>9, RecordsUnchanged DEF ClientSend, pipelineVars
<1>10. CASE UNCHANGED vars
  BY <1>0, <1>10, RecordsUnchanged DEF vars
<1>11. ASSUME NEW s \in SeqId, ClientCancelDirectly(s)
       PROVE  QueueMatchesTracker'
  BY <1>0, <1>11, RecordsUnchanged, DirectCancelEffect
<1> QED BY <1>1, <1>2, <1>3, <1>4, <1>5, <1>7, <1>8, <1>9, <1>10, <1>11
        DEF Step, DrainStep

\* The two together.
LEMMA InvHolds == Spec => []Inv
<1>1. Inv /\ [Step]_vars => Inv'
  BY TypeStep, QueueStep DEF Inv
<1> QED BY <1>1, InitInv, NextIsStep, PTL DEF Spec

\* Every component keeps its types, however the components are wired and
\* whatever the client asks for.
THEOREM PipelineTypes == Spec => []TypeOK
<1>1. Inv => TypeOK
  BY DEF Inv
<1> QED BY <1>1, InvHolds, PTL

\* The buffer holds exactly the orders that the tracker has as queued, each
\* once, and no call leaves an order half way.
THEOREM QueueAndTrackerAgree == Spec => []QueueMatchesTracker
<1>1. Inv => QueueMatchesTracker
  BY DEF Inv
<1> QED BY <1>1, InvHolds, PTL

----------------------------------------------------------------------------
(* The error counters. *)

\* The counters that OnlyRefusalsErr is about.
LEMMA ErrorCounters ==
  /\ "lifecycle_transition_errors" \in PipelineCounter
  /\ {"lifecycle_transition_errors", "cancels_sent", "amends_sent"}
       \subseteq GatewayCounter
  /\ {"transition_errors", "cancel_requests", "amend_requests"}
       \subseteq TrackerCounter
BY DEF PipelineCounter, GatewayCounter, TrackerCounter

\* A move by the pipeline touches none of the tracker's.
TrackerQuiet ==
  \A c \in {"transition_errors", "cancel_requests", "amend_requests"} :
    tracker'.count[c] = tracker.count[c]

\* Follow, said of the counters TrackerQuiet is about: the tracker calls of
\* Enqueue and Drain never touch them.
LEMMA FollowsQuietly ==
  ASSUME TypeOK, NEW s, NEW next,
         NEW names \in SUBSET {"orders_registered", "orders_queued",
                               "orders_risk_rejected", "orders_sent",
                               "orders_exchange_accepted",
                               "orders_exchange_rejected"},
         Follows(s, next, names)
  PROVE  TrackerQuiet
<1>1. CASE wiring.pipeline_tracker
  <2>1. tracker'.count = Bump(tracker.count, names)
    BY <1>1 DEF Follows, Moved
  <2>2. tracker.count \in [TrackerCounter -> Nat]
    BY DEF TypeOK, Tracker
  <2> QED BY <2>1, <2>2, BumpValue, ErrorCounters DEF TrackerQuiet
<1>2. CASE ~wiring.pipeline_tracker
  BY <1>2 DEF Follows, TrackerQuiet
<1> QED BY <1>1, <1>2

\* Only requests that the tracker refuses count as errors, and only at the
\* gateway.
LEMMA ErrorStep ==
  Inv /\ OnlyRefusalsErr /\ [Step]_vars => OnlyRefusalsErr'
<1> SUFFICES ASSUME Inv, OnlyRefusalsErr, [Step]_vars
             PROVE  OnlyRefusalsErr'
  OBVIOUS
<1>0. /\ TypeOK /\ pipeline \in [PipelineCounter -> Nat]
      /\ gateway \in [GatewayCounter -> Nat]
      /\ tracker.count \in [TrackerCounter -> Nat]
  BY DEF Inv, TypeOK, Tracker
<1> DEFINE err == "lifecycle_transition_errors"
           PipelineQuiet == pipeline'[err] = pipeline[err]
           GatewayQuiet ==
             \A c \in {err, "cancels_sent", "amends_sent"} :
               gateway'[c] = gateway[c]
<1>a. ASSUME PipelineQuiet, GatewayQuiet, TrackerQuiet, wiring' = wiring
      PROVE  OnlyRefusalsErr'
  BY <1>a DEF OnlyRefusalsErr, TrackerQuiet
<1>b. ASSUME NEW names, err \notin names, pipeline' = Bump(pipeline, names)
      PROVE  PipelineQuiet
  BY <1>0, <1>b, BumpValue, ErrorCounters
<1> HIDE DEF PipelineQuiet
<1>1. ASSUME NEW o \in Order, Enqueue(o)
      PROVE  OnlyRefusalsErr'
  <2>1. wiring' = wiring /\ GatewayQuiet
    BY <1>1 DEF Enqueue
  <2>2. CASE EnqueueRejected(o)
    <3>1. TrackerQuiet /\ pipeline' =
            Bump(pipeline, {"orders_rejected_by_lifecycle_on_enqueue"})
      BY <2>2 DEF EnqueueRejected, TrackerQuiet
    <3> QED BY <1>a, <1>b, <2>1, <3>1
  <2>3. CASE EnqueueDropped(o)
    <3>1. TrackerQuiet /\ pipeline' =
            Bump(pipeline, {"orders_dropped_on_enqueue"})
      BY <2>3 DEF EnqueueDropped, TrackerQuiet
    <3> QED BY <1>a, <1>b, <2>1, <3>1
  <2>4. CASE EnqueueQueued(o)
    <3>1. Follows(o.sequence_id, "kQueued",
                  {"orders_registered", "orders_queued"})
      BY <2>4, EnqueueFollows
    <3>2. TrackerQuiet
      BY <1>0, <3>1, FollowsQuietly
    <3>3. PipelineQuiet
      BY <1>b, <2>4, EnqueueFollows
    <3> QED BY <1>a, <2>1, <3>2, <3>3
  <2> QED BY <1>1, <2>2, <2>3, <2>4 DEF Enqueue
<1>2. CASE BeginDrain \/ EndDrain \/ UNCHANGED vars
  BY <1>2 DEF BeginDrain, EndDrain, vars, gatewayVars, OnlyRefusalsErr
<1>3. CASE DrainRiskRejected
  <2>1. TrackerQuiet
    BY <1>0, <1>3, RiskRejectedFollows, FollowsQuietly
  <2>2. PipelineQuiet
    BY <1>3, <1>b, RiskRejectedFollows
  <2> QED BY <1>3, <1>a, <2>1, <2>2 DEF DrainRiskRejected, PopOrder
<1>4. CASE DrainNoGateway
  <2>1. TrackerQuiet
    BY <1>0, <1>4, NoGatewayFollows, FollowsQuietly
  <2>2. PipelineQuiet
    BY <1>4, <1>b, NoGatewayFollows
  <2> QED BY <1>4, <1>a, <2>1, <2>2 DEF DrainNoGateway, PopOrder
<1>c. ASSUME NEW o \in Order, SendOrder(o)
      PROVE  GatewayQuiet
  <2>1. PICK answer \in {"orders_accepted", "orders_rejected"} :
          gateway' = Bump(gateway, {"orders_sent", answer})
    BY <1>c DEF SendOrder
  <2> QED BY <1>0, <2>1, BumpValue, ErrorCounters
<1>5. CASE DrainSent
  <2>1. TrackerQuiet
    BY <1>0, <1>5, SentFollows, FollowsQuietly
  <2>2. PipelineQuiet
    BY <1>5, <1>b, SentFollows
  <2>3. /\ SendOrder(Popped) /\ Popped \in Order /\ wiring' = wiring
    BY <1>5, PoppedIsQueued DEF DrainSent, PopOrder, Popped
  <2> QED BY <1>a, <1>c, <2>1, <2>2, <2>3
<1>6. ASSUME NEW o \in Order, ClientSend(o)
      PROVE  OnlyRefusalsErr'
  <2>1. /\ SendOrder(o) /\ o \in Order /\ wiring' = wiring
        /\ PipelineQuiet /\ TrackerQuiet
    BY <1>6, PipelineAssumption
    DEF ClientSend, pipelineVars, PipelineQuiet, TrackerQuiet
  <2> QED BY <1>a, <1>c, <2>1
<1>d. ASSUME NEW sent \in {"cancels_sent", "amends_sent"},
             NEW rejected \in {"cancels_rejected", "amends_rejected"},
             RequestRefused(sent, rejected), PipelineQuiet, wiring' = wiring
      PROVE  OnlyRefusalsErr'
  <2>1. /\ tracker'.count["transition_errors"] =
             tracker.count["transition_errors"] + 1
        /\ tracker'.count["cancel_requests"] = tracker.count["cancel_requests"]
        /\ tracker'.count["amend_requests"] = tracker.count["amend_requests"]
    BY <1>d DEF RequestRefused, Refused, CallCounter, TrackerCounter
  <2>2. /\ gateway'[err] = gateway[err] + 1
        /\ gateway'["cancels_sent"] + gateway'["amends_sent"] =
             gateway["cancels_sent"] + gateway["amends_sent"] + 1
    BY <1>0, <1>d, BumpValue, ErrorCounters DEF RequestRefused
  <2> QED BY <1>0, <1>d, <2>1, <2>2, ErrorCounters
          DEF OnlyRefusalsErr, PipelineQuiet
<1>e. ASSUME NEW sent \in {"cancels_sent", "amends_sent"},
             NEW request \in RequestCounter,
             NEW answer \in {"cancels_rejected", "amends_rejected",
                             "cancels_accepted", "amends_accepted"},
             NEW outcome \in {"cancels_rejected", "amends_rejected",
                              "cancels_accepted", "amends_accepted"},
             NEW s, NEW next, Settles(s, next, {request, outcome}),
             gateway' = Bump(gateway, {sent, answer}),
             PipelineQuiet, wiring' = wiring
      PROVE  OnlyRefusalsErr'
  <2>1. /\ gateway'[err] = gateway[err]
        /\ gateway'["cancels_sent"] + gateway'["amends_sent"] =
             gateway["cancels_sent"] + gateway["amends_sent"] + 1
    BY <1>0, <1>e, BumpValue, ErrorCounters
  <2>2. CASE wiring.gateway_tracker
    <3>1. tracker'.count = Bump(tracker.count, {request, outcome})
      BY <1>e, <2>2 DEF Settles, Moved
    <3>2. /\ tracker'.count["transition_errors"] =
               tracker.count["transition_errors"]
          /\ tracker'.count["cancel_requests"]
               + tracker'.count["amend_requests"] =
               tracker.count["cancel_requests"]
               + tracker.count["amend_requests"] + 1
      BY <1>0, <1>e, <3>1, BumpValue, ErrorCounters DEF RequestCounter
    <3> QED BY <1>0, <1>e, <2>1, <2>2, <3>2, ErrorCounters
            DEF OnlyRefusalsErr, PipelineQuiet
  <2>3. CASE ~wiring.gateway_tracker
    BY <1>e, <2>1, <2>3 DEF Settles, OnlyRefusalsErr, PipelineQuiet
  <2> QED BY <2>2, <2>3
<1>7. ASSUME NEW s \in SeqId, ClientCancel(s)
      PROVE  OnlyRefusalsErr'
  <2>1. wiring' = wiring /\ PipelineQuiet /\ SendCancel(s)
    BY <1>7 DEF ClientCancel, pipelineVars, PipelineQuiet
  <2>2. CASE CancelRejectedBy(s)
    BY <1>e, <2>1, <2>2 DEF CancelRejectedBy, RequestCounter
  <2>3. CASE CancelAcceptedBy(s)
    BY <1>e, <2>1, <2>3 DEF CancelAcceptedBy, RequestCounter
  <2> QED BY <1>0, <1>d, <2>1, <2>2, <2>3, CancelOutcomes
<1>8. ASSUME NEW req \in Amends, ClientAmend(req)
      PROVE  OnlyRefusalsErr'
  <2>1. /\ wiring' = wiring /\ PipelineQuiet /\ SendAmend(req)
        /\ req \in AmendRequest
    BY <1>8, PipelineAssumption DEF ClientAmend, pipelineVars, PipelineQuiet
  <2>2. CASE AmendRejectedBy(req)
    BY <1>e, <2>1, <2>2 DEF AmendRejectedBy, RequestCounter
  <2>3. CASE AmendAcceptedBy(req)
    BY <1>e, <2>1, <2>3 DEF AmendAcceptedBy, RequestCounter
  <2> QED BY <1>0, <1>d, <2>1, <2>2, <2>3, AmendOutcomes
<1>9. ASSUME NEW s \in SeqId, ClientCancelDirectly(s)
      PROVE  OnlyRefusalsErr'
  <2>1. /\ wiring' = wiring /\ tracker' = tracker /\ gateway' = gateway
        /\ pipeline' = pipeline
    BY <1>0, <1>9, DirectCancelEffect
  <2> QED BY <2>1 DEF OnlyRefusalsErr
<1> QED BY <1>1, <1>2, <1>3, <1>4, <1>5, <1>6, <1>7, <1>8, <1>9
        DEF Step, DrainStep

\* The pipeline never makes a call the tracker refuses, and the gateway's
\* errors are exactly the requests the tracker refused.
THEOREM OnlyRefusalsAreErrors == Spec => []OnlyRefusalsErr
<1>1. Init => OnlyRefusalsErr
  BY ErrorCounters DEF Init, OnlyRefusalsErr, NewTracker, NewGateway
<1>2. Inv /\ OnlyRefusalsErr /\ [Step]_vars => OnlyRefusalsErr'
  BY ErrorStep
<1> QED BY <1>1, <1>2, InvHolds, NextIsStep, PTL DEF Spec

----------------------------------------------------------------------------
(* The exchange's book. *)

\* The ways a step changes the exchange.
ExchangeSubmits(o) ==
  /\ SubmitResponse(exchange, o).accepted
  /\ exchange' = SubmitOrder(exchange, o)

ExchangeCancels(s) == exchange' = CancelOrder(exchange, s)

ExchangeAmends(req) ==
  /\ AmendResponse(exchange, req).accepted
  /\ exchange' = AmendOrder(exchange, req)

\* An order that reaches the exchange from Drain was popped, and passed.
LEMMA ExchangeStep ==
  ASSUME Inv, [Step]_vars
  PROVE  \/ exchange' = exchange
         \/ \E o \in Order :
              /\ ExchangeSubmits(o)
              /\ wiring.risk_manager /\ pc = "drain" => RiskDecision(o).accepted
         \/ \E s \in SeqId : ExchangeCancels(s)
         \/ \E req \in AmendRequest : ExchangeAmends(req)
<1>0. TypeOK
  BY DEF Inv
<1>1. CASE \/ \E o \in Order : Enqueue(o)
           \/ BeginDrain \/ EndDrain \/ DrainRiskRejected \/ DrainNoGateway
           \/ UNCHANGED vars
  BY <1>1 DEF Enqueue, BeginDrain, EndDrain, DrainRiskRejected,
              DrainNoGateway, gatewayVars, vars
<1>2. CASE DrainSent
  <2>1. /\ SendOrder(Popped) /\ Popped \in Order
        /\ wiring.risk_manager => RiskDecision(Popped).accepted
    BY <1>2, PoppedIsQueued DEF DrainSent, PopOrder, Popped, PassesRisk
  <2> QED BY <1>0, <2>1, SendOrderEffect DEF ExchangeSubmits
<1>3. ASSUME NEW o \in Order, ClientSend(o)
      PROVE  \/ exchange' = exchange
             \/ ExchangeSubmits(o) /\ pc = "idle" /\ o \in Order
  <2>1. SendOrder(o) /\ o \in Order /\ pc = "idle"
    BY <1>3, PipelineAssumption DEF ClientSend
  <2> QED BY <1>0, <2>1, SendOrderEffect DEF ExchangeSubmits
<1>4. ASSUME NEW s \in SeqId, ClientCancel(s)
      PROVE  exchange' = exchange \/ ExchangeCancels(s)
  <2>1. SendCancel(s)
    BY <1>4 DEF ClientCancel
  <2> QED BY <1>0, <2>1, CancelOutcomes
          DEF RequestRefused, CancelRejectedBy, CancelAcceptedBy,
              ExchangeCancels
<1>5. ASSUME NEW req \in Amends, ClientAmend(req)
      PROVE  \/ exchange' = exchange
             \/ ExchangeAmends(req) /\ req \in AmendRequest
  <2>1. SendAmend(req) /\ req \in AmendRequest
    BY <1>5, PipelineAssumption DEF ClientAmend
  <2> QED BY <1>0, <2>1, AmendOutcomes
          DEF RequestRefused, AmendRejectedBy, AmendAcceptedBy, ExchangeAmends
<1>6. ASSUME NEW s \in SeqId, ClientCancelDirectly(s)
      PROVE  ExchangeCancels(s)
  BY <1>0, <1>6, DirectCancelEffect DEF ExchangeCancels
<1> QED BY <1>1, <1>2, <1>3, <1>4, <1>5, <1>6 DEF Step, DrainStep

\* Every order on the book is tradable: an amendment may exceed the risk
\* limits, but not that.
BookIsTradable ==
  \A s \in DOMAIN exchange.active : IsTradable(exchange.active[s])

\* The action that BookOnlyMovesForward allows.
MovesForward ==
  /\ exchange.seen \subseteq exchange'.seen
  /\ \A s \in DOMAIN exchange'.active :
       LET o == exchange'.active[s]
       IN  /\ IsTradable(o)
           /\ s \notin DOMAIN exchange.active =>
                /\ s \notin exchange.seen
                /\ wiring.risk_manager /\ pc = "drain" => WithinLimits(o)
           /\ s \in DOMAIN exchange.active =>
                /\ o.symbol = exchange.active[s].symbol
                /\ o.side = exchange.active[s].side

\* Every step moves the book forward and leaves it tradable.
LEMMA ForwardStep ==
  ASSUME Inv, BookIsTradable, [Step]_vars
  PROVE  MovesForward /\ BookIsTradable'
<1>0. IsExchange(exchange)
  BY DEF Inv, TypeOK
<1>1. CASE exchange' = exchange
  BY <1>1 DEF MovesForward, BookIsTradable
<1>2. ASSUME NEW o \in Order, ExchangeSubmits(o),
             wiring.risk_manager /\ pc = "drain" => RiskDecision(o).accepted
      PROVE  MovesForward /\ BookIsTradable'
  <2> DEFINE s == o.sequence_id
  <2>1. /\ IsTradable(o) /\ s \notin exchange.seen
        /\ exchange'.seen = exchange.seen \cup {s}
        /\ DOMAIN exchange'.active = DOMAIN exchange.active \cup {s}
        /\ exchange'.active[s] = o
        /\ \A r \in DOMAIN exchange.active :
             exchange'.active[r] = exchange.active[r]
    BY <1>0, <1>2, ExchangeSubmitEffect DEF ExchangeSubmits
  <2>2. wiring.risk_manager /\ pc = "drain" => WithinLimits(o)
    BY <1>2, RiskVerdict
  <2>3. s \notin DOMAIN exchange.active
    BY <1>0, <2>1 DEF IsExchange
  <2> HIDE DEF s
  <2> QED BY <2>1, <2>2, <2>3 DEF MovesForward, BookIsTradable
<1>3. ASSUME NEW s \in SeqId, ExchangeCancels(s)
      PROVE  MovesForward /\ BookIsTradable'
  BY <1>0, <1>3, ExchangeCancelEffect
  DEF ExchangeCancels, MovesForward, BookIsTradable
<1>4. ASSUME NEW req \in AmendRequest, ExchangeAmends(req)
      PROVE  MovesForward /\ BookIsTradable'
  <2> DEFINE s == req.sequence_id
             o == exchange.active[s]
             new == exchange'.active[s]
  <2>1. /\ s \in DOMAIN exchange.active
        /\ exchange'.seen = exchange.seen
        /\ DOMAIN exchange'.active = DOMAIN exchange.active
        /\ new.symbol = o.symbol /\ new.side = o.side
        /\ IsTradable(o) => IsTradable(new)
        /\ \A r \in DOMAIN exchange.active \ {s} :
             exchange'.active[r] = exchange.active[r]
    BY <1>0, <1>4, ExchangeAmendEffect DEF ExchangeAmends
  <2>2. IsTradable(new)
    BY <2>1 DEF BookIsTradable
  <2>3. \A r \in DOMAIN exchange'.active :
          LET p == exchange'.active[r]
          IN  /\ IsTradable(p) /\ r \in DOMAIN exchange.active
              /\ p.symbol = exchange.active[r].symbol
              /\ p.side = exchange.active[r].side
    BY <2>1, <2>2 DEF BookIsTradable
  <2> QED BY <2>1, <2>3 DEF MovesForward, BookIsTradable
<1> QED BY <1>1, <1>2, <1>3, <1>4, ExchangeStep

\* A sequence id is used once, ever; what appears on the book is tradable
\* and within the limits; an amendment keeps the symbol and the side.
THEOREM BookMovesForward == Spec => BookOnlyMovesForward
<1>1. Init => BookIsTradable
  BY DEF Init, NewExchange, BookIsTradable
<1>2. Inv /\ BookIsTradable /\ [Step]_vars
        => BookIsTradable' /\ [MovesForward]_vars
  BY ForwardStep
<1> QED BY <1>1, <1>2, InvHolds, NextIsStep, PTL
        DEF Spec, BookOnlyMovesForward, MovesForward

\* The accepted and the cancelled orders, of the tracker.
LEMMA BookStep ==
  Inv /\ BookMatchesTracker /\ [Step]_vars => BookMatchesTracker'
<1> SUFFICES ASSUME Inv, BookMatchesTracker, [Step]_vars, FullyTracked'
             PROVE  /\ DOMAIN exchange'.active =
                         InState(tracker', "kExchangeAccepted")
                    /\ exchange'.seen =
                         InState(tracker', "kExchangeAccepted")
                           \cup InState(tracker', "kCancelled")
  BY DEF BookMatchesTracker
<1>0. /\ TypeOK /\ IsExchange(exchange)
      /\ \A state : InState(tracker, state) =
                      {r \in SeqId : StateOf(tracker, r) = state}
  BY DEF Inv, TypeOK, InState, StateOf
<1>1. /\ wiring' = wiring /\ wiring.pipeline_tracker /\ wiring.gateway_tracker
      /\ ~DirectSend /\ DirectCancels = {}
  <2>1. wiring' = wiring
    BY DEF Step, DrainStep, Enqueue, BeginDrain, EndDrain, DrainRiskRejected,
           DrainNoGateway, DrainSent, PopOrder, ClientCancel, ClientAmend,
           ClientSend, ClientCancelDirectly, vars
  <2> QED BY <2>1 DEF FullyTracked
<1>2. /\ DOMAIN exchange.active = InState(tracker, "kExchangeAccepted")
      /\ exchange.seen = InState(tracker, "kExchangeAccepted")
                           \cup InState(tracker, "kCancelled")
  BY <1>1 DEF BookMatchesTracker, FullyTracked
<1> DEFINE Goal == /\ DOMAIN exchange'.active =
                        InState(tracker', "kExchangeAccepted")
                   /\ exchange'.seen =
                        InState(tracker', "kExchangeAccepted")
                          \cup InState(tracker', "kCancelled")
<1>3. ASSUME exchange' = exchange, tracker'.records = tracker.records
      PROVE  Goal
  BY <1>2, <1>3 DEF InState
<1>4. ASSUME exchange' = exchange, NEW s \in SeqId,
             StateOf(tracker, s) \in {"absent", "kQueued"},
             NEW next \in {"kQueued", "kRiskRejected", "kExchangeRejected"},
             NEW names, Follows(s, next, names)
      PROVE  Goal
  <2>1. \A state \in {"kExchangeAccepted", "kCancelled"} :
          InState(tracker', state) = InState(tracker, state) \ {s}
    BY <1>1, <1>4, MovedInState DEF Follows
  <2>2. \A state \in {"kExchangeAccepted", "kCancelled"} :
          s \notin InState(tracker, state)
    BY <1>0, <1>4
  <2> QED BY <1>2, <1>4, <2>1, <2>2
<1>5. ASSUME NEW o \in Order, Enqueue(o)
      PROVE  Goal
  <2>1. CASE EnqueueRejected(o) \/ EnqueueDropped(o)
    BY <1>3, <1>5, <2>1 DEF Enqueue, EnqueueRejected, EnqueueDropped
  <2>2. CASE EnqueueQueued(o)
    <3>1. /\ o.sequence_id \in SeqId /\ exchange' = exchange
          /\ StateOf(tracker, o.sequence_id) = "absent"
      BY <1>1, <1>5, <2>2, PipelineAssumption
      DEF Order, Enqueue, EnqueueQueued, IsKnown, Contains, StateOf, Absent
    <3> QED BY <1>4, <2>2, <3>1, EnqueueFollows
  <2> QED BY <1>5, <2>1, <2>2 DEF Enqueue
<1>6. CASE BeginDrain \/ EndDrain \/ UNCHANGED vars
  BY <1>3, <1>6 DEF BeginDrain, EndDrain, gatewayVars, vars
<1>7. ASSUME PopOrder
      PROVE  /\ Popped.sequence_id \in SeqId /\ Popped \in Order
             /\ StateOf(tracker, Popped.sequence_id) = "kQueued"
  BY <1>1, <1>7, PoppedIsQueued DEF PopOrder
<1>8. CASE DrainRiskRejected
  <2>1. PopOrder /\ exchange' = exchange
    BY <1>8 DEF DrainRiskRejected
  <2> QED BY <1>4, <1>7, <1>8, <2>1, RiskRejectedFollows
<1>9. CASE DrainNoGateway
  <2>1. PopOrder /\ exchange' = exchange
    BY <1>9 DEF DrainNoGateway
  <2> QED BY <1>4, <1>7, <1>9, <2>1, NoGatewayFollows
<1>10. CASE DrainSent
  <2> DEFINE s == Popped.sequence_id
  <2>1. PopOrder /\ SendOrder(Popped)
    BY <1>10 DEF DrainSent, Popped
  <2>2. s \in SeqId /\ Popped \in Order /\ StateOf(tracker, s) = "kQueued"
    BY <1>7, <2>1
  <2>3. CASE ~SendOrderResponse(Popped).accepted
    <3>1. exchange' = exchange
      BY <1>0, <2>1, <2>2, <2>3, SendOrderEffect
    <3> QED BY <1>4, <1>10, <2>2, <2>3, <3>1, SentFollows
  <2>4. CASE SendOrderResponse(Popped).accepted
    <3>1. /\ SubmitResponse(exchange, Popped).accepted
          /\ exchange' = SubmitOrder(exchange, Popped)
      BY <1>0, <2>1, <2>2, <2>4, SendOrderEffect
    <3>2. /\ exchange'.seen = exchange.seen \cup {s}
          /\ DOMAIN exchange'.active = DOMAIN exchange.active \cup {s}
      BY <1>0, <2>2, <3>1, ExchangeSubmitEffect
    <3>3. Follows(s, "kExchangeAccepted",
                  {"orders_sent", "orders_exchange_accepted"})
      BY <1>10, <2>4, SentFollows
    <3>4. /\ InState(tracker', "kExchangeAccepted") =
               InState(tracker, "kExchangeAccepted") \cup {s}
          /\ InState(tracker', "kCancelled") =
               InState(tracker, "kCancelled") \ {s}
      BY <1>1, <2>2, <3>3, MovedInState DEF Follows
    <3>5. s \notin InState(tracker, "kCancelled")
      BY <1>0, <2>2
    <3> HIDE DEF s
    <3> QED BY <1>2, <3>2, <3>4, <3>5
  <2> QED BY <2>3, <2>4
<1>11. ASSUME NEW s \in SeqId, NEW names,
              Settles(s, "kExchangeAccepted", names)
       PROVE  /\ InState(tracker', "kExchangeAccepted") =
                   InState(tracker, "kExchangeAccepted")
              /\ InState(tracker', "kCancelled") =
                   InState(tracker, "kCancelled")
  <2>1. /\ Moved(tracker, tracker', s, "kExchangeAccepted", names)
        /\ s \in InState(tracker, "kExchangeAccepted")
        /\ s \notin InState(tracker, "kCancelled")
    BY <1>0, <1>1, <1>11 DEF Settles
  <2>2. /\ InState(tracker', "kExchangeAccepted") =
             InState(tracker, "kExchangeAccepted") \cup {s}
        /\ InState(tracker', "kCancelled") =
             InState(tracker, "kCancelled") \ {s}
    BY <2>1, MovedInState
  <2> QED BY <2>1, <2>2
<1>12. ASSUME NEW s \in SeqId, ClientCancel(s)
       PROVE  Goal
  <2>1. SendCancel(s)
    BY <1>12 DEF ClientCancel
  <2>2. CASE RequestRefused("cancels_sent", "cancels_rejected")
    BY <1>3, <2>2 DEF RequestRefused, Refused
  <2>3. CASE CancelRejectedBy(s)
    BY <1>2, <1>11, <2>3 DEF CancelRejectedBy
  <2>4. CASE CancelAcceptedBy(s)
    <3>1. /\ exchange'.seen = exchange.seen
          /\ DOMAIN exchange'.active = DOMAIN exchange.active \ {s}
      BY <1>0, <2>4, ExchangeCancelEffect DEF CancelAcceptedBy
    <3>2. /\ InState(tracker', "kExchangeAccepted") =
               InState(tracker, "kExchangeAccepted") \ {s}
          /\ InState(tracker', "kCancelled") =
               InState(tracker, "kCancelled") \cup {s}
      BY <1>1, <2>4, MovedInState DEF CancelAcceptedBy, Settles
    <3>3. s \in DOMAIN exchange.active
      BY <2>4 DEF CancelAcceptedBy
    <3> QED BY <1>2, <3>1, <3>2, <3>3
  <2> QED BY <1>0, <2>1, <2>2, <2>3, <2>4, CancelOutcomes
<1>13. ASSUME NEW req \in Amends, ClientAmend(req)
       PROVE  Goal
  <2>1. /\ SendAmend(req) /\ req \in AmendRequest
        /\ req.sequence_id \in SeqId
    BY <1>13, PipelineAssumption DEF ClientAmend, AmendRequest
  <2>2. CASE RequestRefused("amends_sent", "amends_rejected")
    BY <1>3, <2>2 DEF RequestRefused, Refused
  <2>3. CASE AmendRejectedBy(req)
    BY <1>2, <1>11, <2>1, <2>3 DEF AmendRejectedBy
  <2>4. CASE AmendAcceptedBy(req)
    <3>1. /\ exchange'.seen = exchange.seen
          /\ DOMAIN exchange'.active = DOMAIN exchange.active
      BY <1>0, <2>1, <2>4, ExchangeAmendEffect DEF AmendAcceptedBy
    <3> QED BY <1>2, <1>11, <2>1, <2>4, <3>1 DEF AmendAcceptedBy
  <2> QED BY <1>0, <2>1, <2>2, <2>3, <2>4, AmendOutcomes
<1>14. /\ \A o \in Order : ~ClientSend(o)
       /\ \A s \in SeqId : ~ClientCancelDirectly(s)
  BY <1>1 DEF ClientSend, ClientCancelDirectly
<1>15. Goal
  BY <1>5, <1>6, <1>8, <1>9, <1>10, <1>12, <1>13, <1>14 DEF Step, DrainStep
<1> QED BY <1>15

\* With one tracker shared by the pipeline and the gateway, the tracker and
\* the exchange never disagree.
THEOREM BookAndTrackerAgree == Spec => []BookMatchesTracker
<1>1. Init => BookMatchesTracker
  <2> SUFFICES ASSUME Init PROVE BookMatchesTracker
    OBVIOUS
  <2>1. \A s \in SeqId : tracker.records[s].state = "absent"
    BY DEF Init, NewTracker, NoRecord, Absent
  <2>2. exchange.seen = {} /\ DOMAIN exchange.active = {}
    BY DEF Init, NewExchange
  <2> QED BY <2>1, <2>2 DEF BookMatchesTracker, InState
<1>2. Inv /\ BookMatchesTracker /\ [Step]_vars => BookMatchesTracker'
  BY BookStep
<1> QED BY <1>1, <1>2, InvHolds, NextIsStep, PTL DEF Spec

----------------------------------------------------------------------------
(***************************************************************************)
(* Part two: the properties that count orders across the components, and   *)
(* the refinement of OrderBook.                                            *)
(***************************************************************************)

----------------------------------------------------------------------------
(* OrdersAreConserved, in three parts that are inductive one by one. *)

\* What is enqueued, drained and decided.
PipelineBalances ==
  /\ pipeline["orders_enqueued"] = pipeline["orders_drained"] + Len(queue)
  /\ pipeline["orders_drained"] =
       pipeline["orders_accepted"] + pipeline["orders_rejected"]
  /\ pipeline["orders_rejected"] = pipeline["orders_rejected_by_risk"]
                                     + pipeline["orders_rejected_by_gateway"]
  /\ pipeline["orders_rejected_by_risk"] = risk["orders_rejected"]
  /\ wiring.risk_manager =>
       risk["orders_checked"] = pipeline["orders_drained"]

\* The orders gone that may have been cancelled behind the gateway.
Behind == (exchange.seen \ DOMAIN exchange.active) \cap DirectCancels

\* What the exchange holds; the sets are finite because they are counted.
ExchangeBalances ==
  /\ IsFiniteSet(exchange.seen) /\ IsFiniteSet(DOMAIN exchange.active)
  /\ gateway["orders_accepted"] = Cardinality(exchange.seen)
  /\ gateway["orders_accepted"] - gateway["cancels_accepted"]
       - Cardinality(DOMAIN exchange.active) \in 0..Cardinality(Behind)
  /\ ~DirectSend => pipeline["orders_accepted"] = gateway["orders_accepted"]

\* What the tracker counts.
TrackerBalances ==
  wiring.pipeline_tracker =>
    /\ tracker.count["orders_queued"] = pipeline["orders_enqueued"]
    /\ tracker.count["orders_risk_rejected"] =
         pipeline["orders_rejected_by_risk"]
    /\ tracker.count["orders_exchange_accepted"] =
         pipeline["orders_accepted"]

\* The names of the counters.
LEMMA CounterNames ==
  /\ {"orders_enqueued", "orders_dropped_on_enqueue",
      "orders_rejected_by_lifecycle_on_enqueue", "orders_drained",
      "orders_accepted", "orders_rejected", "orders_rejected_by_risk",
      "orders_rejected_by_gateway"} \subseteq PipelineCounter
  /\ {"orders_sent", "orders_accepted", "orders_rejected", "cancels_sent",
      "cancels_accepted"} \subseteq GatewayCounter
  /\ {"orders_checked", "orders_accepted", "orders_rejected"}
       \subseteq RiskCounter
  /\ {"orders_queued", "orders_risk_rejected", "orders_exchange_accepted"}
       \subseteq TrackerCounter
BY DEF PipelineCounter, GatewayCounter, RiskCounter, TrackerCounter

\* What Check counts.
LEMMA CheckCounts ==
  ASSUME risk \in RiskManager, NEW o
  PROVE  LET r == Check(risk, o)
         IN  /\ r["orders_checked"] = risk["orders_checked"] + 1
             /\ r["orders_rejected"] = risk["orders_rejected"]
                  + IF RiskDecision(o).accepted THEN 0 ELSE 1
<1> DEFINE reason == RiskDecision(o).reject_reason
<1>1. risk \in [RiskCounter -> Nat]
  BY DEF RiskManager
<1>2. CASE RiskDecision(o).accepted
  <2>1. Check(risk, o) = Bump(risk, {"orders_checked", "orders_accepted"})
    <3>1. {"orders_checked"} \cup {"orders_accepted"}
            = {"orders_checked", "orders_accepted"}
      OBVIOUS
    <3> QED BY <1>2, <3>1 DEF Check
  <2> QED BY <1>1, <1>2, <2>1, BumpValue, CounterNames
<1>3. CASE ~RiskDecision(o).accepted
  <2>1. Check(risk, o) = Bump(risk, {"orders_checked"} \cup
                                      {"orders_rejected", reason})
    BY <1>3 DEF Check
  <2> HIDE DEF reason
  <2> QED BY <1>1, <1>3, <2>1, BumpValue, CounterNames
<1> QED BY <1>2, <1>3

\* Each order enters the buffer, leaves it and is decided once.
LEMMA PipelineBalanceStep ==
  Inv /\ PipelineBalances /\ [Step]_vars => PipelineBalances'
<1> SUFFICES ASSUME Inv, PipelineBalances, [Step]_vars
             PROVE  PipelineBalances'
  OBVIOUS
<1>0. /\ TypeOK /\ pipeline \in [PipelineCounter -> Nat]
      /\ risk \in RiskManager /\ queue \in Seq(Order)
  BY DEF Inv, TypeOK
<1> DEFINE Adds(c, k) == pipeline'[c] = pipeline[c] + k
           n == Len(queue)
           m == Len(queue')
<1>a. /\ pipeline["orders_enqueued"] \in Nat
      /\ pipeline["orders_drained"] \in Nat
      /\ pipeline["orders_accepted"] \in Nat
      /\ pipeline["orders_rejected"] \in Nat
      /\ pipeline["orders_rejected_by_risk"] \in Nat
      /\ pipeline["orders_rejected_by_gateway"] \in Nat
      /\ risk["orders_rejected"] \in Nat /\ risk["orders_checked"] \in Nat
      /\ n \in Nat
  BY <1>0, CounterNames DEF RiskManager
<1>c. ASSUME wiring' = wiring,
             pipeline'["orders_enqueued"] = pipeline'["orders_drained"] + m,
             pipeline'["orders_drained"] =
               pipeline'["orders_accepted"] + pipeline'["orders_rejected"],
             pipeline'["orders_rejected"] =
               pipeline'["orders_rejected_by_risk"]
                 + pipeline'["orders_rejected_by_gateway"],
             pipeline'["orders_rejected_by_risk"] = risk'["orders_rejected"],
             wiring.risk_manager =>
               risk'["orders_checked"] = pipeline'["orders_drained"]
      PROVE  PipelineBalances'
  BY <1>c DEF PipelineBalances
<1>d. /\ pipeline["orders_enqueued"] = pipeline["orders_drained"] + n
      /\ pipeline["orders_drained"] =
           pipeline["orders_accepted"] + pipeline["orders_rejected"]
      /\ pipeline["orders_rejected"] =
           pipeline["orders_rejected_by_risk"]
             + pipeline["orders_rejected_by_gateway"]
      /\ pipeline["orders_rejected_by_risk"] = risk["orders_rejected"]
      /\ wiring.risk_manager =>
           risk["orders_checked"] = pipeline["orders_drained"]
  BY DEF PipelineBalances
<1>1. CASE UNCHANGED <<queue, risk, pipeline, wiring>>
  BY <1>1 DEF PipelineBalances
<1>2. ASSUME NEW o \in Order, Enqueue(o)
      PROVE  PipelineBalances'
  <2>1. wiring' = wiring /\ risk' = risk /\ o \in Order
    BY <1>2, PipelineAssumption DEF Enqueue
  <2>2. CASE EnqueueRejected(o) \/ EnqueueDropped(o)
    <3>1. PICK name \in {"orders_dropped_on_enqueue",
                         "orders_rejected_by_lifecycle_on_enqueue"} :
            queue' = queue /\ pipeline' = Bump(pipeline, {name})
      BY <2>2 DEF EnqueueRejected, EnqueueDropped
    <3>2. /\ Adds("orders_enqueued", 0) /\ Adds("orders_drained", 0)
          /\ Adds("orders_accepted", 0) /\ Adds("orders_rejected", 0)
          /\ Adds("orders_rejected_by_risk", 0)
          /\ Adds("orders_rejected_by_gateway", 0)
      BY <1>0, <3>1, BumpValue, CounterNames
    <3> QED BY <1>a, <2>1, <3>1, <3>2 DEF PipelineBalances
  <2>3. CASE EnqueueQueued(o)
    <3>1. pipeline' = Bump(pipeline, {"orders_enqueued"})
      BY <2>3, EnqueueFollows
    <3>2. queue' = Append(queue, o)
      BY <2>3 DEF EnqueueQueued
    <3>3. m = n + 1
      BY <1>0, <2>1, <3>2
    <3>4. /\ Adds("orders_enqueued", 1) /\ Adds("orders_drained", 0)
          /\ Adds("orders_accepted", 0) /\ Adds("orders_rejected", 0)
          /\ Adds("orders_rejected_by_risk", 0)
          /\ Adds("orders_rejected_by_gateway", 0)
      BY <1>0, <3>1, BumpValue, CounterNames
    <3> HIDE DEF n, m
    <3> QED BY <1>a, <1>c, <1>d, <2>1, <3>3, <3>4
  <2> QED BY <1>2, <2>2, <2>3 DEF Enqueue
<1>3. ASSUME PopOrder
      PROVE  /\ m = n - 1 /\ wiring' = wiring
             /\ risk' = IF wiring.risk_manager THEN Check(risk, Popped)
                                               ELSE risk
  BY <1>0, <1>3 DEF PopOrder, Popped
<1>4. CASE DrainRiskRejected
  <2>1. /\ pipeline' = Bump(pipeline, {"orders_drained", "orders_rejected",
                                       "orders_rejected_by_risk"})
        /\ wiring.risk_manager
        /\ risk' = Check(risk, Popped) /\ ~RiskDecision(Popped).accepted
    BY <1>4, RiskRejectedFollows
  <2>2. /\ risk'["orders_checked"] = risk["orders_checked"] + 1
        /\ risk'["orders_rejected"] = risk["orders_rejected"] + 1
    BY <1>0, <2>1, CheckCounts
  <2>3. PopOrder
    BY <1>4 DEF DrainRiskRejected
  <2>4. /\ Adds("orders_enqueued", 0) /\ Adds("orders_drained", 1)
        /\ Adds("orders_accepted", 0) /\ Adds("orders_rejected", 1)
        /\ Adds("orders_rejected_by_risk", 1)
        /\ Adds("orders_rejected_by_gateway", 0)
    BY <1>0, <2>1, BumpValue, CounterNames
  <2>5. m = n - 1 /\ wiring' = wiring
    BY <1>3, <2>3
  <2> HIDE DEF n, m
  <2> QED BY <1>a, <1>c, <1>d, <2>1, <2>2, <2>4, <2>5
<1>5. CASE DrainNoGateway \/ DrainSent
  <2>1. PopOrder /\ PassesRisk(Popped)
    BY <1>5 DEF DrainNoGateway, DrainSent, Popped
  <2>2. /\ wiring.risk_manager =>
             risk'["orders_checked"] = risk["orders_checked"] + 1
        /\ risk'["orders_rejected"] = risk["orders_rejected"]
    BY <1>0, <1>3, <2>1, CheckCounts, CounterNames DEF PassesRisk, RiskManager
  <2>3. \/ pipeline' = Bump(pipeline, {"orders_drained"} \cup
                                        {"orders_accepted"})
        \/ pipeline' = Bump(pipeline, {"orders_drained"} \cup
                              {"orders_rejected",
                               "orders_rejected_by_gateway"})
    BY <1>5, NoGatewayFollows, SentFollows
  <2>6. m = n - 1 /\ wiring' = wiring
    BY <1>3, <2>1
  <2>4. CASE pipeline' = Bump(pipeline, {"orders_drained"} \cup
                                          {"orders_accepted"})
    <3>1. /\ Adds("orders_enqueued", 0) /\ Adds("orders_drained", 1)
          /\ Adds("orders_accepted", 1) /\ Adds("orders_rejected", 0)
          /\ Adds("orders_rejected_by_risk", 0)
          /\ Adds("orders_rejected_by_gateway", 0)
      BY <1>0, <2>4, BumpValue, CounterNames
    <3> HIDE DEF n, m
    <3> QED BY <1>a, <1>c, <1>d, <2>2, <2>6, <3>1
  <2>5. CASE pipeline' = Bump(pipeline, {"orders_drained"} \cup
                                {"orders_rejected",
                                 "orders_rejected_by_gateway"})
    <3>1. /\ Adds("orders_enqueued", 0) /\ Adds("orders_drained", 1)
          /\ Adds("orders_accepted", 0) /\ Adds("orders_rejected", 1)
          /\ Adds("orders_rejected_by_risk", 0)
          /\ Adds("orders_rejected_by_gateway", 1)
      BY <1>0, <2>5, BumpValue, CounterNames
    <3> HIDE DEF n, m
    <3> QED BY <1>a, <1>c, <1>d, <2>2, <2>6, <3>1
  <2> QED BY <2>3, <2>4, <2>5
<1>6. CASE BeginDrain \/ EndDrain \/ UNCHANGED vars
  BY <1>1, <1>6 DEF BeginDrain, EndDrain, vars
<1>7. ASSUME NEW x, \/ ClientCancel(x) \/ ClientAmend(x) \/ ClientSend(x)
                    \/ ClientCancelDirectly(x)
      PROVE  PipelineBalances'
  BY <1>1, <1>7
  DEF ClientCancel, ClientAmend, ClientSend, ClientCancelDirectly,
      pipelineVars
<1> QED BY <1>2, <1>4, <1>5, <1>6, <1>7 DEF Step, DrainStep

\* The exchange's sets grow and shrink as the gateway counts.
LEMMA ExchangeBalanceStep ==
  Inv /\ ExchangeBalances /\ [Step]_vars => ExchangeBalances'
<1> SUFFICES ASSUME Inv, ExchangeBalances, [Step]_vars
             PROVE  ExchangeBalances'
  OBVIOUS
<1>0. /\ TypeOK /\ pipeline \in [PipelineCounter -> Nat]
      /\ gateway \in [GatewayCounter -> Nat] /\ IsExchange(exchange)
  BY DEF Inv, TypeOK
<1> DEFINE accepts == pipeline["orders_accepted"]
           Live == DOMAIN exchange.active
<1>1. /\ accepts \in Nat /\ gateway["orders_accepted"] \in Nat
      /\ gateway["cancels_accepted"] \in Nat
      /\ Cardinality(Live) \in Nat /\ Live \subseteq exchange.seen
      /\ IsFiniteSet(Behind) /\ Cardinality(Behind) \in Nat
  BY <1>0, CounterNames, FS_Subset, FS_CardinalityType
  DEF ExchangeBalances, Behind, IsExchange
<1>2. ASSUME pipeline'["orders_accepted"] = accepts,
             gateway'["orders_accepted"] = gateway["orders_accepted"],
             gateway'["cancels_accepted"] = gateway["cancels_accepted"],
             exchange'.seen = exchange.seen,
             DOMAIN exchange'.active = Live
      PROVE  ExchangeBalances'
  BY <1>2 DEF ExchangeBalances, Behind
<1>3. ASSUME NEW o \in Order, SendOrder(o)
      PROVE  IF SendOrderResponse(o).accepted
             THEN /\ gateway'["orders_accepted"] =
                       gateway["orders_accepted"] + 1
                  /\ gateway'["cancels_accepted"] =
                       gateway["cancels_accepted"]
                  /\ exchange'.seen = exchange.seen \cup {o.sequence_id}
                  /\ DOMAIN exchange'.active = Live \cup {o.sequence_id}
                  /\ o.sequence_id \notin exchange.seen
                  /\ o.sequence_id \notin Live
             ELSE /\ gateway'["orders_accepted"] = gateway["orders_accepted"]
                  /\ gateway'["cancels_accepted"] =
                       gateway["cancels_accepted"]
                  /\ exchange' = exchange
  <2>1. CASE SendOrderResponse(o).accepted
    <3>1. /\ SubmitResponse(exchange, o).accepted
          /\ exchange' = SubmitOrder(exchange, o)
          /\ gateway' = Bump(gateway, {"orders_sent", "orders_accepted"})
      BY <1>0, <1>3, <2>1, SendOrderEffect
    <3>2. /\ o.sequence_id \notin exchange.seen
          /\ exchange'.seen = exchange.seen \cup {o.sequence_id}
          /\ DOMAIN exchange'.active = Live \cup {o.sequence_id}
      BY <1>0, <3>1, ExchangeSubmitEffect
    <3>3. Live \subseteq exchange.seen
      BY <1>0 DEF IsExchange
    <3> HIDE DEF Live
    <3>4. /\ gateway'["orders_accepted"] = gateway["orders_accepted"] + 1
          /\ gateway'["cancels_accepted"] = gateway["cancels_accepted"]
      BY <1>0, <3>1, BumpValue, CounterNames
    <3> QED BY <2>1, <3>2, <3>3, <3>4
  <2>2. CASE ~SendOrderResponse(o).accepted
    <3>1. /\ exchange' = exchange
          /\ gateway' = Bump(gateway, {"orders_sent", "orders_rejected"})
      BY <1>0, <1>3, <2>2, SendOrderEffect
    <3> QED BY <1>0, <2>2, <3>1, BumpValue, CounterNames
  <2> QED BY <2>1, <2>2
<1>4. ASSUME NEW o \in Order, SendOrder(o), SendOrderResponse(o).accepted,
             ~DirectSend => pipeline'["orders_accepted"] = accepts + 1
      PROVE  ExchangeBalances'
  <2>1. /\ IsFiniteSet(exchange'.seen) /\ IsFiniteSet(DOMAIN exchange'.active)
        /\ Cardinality(exchange'.seen) = Cardinality(exchange.seen) + 1
        /\ Cardinality(DOMAIN exchange'.active) = Cardinality(Live) + 1
    BY <1>3, <1>4, FS_AddElement DEF ExchangeBalances
  <2>2. /\ gateway'["orders_accepted"] = gateway["orders_accepted"] + 1
        /\ gateway'["cancels_accepted"] = gateway["cancels_accepted"]
    BY <1>3, <1>4
  <2>3. Behind' = Behind
    BY <1>3, <1>4 DEF Behind
  <2>4. gateway'["orders_accepted"] - gateway'["cancels_accepted"]
          - Cardinality(DOMAIN exchange'.active) \in 0..Cardinality(Behind')
    BY <1>1, <2>1, <2>2, <2>3 DEF ExchangeBalances
  <2> QED BY <1>4, <2>1, <2>2, <2>4 DEF ExchangeBalances
<1>5. ASSUME NEW names, "orders_accepted" \notin names,
             pipeline' = Bump(pipeline, names)
      PROVE  pipeline'["orders_accepted"] = accepts
  BY <1>0, <1>5, BumpValue, CounterNames
<1>6. CASE BeginDrain \/ EndDrain \/ UNCHANGED vars
  BY <1>2, <1>6 DEF BeginDrain, EndDrain, gatewayVars, vars
<1>7. ASSUME NEW o \in Order, Enqueue(o)
      PROVE  ExchangeBalances'
  <2>1. PICK name \in PipelineCounter \ {"orders_accepted"} :
          pipeline' = Bump(pipeline, {name})
    BY <1>7, EnqueueFollows, CounterNames
    DEF Enqueue, EnqueueRejected, EnqueueDropped
  <2> QED BY <1>2, <1>5, <1>7, <2>1 DEF Enqueue
<1>8. CASE DrainRiskRejected \/ DrainNoGateway
  <2>1. /\ exchange' = exchange /\ gateway' = gateway
        /\ \/ pipeline' = Bump(pipeline, {"orders_drained", "orders_rejected",
                                          "orders_rejected_by_risk"})
           \/ pipeline' = Bump(pipeline, {"orders_drained"} \cup
                                 {"orders_rejected",
                                  "orders_rejected_by_gateway"})
    BY <1>8, RiskRejectedFollows, NoGatewayFollows
    DEF DrainRiskRejected, DrainNoGateway
  <2> QED BY <1>2, <1>5, <2>1
<1>9. CASE DrainSent
  <2>1. SendOrder(Popped) /\ Popped \in Order
    BY <1>9, PoppedIsQueued DEF DrainSent, PopOrder, Popped
  <2>2. CASE SendOrderResponse(Popped).accepted
    <3>1. pipeline' = Bump(pipeline, {"orders_drained"} \cup
                                       {"orders_accepted"})
      BY <1>9, <2>2, SentFollows
    <3>2. pipeline'["orders_accepted"] = accepts + 1
      BY <1>0, <3>1, BumpValue, CounterNames
    <3> QED BY <1>4, <2>1, <2>2, <3>2
  <2>3. CASE ~SendOrderResponse(Popped).accepted
    <3>1. pipeline' = Bump(pipeline, {"orders_drained"} \cup
                             {"orders_rejected",
                              "orders_rejected_by_gateway"})
      BY <1>9, <2>3, SentFollows
    <3> QED BY <1>2, <1>3, <1>5, <2>1, <2>3, <3>1
  <2> QED BY <2>2, <2>3
<1>10. ASSUME NEW o \in Order, ClientSend(o)
       PROVE  ExchangeBalances'
  <2>1. /\ SendOrder(o) /\ o \in Order /\ DirectSend
        /\ pipeline' = pipeline
    BY <1>10, PipelineAssumption DEF ClientSend, pipelineVars
  <2> QED BY <1>2, <1>3, <1>4, <2>1
<1>11. ASSUME NEW names, gateway' = Bump(gateway, names),
              names \cap {"orders_accepted", "cancels_accepted"} = {},
              pipeline' = pipeline, exchange'.seen = exchange.seen,
              DOMAIN exchange'.active = Live
       PROVE  ExchangeBalances'
  BY <1>0, <1>2, <1>11, BumpValue, CounterNames
<1>12. ASSUME NEW s \in SeqId, ClientCancel(s)
       PROVE  ExchangeBalances'
  <2>1. SendCancel(s) /\ pipeline' = pipeline
    BY <1>12 DEF ClientCancel, pipelineVars
  <2>2. CASE RequestRefused("cancels_sent", "cancels_rejected")
    BY <1>11, <2>1, <2>2 DEF RequestRefused
  <2>3. CASE CancelRejectedBy(s)
    BY <1>11, <2>1, <2>3 DEF CancelRejectedBy
  <2>4. CASE CancelAcceptedBy(s)
    <3>1. /\ s \in Live /\ exchange'.seen = exchange.seen
          /\ DOMAIN exchange'.active = Live \ {s}
      BY <1>0, <2>4, ExchangeCancelEffect DEF CancelAcceptedBy
    <3>2. /\ gateway'["orders_accepted"] = gateway["orders_accepted"]
          /\ gateway'["cancels_accepted"] = gateway["cancels_accepted"] + 1
      BY <1>0, <2>4, BumpValue, CounterNames DEF CancelAcceptedBy
    <3>3. /\ IsFiniteSet(DOMAIN exchange'.active)
          /\ Cardinality(DOMAIN exchange'.active) = Cardinality(Live) - 1
      BY <3>1, FS_RemoveElement DEF ExchangeBalances
    <3>4. Behind \subseteq Behind' /\ IsFiniteSet(Behind')
      BY <3>1, FS_Subset DEF ExchangeBalances, Behind
    <3>5. Cardinality(Behind) <= Cardinality(Behind')
          /\ Cardinality(Behind') \in Nat
      BY <3>4, FS_Subset, FS_CardinalityType
    <3>6. gateway'["orders_accepted"] - gateway'["cancels_accepted"]
            - Cardinality(DOMAIN exchange'.active) \in 0..Cardinality(Behind')
      BY <1>1, <3>2, <3>3, <3>5 DEF ExchangeBalances
    <3> QED BY <2>1, <3>1, <3>2, <3>3, <3>6 DEF ExchangeBalances
  <2> QED BY <1>0, <2>1, <2>2, <2>3, <2>4, CancelOutcomes
<1>13. ASSUME NEW req \in Amends, ClientAmend(req)
       PROVE  ExchangeBalances'
  <2>1. SendAmend(req) /\ pipeline' = pipeline /\ req \in AmendRequest
    BY <1>13, PipelineAssumption DEF ClientAmend, pipelineVars
  <2>2. CASE RequestRefused("amends_sent", "amends_rejected")
    BY <1>11, <2>1, <2>2 DEF RequestRefused
  <2>3. CASE AmendRejectedBy(req)
    BY <1>11, <2>1, <2>3 DEF AmendRejectedBy
  <2>4. CASE AmendAcceptedBy(req)
    <3>1. exchange'.seen = exchange.seen /\ DOMAIN exchange'.active = Live
      BY <1>0, <2>1, <2>4, ExchangeAmendEffect DEF AmendAcceptedBy
    <3> QED BY <1>11, <2>1, <2>4, <3>1 DEF AmendAcceptedBy
  <2> QED BY <1>0, <2>1, <2>2, <2>3, <2>4, AmendOutcomes
<1>14. ASSUME NEW s \in SeqId, ClientCancelDirectly(s)
       PROVE  ExchangeBalances'
  <2>1. /\ s \in DirectCancels /\ s \in Live
        /\ exchange'.seen = exchange.seen
        /\ DOMAIN exchange'.active = Live \ {s}
        /\ gateway' = gateway /\ pipeline' = pipeline
    BY <1>0, <1>14, DirectCancelEffect
  <2>2. /\ IsFiniteSet(DOMAIN exchange'.active)
        /\ Cardinality(DOMAIN exchange'.active) = Cardinality(Live) - 1
    BY <2>1, FS_RemoveElement DEF ExchangeBalances
  <2>3. Behind' = Behind \cup {s} /\ s \notin Behind
    BY <1>1, <2>1 DEF Behind
  <2>4. Cardinality(Behind') = Cardinality(Behind) + 1
    BY <1>1, <2>3, FS_AddElement
  <2>5. gateway'["orders_accepted"] - gateway'["cancels_accepted"]
          - Cardinality(DOMAIN exchange'.active) \in 0..Cardinality(Behind')
    BY <1>1, <2>1, <2>2, <2>4 DEF ExchangeBalances
  <2> QED BY <2>1, <2>2, <2>5 DEF ExchangeBalances
<1> QED BY <1>6, <1>7, <1>8, <1>9, <1>10, <1>12, <1>13, <1>14
        DEF Step, DrainStep

\* The tracker counts what the pipeline does to its orders.
LEMMA TrackerBalanceStep ==
  Inv /\ TrackerBalances /\ [Step]_vars => TrackerBalances'
<1> SUFFICES ASSUME Inv, TrackerBalances, [Step]_vars,
                    wiring'.pipeline_tracker
             PROVE  /\ tracker'.count["orders_queued"] =
                         pipeline'["orders_enqueued"]
                    /\ tracker'.count["orders_risk_rejected"] =
                         pipeline'["orders_rejected_by_risk"]
                    /\ tracker'.count["orders_exchange_accepted"] =
                         pipeline'["orders_accepted"]
  BY DEF TrackerBalances
<1> DEFINE Goal == /\ tracker'.count["orders_queued"] =
                        pipeline'["orders_enqueued"]
                   /\ tracker'.count["orders_risk_rejected"] =
                        pipeline'["orders_rejected_by_risk"]
                   /\ tracker'.count["orders_exchange_accepted"] =
                        pipeline'["orders_accepted"]
           counters == {"orders_queued", "orders_risk_rejected",
                        "orders_exchange_accepted"}
<1>0. /\ TypeOK /\ pipeline \in [PipelineCounter -> Nat]
      /\ tracker.count \in [TrackerCounter -> Nat]
  BY DEF Inv, TypeOK, Tracker
<1>1. wiring' = wiring /\ wiring.pipeline_tracker
  <2>1. wiring' = wiring
    BY DEF Step, DrainStep, Enqueue, BeginDrain, EndDrain, DrainRiskRejected,
           DrainNoGateway, DrainSent, PopOrder, ClientCancel, ClientAmend,
           ClientSend, ClientCancelDirectly, vars
  <2> QED BY <2>1
<1>2. /\ tracker.count["orders_queued"] = pipeline["orders_enqueued"]
      /\ tracker.count["orders_risk_rejected"] =
           pipeline["orders_rejected_by_risk"]
      /\ tracker.count["orders_exchange_accepted"] =
           pipeline["orders_accepted"]
  BY <1>1 DEF TrackerBalances
<1>3. ASSUME pipeline' = pipeline,
             \A c \in counters : tracker'.count[c] = tracker.count[c]
      PROVE  Goal
  BY <1>2, <1>3
<1>4. ASSUME NEW s, NEW next, NEW moved, NEW done,
             Follows(s, next, moved), pipeline' = Bump(pipeline, done),
             "orders_queued" \in moved <=> "orders_enqueued" \in done,
             "orders_risk_rejected" \in moved
               <=> "orders_rejected_by_risk" \in done,
             "orders_exchange_accepted" \in moved
               <=> "orders_accepted" \in done
      PROVE  Goal
  <2>1. tracker'.count = Bump(tracker.count, moved)
    BY <1>1, <1>4 DEF Follows, Moved
  <2> QED BY <1>0, <1>2, <1>4, <2>1, BumpValue, CounterNames
<1>5. ASSUME NEW o \in Order, Enqueue(o)
      PROVE  Goal
  <2>1. CASE EnqueueRejected(o) \/ EnqueueDropped(o)
    <3>1. PICK name \in {"orders_dropped_on_enqueue",
                         "orders_rejected_by_lifecycle_on_enqueue"} :
            tracker' = tracker /\ pipeline' = Bump(pipeline, {name})
      BY <2>1 DEF EnqueueRejected, EnqueueDropped
    <3> QED BY <1>0, <1>2, <3>1, BumpValue, CounterNames
  <2>2. CASE EnqueueQueued(o)
    BY <1>4, <2>2, EnqueueFollows
  <2> QED BY <1>5, <2>1, <2>2 DEF Enqueue
<1>6. CASE DrainRiskRejected
  BY <1>4, <1>6, RiskRejectedFollows
<1>7. CASE DrainNoGateway
  BY <1>4, <1>7, NoGatewayFollows
<1>8. CASE DrainSent
  BY <1>4, <1>8, SentFollows
<1>9. CASE BeginDrain \/ EndDrain \/ UNCHANGED vars
  BY <1>3, <1>9 DEF BeginDrain, EndDrain, gatewayVars, vars
<1>10. ASSUME NEW x, ClientSend(x) \/ ClientCancelDirectly(x)
       PROVE  Goal
  BY <1>3, <1>10 DEF ClientSend, ClientCancelDirectly, pipelineVars
<1>11. ASSUME NEW s, NEW next, NEW names, Settles(s, next, names),
              names \cap counters = {}, pipeline' = pipeline
       PROVE  Goal
  <2>1. \/ tracker' = tracker
        \/ tracker'.count = Bump(tracker.count, names)
    BY <1>11 DEF Settles, Moved
  <2> QED BY <1>0, <1>3, <1>11, <2>1, BumpValue, CounterNames
<1>12. ASSUME Refused(tracker, tracker'), pipeline' = pipeline
       PROVE  Goal
  BY <1>3, <1>12 DEF Refused, CallCounter, TrackerCounter
<1>13. ASSUME NEW s \in SeqId, ClientCancel(s)
       PROVE  Goal
  <2>1. SendCancel(s) /\ pipeline' = pipeline
    BY <1>13 DEF ClientCancel, pipelineVars
  <2>2. CASE RequestRefused("cancels_sent", "cancels_rejected")
    BY <1>12, <2>1, <2>2 DEF RequestRefused
  <2>3. CASE CancelRejectedBy(s) \/ CancelAcceptedBy(s)
    BY <1>11, <2>1, <2>3 DEF CancelRejectedBy, CancelAcceptedBy
  <2> QED BY <1>0, <2>1, <2>2, <2>3, CancelOutcomes
<1>14. ASSUME NEW req \in Amends, ClientAmend(req)
       PROVE  Goal
  <2>1. SendAmend(req) /\ pipeline' = pipeline /\ req \in AmendRequest
    BY <1>14, PipelineAssumption DEF ClientAmend, pipelineVars
  <2>2. CASE RequestRefused("amends_sent", "amends_rejected")
    BY <1>12, <2>1, <2>2 DEF RequestRefused
  <2>3. CASE AmendRejectedBy(req) \/ AmendAcceptedBy(req)
    BY <1>11, <2>1, <2>3 DEF AmendRejectedBy, AmendAcceptedBy
  <2> QED BY <1>0, <2>1, <2>2, <2>3, AmendOutcomes
<1>15. Goal
  BY <1>5, <1>6, <1>7, <1>8, <1>9, <1>10, <1>13, <1>14 DEF Step, DrainStep
<1> QED BY <1>15

\* What the sets and counters of the exchange and the gateway satisfy.
LEMMA ExchangeBalancesHold == Spec => []ExchangeBalances
<1>1. Init => ExchangeBalances
  <2> SUFFICES ASSUME Init PROVE ExchangeBalances
    OBVIOUS
  <2>1. exchange.seen = {} /\ DOMAIN exchange.active = {}
    BY DEF Init, NewExchange
  <2>2. Behind = {}
    BY <2>1 DEF Behind
  <2>3. /\ IsFiniteSet(exchange.seen) /\ IsFiniteSet(DOMAIN exchange.active)
        /\ Cardinality(exchange.seen) = 0
        /\ Cardinality(DOMAIN exchange.active) = 0 /\ Cardinality(Behind) = 0
    BY <2>1, <2>2, FS_EmptySet
  <2> QED BY <2>3, CounterNames DEF Init, ExchangeBalances, NewGateway
<1>2. Inv /\ ExchangeBalances /\ [Step]_vars => ExchangeBalances'
  BY ExchangeBalanceStep
<1> QED BY <1>1, <1>2, InvHolds, NextIsStep, PTL DEF Spec

\* Nothing is lost between the components.
THEOREM OrdersConserved == Spec => []OrdersAreConserved
<1>1. Init => PipelineBalances /\ TrackerBalances
  BY CounterNames
  DEF Init, PipelineBalances, NewRiskManager, TrackerBalances, NewTracker
<1>2. Inv /\ PipelineBalances /\ TrackerBalances /\ [Step]_vars
        => (PipelineBalances /\ TrackerBalances)'
  BY PipelineBalanceStep, TrackerBalanceStep
<1>3. PipelineBalances /\ ExchangeBalances /\ TrackerBalances
        => OrdersAreConserved
  BY DEF PipelineBalances, ExchangeBalances, TrackerBalances, Behind,
         OrdersAreConserved
<1> QED BY <1>1, <1>2, <1>3, InvHolds, ExchangeBalancesHold, NextIsStep, PTL
        DEF Spec

----------------------------------------------------------------------------
(* TrackerNeverMisleads: the orders that only the exchange knows. *)

\* Every step keeps the tracker right about the orders it knows, and counts
\* the others.
LEMMA MisleadsStep ==
  Inv /\ ExchangeBalances /\ TrackerNeverMisleads /\ [Step]_vars
    => TrackerNeverMisleads'
<1> SUFFICES ASSUME Inv, ExchangeBalances, TrackerNeverMisleads, [Step]_vars,
                    wiring'.pipeline_tracker, wiring'.gateway_tracker
             PROVE  TrackerNeverMisleads'
  BY DEF TrackerNeverMisleads
<1> DEFINE Acc(t) == InState(t, "kExchangeAccepted")
           Can(t) == InState(t, "kCancelled")
           Live(ex) == DOMAIN ex.active
           Gone(ex) == ex.seen \ Live(ex)
           Unknown(ex, t) == ex.seen \ (Acc(t) \cup Can(t))
           sent == gateway["orders_accepted"]
           passed == pipeline["orders_accepted"]
<1>0. /\ TypeOK /\ pipeline \in [PipelineCounter -> Nat]
      /\ gateway \in [GatewayCounter -> Nat]
      /\ IsExchange(exchange) /\ Live(exchange) \subseteq exchange.seen
      /\ IsFiniteSet(exchange.seen)
      /\ sent \in Nat /\ passed \in Nat
  BY CounterNames DEF Inv, TypeOK, IsExchange, ExchangeBalances
<1>1. wiring' = wiring /\ wiring.pipeline_tracker /\ wiring.gateway_tracker
  <2>1. wiring' = wiring
    BY DEF Step, DrainStep, Enqueue, BeginDrain, EndDrain, DrainRiskRejected,
           DrainNoGateway, DrainSent, PopOrder, ClientCancel, ClientAmend,
           ClientSend, ClientCancelDirectly, vars
  <2> QED BY <2>1
<1>2. /\ Acc(tracker) \subseteq exchange.seen
      /\ Can(tracker) \subseteq Gone(exchange)
      /\ Gone(exchange) \ Can(tracker) \subseteq DirectCancels
      /\ Cardinality(Unknown(exchange, tracker)) = sent - passed
      /\ IsFiniteSet(Unknown(exchange, tracker))
  BY <1>0, <1>1, FS_Subset DEF TrackerNeverMisleads
<1>3. ASSUME Acc(tracker') \subseteq exchange'.seen,
             Can(tracker') \subseteq Gone(exchange'),
             Gone(exchange') \ Can(tracker') \subseteq DirectCancels,
             Cardinality(Unknown(exchange', tracker')) =
               gateway'["orders_accepted"] - pipeline'["orders_accepted"]
      PROVE  TrackerNeverMisleads'
  BY <1>3 DEF TrackerNeverMisleads
<1>4. ASSUME Acc(tracker') = Acc(tracker), Can(tracker') = Can(tracker),
             exchange'.seen = exchange.seen,
             Live(exchange') = Live(exchange),
             gateway'["orders_accepted"] = sent,
             pipeline'["orders_accepted"] = passed
      PROVE  TrackerNeverMisleads'
  BY <1>2, <1>3, <1>4
<1>5. ASSUME NEW names, "orders_accepted" \notin names,
             pipeline' = Bump(pipeline, names)
      PROVE  pipeline'["orders_accepted"] = passed
  BY <1>0, <1>5, BumpValue, CounterNames
<1>6. ASSUME NEW names, "orders_accepted" \notin names,
             gateway' = Bump(gateway, names)
      PROVE  gateway'["orders_accepted"] = sent
  BY <1>0, <1>6, BumpValue, CounterNames
<1>7. ASSUME NEW s \in SeqId,
             StateOf(tracker, s) \in {"absent", "kQueued"},
             NEW next, NEW names, Follows(s, next, names)
      PROVE  /\ s \notin Acc(tracker) /\ s \notin Can(tracker)
             /\ next \in {"kQueued", "kRiskRejected", "kExchangeRejected"} =>
                  Acc(tracker') = Acc(tracker) /\ Can(tracker') = Can(tracker)
             /\ next = "kExchangeAccepted" =>
                  /\ Acc(tracker') = Acc(tracker) \cup {s}
                  /\ Can(tracker') = Can(tracker)
  <2>1. s \notin Acc(tracker) /\ s \notin Can(tracker)
    BY <1>7 DEF InState, StateOf
  <2>2. Moved(tracker, tracker', s, next, names)
    BY <1>1, <1>7 DEF Follows
  <2>3. \A state : InState(tracker', state) =
          IF state = next THEN InState(tracker, state) \cup {s}
                          ELSE InState(tracker, state) \ {s}
    BY <2>2, MovedInState
  <2> QED BY <2>1, <2>3
<1>8. CASE BeginDrain \/ EndDrain \/ UNCHANGED vars
  BY <1>4, <1>8 DEF BeginDrain, EndDrain, gatewayVars, vars
<1>9. ASSUME NEW o \in Order, Enqueue(o)
      PROVE  TrackerNeverMisleads'
  <2>1. exchange' = exchange /\ gateway' = gateway
    BY <1>9 DEF Enqueue
  <2>2. CASE EnqueueRejected(o) \/ EnqueueDropped(o)
    <3>1. PICK name \in {"orders_dropped_on_enqueue",
                         "orders_rejected_by_lifecycle_on_enqueue"} :
            tracker' = tracker /\ pipeline' = Bump(pipeline, {name})
      BY <2>2 DEF EnqueueRejected, EnqueueDropped
    <3> QED BY <1>4, <1>5, <2>1, <3>1
  <2>3. CASE EnqueueQueued(o)
    <3>1. /\ o.sequence_id \in SeqId
          /\ StateOf(tracker, o.sequence_id) = "absent"
      BY <1>1, <2>3, PipelineAssumption
      DEF Order, EnqueueQueued, IsKnown, Contains, StateOf, Absent
    <3>2. /\ Follows(o.sequence_id, "kQueued",
                     {"orders_registered", "orders_queued"})
          /\ pipeline' = Bump(pipeline, {"orders_enqueued"})
      BY <2>3, EnqueueFollows
    <3>3. Acc(tracker') = Acc(tracker) /\ Can(tracker') = Can(tracker)
      BY <1>7, <3>1, <3>2
    <3>4. pipeline'["orders_accepted"] = passed
      BY <1>5, <3>2
    <3> QED BY <1>4, <2>1, <3>3, <3>4
  <2> QED BY <1>9, <2>2, <2>3 DEF Enqueue
<1> DEFINE p == Popped.sequence_id
<1>10. ASSUME PopOrder
       PROVE  p \in SeqId /\ Popped \in Order /\ StateOf(tracker, p) = "kQueued"
  BY <1>1, <1>10, PoppedIsQueued DEF PopOrder
<1>11. ASSUME PopOrder, exchange' = exchange,
              gateway'["orders_accepted"] = sent,
              NEW next \in {"kRiskRejected", "kExchangeRejected"},
              NEW names, Follows(p, next, names),
              NEW done, "orders_accepted" \notin done,
              pipeline' = Bump(pipeline, done)
       PROVE  TrackerNeverMisleads'
  <2>1. Acc(tracker') = Acc(tracker) /\ Can(tracker') = Can(tracker)
    BY <1>7, <1>10, <1>11
  <2>2. pipeline'["orders_accepted"] = passed
    BY <1>5, <1>11
  <2> QED BY <1>4, <1>11, <2>1, <2>2
<1>12. CASE DrainRiskRejected
  <2>1. PopOrder /\ exchange' = exchange /\ gateway' = gateway
    BY <1>12 DEF DrainRiskRejected
  <2> QED BY <1>11, <1>12, <2>1, RiskRejectedFollows
<1>13. CASE DrainNoGateway
  <2>1. PopOrder /\ exchange' = exchange /\ gateway' = gateway
    BY <1>13 DEF DrainNoGateway
  <2> QED BY <1>11, <1>13, <2>1, NoGatewayFollows
<1>14. ASSUME NEW o \in Order, SendOrder(o), SendOrderResponse(o).accepted
       PROVE  /\ gateway'["orders_accepted"] = sent + 1
              /\ exchange'.seen = exchange.seen \cup {o.sequence_id}
              /\ Live(exchange') = Live(exchange) \cup {o.sequence_id}
              /\ o.sequence_id \notin exchange.seen
  <2>1. /\ SubmitResponse(exchange, o).accepted
        /\ exchange' = SubmitOrder(exchange, o)
        /\ gateway' = Bump(gateway, {"orders_sent", "orders_accepted"})
    BY <1>0, <1>14, SendOrderEffect
  <2>2. gateway'["orders_accepted"] = sent + 1
    BY <1>0, <2>1, BumpValue, CounterNames
  <2> QED BY <1>0, <2>1, <2>2, ExchangeSubmitEffect
<1>15. ASSUME NEW o \in Order, SendOrder(o), ~SendOrderResponse(o).accepted
       PROVE  exchange' = exchange /\ gateway'["orders_accepted"] = sent
  BY <1>0, <1>6, <1>15, SendOrderEffect
<1>16. CASE DrainSent
  <2>1. PopOrder /\ SendOrder(Popped) /\ Popped \in Order /\ p \in SeqId
    BY <1>10, <1>16 DEF DrainSent, Popped
  <2>2. CASE ~SendOrderResponse(Popped).accepted
    BY <1>11, <1>15, <1>16, <2>1, <2>2, SentFollows
  <2>3. CASE SendOrderResponse(Popped).accepted
    <3>1. /\ Follows(p, "kExchangeAccepted",
                     {"orders_sent", "orders_exchange_accepted"})
          /\ pipeline' = Bump(pipeline, {"orders_drained"} \cup
                                {"orders_accepted"})
      BY <1>16, <2>3, SentFollows
    <3>2. /\ Acc(tracker') = Acc(tracker) \cup {p}
          /\ Can(tracker') = Can(tracker)
      BY <1>7, <1>10, <2>1, <3>1
    <3>3. pipeline'["orders_accepted"] = passed + 1
      BY <1>0, <3>1, BumpValue, CounterNames
    <3>4. /\ gateway'["orders_accepted"] = sent + 1
          /\ exchange'.seen = exchange.seen \cup {p}
          /\ Live(exchange') = Live(exchange) \cup {p}
          /\ p \notin exchange.seen
      BY <1>14, <2>1, <2>3
    <3> HIDE DEF p, Live, Acc, Can
    <3>5. Unknown(exchange', tracker') = Unknown(exchange, tracker)
      BY <1>0, <3>2, <3>4
    <3>6. /\ Acc(tracker') \subseteq exchange'.seen
          /\ Can(tracker') \subseteq Gone(exchange')
          /\ Gone(exchange') \ Can(tracker') \subseteq DirectCancels
      BY <1>2, <3>2, <3>4
    <3> HIDE DEF Unknown, Gone
    <3>7. Cardinality(Unknown(exchange', tracker')) =
            gateway'["orders_accepted"] - pipeline'["orders_accepted"]
      <4>1. (sent + 1) - (passed + 1) = sent - passed
        BY <1>0
      <4> QED BY <1>2, <3>3, <3>4, <3>5, <4>1
    <3> QED BY <1>3, <3>6, <3>7 DEF Unknown, Gone, Live, Acc, Can
  <2> QED BY <2>2, <2>3
<1>17. ASSUME NEW o \in Order, ClientSend(o)
       PROVE  TrackerNeverMisleads'
  <2> DEFINE s == o.sequence_id
  <2>1. /\ SendOrder(o) /\ o \in Order
        /\ pipeline' = pipeline /\ tracker' = tracker
    BY <1>17, PipelineAssumption DEF ClientSend, pipelineVars
  <2>2. CASE ~SendOrderResponse(o).accepted
    BY <1>4, <1>15, <2>1, <2>2
  <2>3. CASE SendOrderResponse(o).accepted
    <3>1. /\ gateway'["orders_accepted"] = sent + 1
          /\ exchange'.seen = exchange.seen \cup {s}
          /\ Live(exchange') = Live(exchange) \cup {s}
          /\ s \notin exchange.seen
      BY <1>14, <2>1, <2>3
    <3> HIDE DEF s, Live, Acc, Can
    <3>2. /\ Unknown(exchange', tracker') =
               Unknown(exchange, tracker) \cup {s}
          /\ s \notin Unknown(exchange, tracker)
      BY <1>0, <1>2, <2>1, <3>1
    <3>3. /\ Acc(tracker') \subseteq exchange'.seen
          /\ Can(tracker') \subseteq Gone(exchange')
          /\ Gone(exchange') \ Can(tracker') \subseteq DirectCancels
      BY <1>2, <2>1, <3>1
    <3> HIDE DEF Unknown, Gone
    <3>4. Cardinality(Unknown(exchange', tracker')) =
            Cardinality(Unknown(exchange, tracker)) + 1
      BY <1>2, <3>2, FS_AddElement
    <3>5. Cardinality(Unknown(exchange', tracker')) =
            gateway'["orders_accepted"] - pipeline'["orders_accepted"]
      BY <1>0, <1>2, <2>1, <3>1, <3>4
    <3> QED BY <1>3, <3>3, <3>5 DEF Unknown, Gone, Live, Acc, Can
  <2> QED BY <2>2, <2>3
<1>18. ASSUME NEW s \in SeqId, NEW names,
              Settles(s, "kExchangeAccepted", names)
       PROVE  Acc(tracker') = Acc(tracker) /\ Can(tracker') = Can(tracker)
  <2>1. /\ Moved(tracker, tracker', s, "kExchangeAccepted", names)
        /\ s \in Acc(tracker) /\ s \notin Can(tracker)
    BY <1>1, <1>18 DEF Settles, InState, StateOf
  <2>2. /\ Acc(tracker') = Acc(tracker) \cup {s}
        /\ Can(tracker') = Can(tracker) \ {s}
    BY <2>1, MovedInState
  <2> QED BY <2>1, <2>2
<1>19. ASSUME Refused(tracker, tracker')
       PROVE  Acc(tracker') = Acc(tracker) /\ Can(tracker') = Can(tracker)
  BY <1>19 DEF Refused, InState
<1>20. ASSUME NEW s \in SeqId, ClientCancel(s)
       PROVE  TrackerNeverMisleads'
  <2>1. SendCancel(s) /\ pipeline' = pipeline
    BY <1>20 DEF ClientCancel, pipelineVars
  <2>2. CASE RequestRefused("cancels_sent", "cancels_rejected")
    <3>1. exchange' = exchange /\ gateway'["orders_accepted"] = sent
      BY <1>6, <2>2 DEF RequestRefused
    <3> QED BY <1>4, <1>19, <2>1, <2>2, <3>1 DEF RequestRefused
  <2>3. CASE CancelRejectedBy(s)
    <3>1. exchange' = exchange /\ gateway'["orders_accepted"] = sent
      BY <1>6, <2>3 DEF CancelRejectedBy
    <3> QED BY <1>4, <1>18, <2>1, <2>3, <3>1 DEF CancelRejectedBy
  <2>4. CASE CancelAcceptedBy(s)
    <3>1. /\ exchange'.seen = exchange.seen
          /\ Live(exchange') = Live(exchange) \ {s}
      BY <1>0, <2>4, ExchangeCancelEffect DEF CancelAcceptedBy
    <3>2. /\ Moved(tracker, tracker', s, "kCancelled",
                   {"cancel_requests", "cancels_accepted"})
          /\ s \in Acc(tracker)
      BY <1>1, <2>4 DEF CancelAcceptedBy, Settles, InState, StateOf
    <3>3. /\ Acc(tracker') = Acc(tracker) \ {s}
          /\ Can(tracker') = Can(tracker) \cup {s}
      BY <3>2, MovedInState
    <3>4. gateway'["orders_accepted"] = sent
      BY <1>6, <2>4 DEF CancelAcceptedBy
    <3> HIDE DEF Live, Acc, Can
    <3>5. Unknown(exchange', tracker') = Unknown(exchange, tracker)
      BY <3>1, <3>2, <3>3
    <3>6. /\ Acc(tracker') \subseteq exchange'.seen
          /\ Can(tracker') \subseteq Gone(exchange')
          /\ Gone(exchange') \ Can(tracker') \subseteq DirectCancels
      BY <1>0, <1>2, <3>1, <3>2, <3>3
    <3> HIDE DEF Unknown, Gone
    <3>7. Cardinality(Unknown(exchange', tracker')) =
            gateway'["orders_accepted"] - pipeline'["orders_accepted"]
      BY <1>2, <2>1, <3>4, <3>5
    <3> QED BY <1>3, <3>6, <3>7 DEF Unknown, Gone, Live, Acc, Can
  <2> QED BY <1>0, <2>1, <2>2, <2>3, <2>4, CancelOutcomes
<1>21. ASSUME NEW req \in Amends, ClientAmend(req)
       PROVE  TrackerNeverMisleads'
  <2>1. /\ SendAmend(req) /\ pipeline' = pipeline /\ req \in AmendRequest
        /\ req.sequence_id \in SeqId
    BY <1>21, PipelineAssumption DEF ClientAmend, pipelineVars, AmendRequest
  <2>2. CASE RequestRefused("amends_sent", "amends_rejected")
    <3>1. exchange' = exchange /\ gateway'["orders_accepted"] = sent
      BY <1>6, <2>2 DEF RequestRefused
    <3> QED BY <1>4, <1>19, <2>1, <2>2, <3>1 DEF RequestRefused
  <2>3. CASE AmendRejectedBy(req)
    <3>1. exchange' = exchange /\ gateway'["orders_accepted"] = sent
      BY <1>6, <2>3 DEF AmendRejectedBy
    <3> QED BY <1>4, <1>18, <2>1, <2>3, <3>1 DEF AmendRejectedBy
  <2>4. CASE AmendAcceptedBy(req)
    <3>1. /\ exchange'.seen = exchange.seen
          /\ Live(exchange') = Live(exchange)
      BY <1>0, <2>1, <2>4, ExchangeAmendEffect DEF AmendAcceptedBy
    <3>2. gateway'["orders_accepted"] = sent
      BY <1>6, <2>4 DEF AmendAcceptedBy
    <3> QED BY <1>4, <1>18, <2>1, <2>4, <3>1, <3>2 DEF AmendAcceptedBy
  <2> QED BY <1>0, <2>1, <2>2, <2>3, <2>4, AmendOutcomes
<1>22. ASSUME NEW s \in SeqId, ClientCancelDirectly(s)
       PROVE  TrackerNeverMisleads'
  <2>1. /\ s \in DirectCancels /\ exchange'.seen = exchange.seen
        /\ Live(exchange') = Live(exchange) \ {s}
        /\ tracker' = tracker /\ gateway' = gateway /\ pipeline' = pipeline
    BY <1>0, <1>22, DirectCancelEffect
  <2> HIDE DEF Live, Acc, Can
  <2>2. /\ Acc(tracker') \subseteq exchange'.seen
        /\ Can(tracker') \subseteq Gone(exchange')
        /\ Gone(exchange') \ Can(tracker') \subseteq DirectCancels
        /\ Unknown(exchange', tracker') = Unknown(exchange, tracker)
    BY <1>2, <2>1
  <2> HIDE DEF Unknown, Gone
  <2>3. Cardinality(Unknown(exchange', tracker')) =
          gateway'["orders_accepted"] - pipeline'["orders_accepted"]
    BY <1>2, <2>1, <2>2
  <2> QED BY <1>3, <2>2, <2>3 DEF Unknown, Gone, Live, Acc, Can
<1> QED BY <1>8, <1>9, <1>12, <1>13, <1>16, <1>17, <1>20, <1>21, <1>22
        DEF Step, DrainStep

\* The tracker is never wrong about an order it calls cancelled, an order is
\* gone without its knowing only if it was cancelled behind the gateway, and
\* what only the exchange knows was sent past the pipeline.
THEOREM TrackerIsNeverWrong == Spec => []TrackerNeverMisleads
<1>1. Init => TrackerNeverMisleads
  <2> SUFFICES ASSUME Init PROVE TrackerNeverMisleads
    OBVIOUS
  <2>1. exchange.seen = {} /\ DOMAIN exchange.active = {}
    BY DEF Init, NewExchange
  <2>2. /\ InState(tracker, "kExchangeAccepted") = {}
        /\ InState(tracker, "kCancelled") = {}
    BY DEF Init, NewTracker, NoRecord, InState, Absent
  <2>3. gateway["orders_accepted"] = 0 /\ pipeline["orders_accepted"] = 0
    BY CounterNames DEF Init, NewGateway
  <2> QED BY <2>1, <2>2, <2>3, FS_EmptySet DEF TrackerNeverMisleads
<1>2. Inv /\ ExchangeBalances /\ TrackerNeverMisleads /\ [Step]_vars
        => TrackerNeverMisleads'
  BY MisleadsStep
<1> QED BY <1>1, <1>2, InvHolds, ExchangeBalancesHold, NextIsStep, PTL DEF Spec

----------------------------------------------------------------------------
(* RiskReasonsAgree: what the risk manager, the journal and the pipeline   *)
(* tell of the reasons orders were refused for.                            *)

\* What the risk manager's reasons are converted to.
RiskText == ReasonString["kRisk"]

\* The reports of the rejections for the given reason.
ReportsOf(reason) ==
  {i \in RiskReports(tracker.journal) :
     tracker.journal.reports[i].reject_reason = RiskText[reason]}

AllTold == wiring.risk_manager /\ wiring.pipeline_tracker /\ wiring.journal

\* RiskReasonsAgree, with the last report named instead of chosen.
ReasonsAreTold ==
  AllTold =>
    /\ tracker.attached
    /\ \A reason \in RiskRejectReason \ {"kNone"} :
         risk[reason] = Cardinality(ReportsOf(reason))
    /\ \/ /\ RiskReports(tracker.journal) = {}
          /\ last_risk_reject_reason = "kNone"
       \/ \E i \in RiskReports(tracker.journal) :
            /\ IsLast(i, RiskReports(tracker.journal))
            /\ tracker.journal.reports[i].reject_reason =
                 RiskText[last_risk_reject_reason]

\* Different reasons have different strings, and none is reported as "none".
LEMMA ReasonStrings ==
  /\ RiskText["kNone"] = "none"
  /\ \A a, b \in RiskRejectReason : RiskText[a] = RiskText[b] => a = b
<1>1. \A a \in RiskRejectReason : RiskText[a] = RiskReasonString[a]
  <2>1. "kRisk" \in RejectSource
    BY DEF RejectSource
  <2>2. /\ Conversion["kRisk"] = RiskReasonString
        /\ DOMAIN RiskReasonString = RiskRejectReason
    BY DEF Conversion, RiskReasonString, RiskRejectReason
  <2> QED BY <2>1, <2>2, ReasonTypes DEF ReasonString, RiskText
<1>2. RiskReasonString["kNone"] = "none" /\ "kNone" \in RiskRejectReason
  BY DEF RiskReasonString, RiskRejectReason
<1>3. \A a, b \in RiskRejectReason :
        RiskReasonString[a] = RiskReasonString[b] => a = b
  BY DEF RiskReasonString, RiskRejectReason
<1> QED BY <1>1, <1>2, <1>3

\* The names of the risk manager's counters are apart.
LEMMA ReasonCounters ==
  /\ RiskRejectReason \ {"kNone"} \subseteq RiskCounter
  /\ \A reason \in RiskRejectReason \ {"kNone"} :
       reason \notin {"orders_checked", "orders_accepted", "orders_rejected"}
BY DEF RiskRejectReason, RiskCounter

\* Check counts the reason of a rejection, and no other.
LEMMA CheckReasons ==
  ASSUME risk \in RiskManager, NEW o,
         NEW reason \in RiskRejectReason \ {"kNone"}
  PROVE  /\ risk[reason] \in Nat
         /\ Check(risk, o)[reason] =
              IF ~RiskDecision(o).accepted
                   /\ reason = RiskDecision(o).reject_reason
              THEN risk[reason] + 1 ELSE risk[reason]
<1> DEFINE refused == RiskDecision(o).reject_reason
           names == {"orders_checked"} \cup
                      (IF RiskDecision(o).accepted THEN {"orders_accepted"}
                       ELSE {"orders_rejected", refused})
<1>1. risk \in [RiskCounter -> Nat] /\ reason \in RiskCounter
  BY ReasonCounters DEF RiskManager
<1>2. reason \in names <=> ~RiskDecision(o).accepted /\ reason = refused
  BY ReasonCounters
<1>3. Check(risk, o) = Bump(risk, names)
  BY DEF Check
<1> HIDE DEF names, refused
<1>4. Check(risk, o)[reason] = IF reason \in names THEN risk[reason] + 1
                                                   ELSE risk[reason]
  BY <1>1, <1>3, BumpValue
<1> QED BY <1>1, <1>2, <1>4 DEF refused

\* A step that reports no rejection by the risk manager, and counts none.
LEMMA QuietKeepsReasons ==
  ASSUME ReasonsAreTold, wiring' = wiring, Quiet(tracker, tracker'),
         last_risk_reject_reason' = last_risk_reject_reason,
         AllTold => \A reason \in RiskRejectReason \ {"kNone"} :
                      risk'[reason] = risk[reason]
  PROVE  ReasonsAreTold'
<1> SUFFICES ASSUME AllTold PROVE ReasonsAreTold'
  BY DEF ReasonsAreTold, AllTold
<1> DEFINE j == tracker.journal
           k == tracker'.journal
<1>1. /\ tracker'.attached = tracker.attached
      /\ RiskReports(k) = RiskReports(j)
      /\ \A i \in RiskReports(j) : k.reports[i] = j.reports[i]
  BY DEF Quiet
<1>2. \A reason : ReportsOf(reason)' = ReportsOf(reason)
  BY <1>1 DEF ReportsOf
<1>3. /\ tracker'.attached
      /\ \A reason \in RiskRejectReason \ {"kNone"} :
           risk'[reason] = Cardinality(ReportsOf(reason)')
  BY <1>1, <1>2 DEF ReasonsAreTold
<1>4. \/ RiskReports(k) = {} /\ last_risk_reject_reason' = "kNone"
      \/ \E i \in RiskReports(k) :
           /\ IsLast(i, RiskReports(k))
           /\ k.reports[i].reject_reason =
                RiskText[last_risk_reject_reason']
  BY <1>1 DEF ReasonsAreTold
<1> QED BY <1>3, <1>4 DEF ReasonsAreTold

\* No call but MarkRiskRejected reports a rejection by the risk manager.
LEMMA StepsAreQuiet ==
  ASSUME Inv, Step, ~DrainRiskRejected
  PROVE  Quiet(tracker, tracker')
<1>0. tracker \in Tracker /\ TypeOK
  BY DEF Inv, TypeOK
<1>1. ASSUME tracker' = tracker
      PROVE  Quiet(tracker, tracker')
  BY <1>1 DEF Quiet
<1>2. ASSUME NEW o \in Order, Enqueue(o)
      PROVE  Quiet(tracker, tracker')
  <2>1. o.sequence_id \in SeqId
    BY PipelineAssumption DEF Order
  <2>2. tracker' = tracker \/ tracker' = RegisterQueued(tracker, o.sequence_id)
    BY <1>2 DEF Enqueue, EnqueueRejected, EnqueueDropped, EnqueueQueued,
                Tracked
  <2> QED BY <1>0, <1>1, <2>1, <2>2, RegisterQueuedQuiet
<1>3. ASSUME NEW s \in SeqId, NEW pending, NEW settled,
             NEW reason \in RejectReason \ {"kNone"},
             pending \in {MarkSent(tracker, s), MarkCancelPending(tracker, s),
                          MarkAmendPending(tracker, s)},
             \/ settled = MarkExchangeAccepted(pending, s)
             \/ settled = MarkExchangeRejected(pending, s, reason)
             \/ settled = MarkCancelled(pending, s)
             \/ settled = MarkCancelRejected(pending, s, reason)
             \/ settled = MarkAmendAccepted(pending, s)
             \/ settled = MarkAmendRejected(pending, s, reason)
      PROVE  Quiet(tracker, pending) /\ Quiet(tracker, settled)
  <2>1. pending \in Tracker /\ Quiet(tracker, pending)
    BY <1>0, <1>3, CallsAreQuiet
  <2>2. Quiet(pending, settled)
    BY <1>3, <2>1, CallsAreQuiet
  <2> QED BY <2>1, <2>2, QuietTwice
<1>4. CASE DrainNoGateway \/ DrainSent
  <2> DEFINE s == Popped.sequence_id
             sent == MarkSent(tracker, s)
             resp == SendOrderResponse(Popped)
  <2>1. s \in SeqId
    BY <1>4, PoppedIsQueued DEF DrainNoGateway, DrainSent, PopOrder
  <2>2. PICK reason \in RejectReason \ {"kNone"} :
          \/ tracker' = tracker
          \/ tracker' = MarkExchangeAccepted(sent, s)
          \/ tracker' = MarkExchangeRejected(sent, s, reason)
    <3>1. CASE DrainNoGateway
      <4>1. \/ tracker' = tracker
            \/ tracker' = MarkExchangeRejected(sent, s, "kInvalidSymbol")
        BY <3>1 DEF DrainNoGateway, Tracked, Popped
      <4> QED BY <4>1, ReasonTypes
    <3>2. CASE DrainSent /\ resp.accepted
      <4>1. tracker' = tracker \/ tracker' = MarkExchangeAccepted(sent, s)
        BY <3>2 DEF DrainSent, Tracked, Popped
      <4> QED BY <4>1, ReasonTypes
    <3>3. CASE DrainSent /\ ~resp.accepted
      <4>1. \/ tracker' = tracker
            \/ tracker' = MarkExchangeRejected(sent, s, resp.reject_reason)
        BY <3>3 DEF DrainSent, Tracked, Popped
      <4>2. resp.reject_reason \in RejectReason \ {"kNone"}
        BY <3>3, SubmitReasons, ReasonTypes DEF SendOrderResponse, Rejected
      <4> HIDE DEF resp
      <4> QED BY <4>1, <4>2
    <3> QED BY <1>4, <3>1, <3>2, <3>3
  <2>3. CASE tracker' = tracker
    BY <1>1, <2>3
  <2>4. CASE tracker' # tracker
    BY <1>3, <2>1, <2>2, <2>4
  <2> QED BY <2>3, <2>4
<1>5. ASSUME NEW s \in SeqId, ClientCancel(s)
      PROVE  Quiet(tracker, tracker')
  <2> DEFINE pending == MarkCancelPending(tracker, s)
  <2>1. PICK reason \in RejectReason \ {"kNone"} :
          \/ tracker' = tracker
          \/ tracker' = pending
          \/ tracker' = MarkCancelled(pending, s)
          \/ tracker' = MarkCancelRejected(pending, s, reason)
    <3> DEFINE resp == IF wiring.gateway_exchange
                       THEN CancelResponse(exchange, s)
                       ELSE Rejected("kUnknownOrder")
    <3>1. \/ tracker' = tracker
          \/ tracker' = pending
          \/ resp.accepted /\ tracker' = MarkCancelled(pending, s)
          \/ /\ ~resp.accepted
             /\ tracker' = MarkCancelRejected(pending, s, resp.reject_reason)
      BY <1>5 DEF ClientCancel, SendCancel, SendCancelRefused,
                  SendCancelForwarded
    <3>2. ~resp.accepted => resp.reject_reason \in RejectReason \ {"kNone"}
      BY CancelReasons, ReasonTypes DEF Rejected
    <3> HIDE DEF resp
    <3> QED BY <3>1, <3>2, ReasonTypes
  <2>2. CASE tracker' = tracker
    BY <1>1, <2>2
  <2>3. CASE tracker' = pending
    BY <1>3, <2>1, <2>3
  <2>4. CASE tracker' \notin {tracker, pending}
    BY <1>3, <2>1, <2>4
  <2> QED BY <2>2, <2>3, <2>4
<1>6. ASSUME NEW req \in Amends, ClientAmend(req)
      PROVE  Quiet(tracker, tracker')
  <2> DEFINE s == req.sequence_id
             pending == MarkAmendPending(tracker, s)
  <2>0. s \in SeqId
    BY PipelineAssumption DEF AmendRequest
  <2>1. PICK reason \in RejectReason \ {"kNone"} :
          \/ tracker' = tracker
          \/ tracker' = pending
          \/ tracker' = MarkAmendAccepted(pending, s)
          \/ tracker' = MarkAmendRejected(pending, s, reason)
    <3> DEFINE resp == IF wiring.gateway_exchange
                       THEN AmendResponse(exchange, req)
                       ELSE Rejected("kUnknownOrder")
    <3>1. \/ tracker' = tracker
          \/ tracker' = pending
          \/ resp.accepted /\ tracker' = MarkAmendAccepted(pending, s)
          \/ /\ ~resp.accepted
             /\ tracker' = MarkAmendRejected(pending, s, resp.reject_reason)
      BY <1>6 DEF ClientAmend, SendAmend, SendAmendRefused, SendAmendForwarded
    <3>2. ~resp.accepted => resp.reject_reason \in RejectReason \ {"kNone"}
      BY AmendReasons, ReasonTypes DEF Rejected
    <3> HIDE DEF resp
    <3> QED BY <3>1, <3>2, ReasonTypes
  <2> HIDE DEF s
  <2>2. CASE tracker' = tracker
    BY <1>1, <2>2
  <2>3. CASE tracker' = pending
    BY <1>3, <2>0, <2>1, <2>3
  <2>4. CASE tracker' \notin {tracker, pending}
    BY <1>3, <2>0, <2>1, <2>4
  <2> QED BY <2>2, <2>3, <2>4
<1>7. CASE \/ BeginDrain \/ EndDrain \/ \E o \in Order : ClientSend(o)
           \/ \E s \in SeqId : ClientCancelDirectly(s)
  BY <1>1, <1>7
  DEF BeginDrain, EndDrain, ClientSend, ClientCancelDirectly, gatewayVars
<1> QED BY <1>2, <1>4, <1>5, <1>6, <1>7 DEF Step, DrainStep

\* A rejected order adds one report, the last, with the reason it was
\* counted under.
LEMMA RejectionKeepsReasons ==
  ASSUME Inv, ReasonsAreTold, DrainRiskRejected
  PROVE  ReasonsAreTold'
<1> DEFINE s == Popped.sequence_id
           refused == RiskDecision(Popped).reject_reason
           u == MarkRiskRejected(tracker, s, refused)
           j == tracker.journal
           k == tracker'.journal
           n == Len(j.reports)
<1>1. wiring' = wiring
  BY DEF DrainRiskRejected, PopOrder
<1> SUFFICES ASSUME AllTold PROVE ReasonsAreTold'
  BY <1>1 DEF ReasonsAreTold, AllTold
<1>2. /\ s \in SeqId /\ tracker \in Tracker /\ j \in Journal
      /\ StateOf(tracker, s) = "kQueued" /\ risk \in RiskManager
  BY PoppedIsQueued DEF Inv, TypeOK, AllTold, DrainRiskRejected, PopOrder,
                        Tracker
<1>3. /\ refused \in RiskRejectReason \ {"kNone"}
      /\ refused \in RejectReason \ {"kNone"}
      /\ ~RiskDecision(Popped).accepted /\ risk' = Check(risk, Popped)
  BY RiskReasons, ReasonTypes, RiskRejectedFollows
<1>4. tracker' = u /\ last_risk_reject_reason' = refused
  BY DEF DrainRiskRejected, Tracked, AllTold, Popped
<1> HIDE DEF refused
<1>5. /\ u.attached = tracker.attached
      /\ u.journal = IF tracker.attached
                     THEN RecordRejected(j, s, "kRisk", refused)
                     ELSE j
  <2>0. /\ {"kQueued", "kRiskRejected"} \subseteq OrderLifecycleState
        /\ "kRisk" \in RejectSource
    BY StateTypes
  <2> DEFINE w == MarkRejected(tracker, s, "kQueued", "kRiskRejected",
                               "orders_risk_rejected", "kRisk", refused)
  <2>1. /\ w.records = [tracker.records EXCEPT
                          ![s] = [state |-> "kRiskRejected",
                                  reason |-> [tracker.records[s].reason
                                                EXCEPT !["kRisk"] = refused]]]
        /\ w.attached = tracker.attached
        /\ w.journal = IF tracker.attached
                       THEN RecordRejected(j, s, "kRisk", refused)
                       ELSE j
    <3> HIDE DEF s
    <3> QED BY <1>2, <1>3, <2>0, MarkRejectedWrites
  <2> QED BY <2>1 DEF MarkRiskRejected
<1>6. tracker.attached
  BY DEF ReasonsAreTold
<1> DEFINE report == [event_index |-> j.next_event_index, sequence_id |-> s,
                      type |-> "kRiskRejected", reject_source |-> "kRisk",
                      reject_reason |-> RiskText[refused]]
<1>7. Appends(j, k, report)
  <2>1. k = Record(j, s, "kRiskRejected", "kRisk", RiskText[refused])
    BY <1>4, <1>5, <1>6 DEF RecordRejected, RiskText
  <2> QED BY <1>2, <2>1, RecordAppends
<1>8. /\ report.type = "kRiskRejected"
      /\ report.reject_reason = RiskText[refused]
  OBVIOUS
<1> HIDE DEF u, k, report
<1>9. /\ n \in Nat /\ Len(k.reports) = n + 1 /\ k.reports[n + 1] = report
      /\ \A i \in 1..n : k.reports[i] = j.reports[i]
  BY <1>7 DEF Appends
<1>10. RiskReports(j) = {i \in 1..n : j.reports[i].type = "kRiskRejected"}
  BY DEF RiskReports
<1> HIDE DEF n
<1>11. /\ \A i : i \in 1..(n + 1) <=> i \in 1..n \/ i = n + 1
       /\ n + 1 \notin 1..n /\ \A i \in 1..n : i <= n + 1
  BY <1>9
<1>12. /\ RiskReports(k) = RiskReports(j) \cup {n + 1}
       /\ RiskReports(j) \subseteq 1..n
  BY <1>8, <1>9, <1>10, <1>11 DEF RiskReports
<1>13. /\ IsLast(n + 1, RiskReports(k))
       /\ k.reports[n + 1].reject_reason = RiskText[refused]
  BY <1>8, <1>9, <1>11, <1>12 DEF IsLast
<1>14. ASSUME NEW reason \in RiskRejectReason \ {"kNone"}
       PROVE  risk'[reason] = Cardinality(ReportsOf(reason)')
  <2> DEFINE before == ReportsOf(reason)
             after == ReportsOf(reason)'
  <2>1. before = {i \in RiskReports(j) :
                    j.reports[i].reject_reason = RiskText[reason]}
    BY DEF ReportsOf
  <2>2. after = {i \in RiskReports(k) :
                   k.reports[i].reject_reason = RiskText[reason]}
    BY DEF ReportsOf, k
  <2>3. RiskText[reason] = RiskText[refused] <=> reason = refused
    BY <1>3, <1>14, ReasonStrings
  <2>4. risk[reason] = Cardinality(before)
    BY <1>14 DEF ReasonsAreTold
  <2>5. /\ risk[reason] \in Nat
        /\ risk'[reason] = IF reason = refused THEN risk[reason] + 1
                                               ELSE risk[reason]
    BY <1>2, <1>3, <1>14, CheckReasons DEF refused
  <2> HIDE DEF before, after, j
  <2>6. before \subseteq 1..n /\ n + 1 \notin before /\ IsFiniteSet(before)
    <3>1. before \subseteq 1..n
      BY <1>12, <2>1
    <3>2. IsFiniteSet(1..n)
      BY <1>9, FS_Interval
    <3> QED BY <1>11, <3>1, <3>2, FS_Subset
  <2>7. /\ reason = refused => after = before \cup {n + 1}
        /\ reason # refused => after = before
    <3>1. \A i \in RiskReports(j) : k.reports[i] = j.reports[i]
      BY <1>9, <1>12
    <3>2. k.reports[n + 1].reject_reason = RiskText[reason]
            <=> reason = refused
      BY <1>13, <2>3
    <3>3. \A i : i \in after <=> i \in before \/ (i = n + 1 /\ reason = refused)
      BY <1>12, <2>1, <2>2, <3>1, <3>2
    <3>4. ASSUME reason = refused
          PROVE  after = before \cup {n + 1}
      BY <3>3, <3>4
    <3>5. ASSUME reason # refused
          PROVE  after = before
      BY <3>3, <3>5
    <3> QED BY <3>4, <3>5
  <2> QED BY <2>4, <2>5, <2>6, <2>7, FS_AddElement DEF after
<1>15. tracker'.attached
  BY <1>4, <1>5, <1>6
<1>16. \E i \in RiskReports(k) :
         /\ IsLast(i, RiskReports(k))
         /\ k.reports[i].reject_reason = RiskText[last_risk_reject_reason']
  BY <1>4, <1>12, <1>13
<1> QED BY <1>14, <1>15, <1>16 DEF ReasonsAreTold, k

\* Each reason is counted as often as it is reported, and remembered.
THEOREM ReasonsAgree == Spec => []RiskReasonsAgree
<1>1. Init => ReasonsAreTold
  <2> SUFFICES ASSUME Init, AllTold PROVE ReasonsAreTold
    BY DEF ReasonsAreTold
  <2>1. /\ tracker.attached /\ tracker.journal.reports = <<>>
        /\ last_risk_reject_reason = "kNone"
    BY DEF Init, AllTold, NewTracker, NewJournal
  <2>2. RiskReports(tracker.journal) = {}
    BY <2>1 DEF RiskReports
  <2>3. \A reason \in RiskRejectReason \ {"kNone"} :
          risk[reason] = 0 /\ ReportsOf(reason) = {}
    BY <2>2, ReasonCounters DEF Init, NewRiskManager, ReportsOf
  <2> QED BY <2>1, <2>2, <2>3, FS_EmptySet DEF ReasonsAreTold
<1>2. Inv /\ ReasonsAreTold /\ [Step]_vars => ReasonsAreTold'
  <2> SUFFICES ASSUME Inv, ReasonsAreTold, [Step]_vars
               PROVE  ReasonsAreTold'
    OBVIOUS
  <2>0. risk \in RiskManager
    BY DEF Inv, TypeOK
  <2>1. CASE DrainRiskRejected
    BY <2>1, RejectionKeepsReasons
  <2>2. CASE Step /\ ~DrainRiskRejected
    <3>1. Quiet(tracker, tracker')
      BY <2>2, StepsAreQuiet
    <3>2. /\ wiring' = wiring
          /\ last_risk_reject_reason' = last_risk_reject_reason
          /\ \/ risk' = risk
             \/ /\ risk' = IF wiring.risk_manager THEN Check(risk, Popped)
                                                  ELSE risk
                /\ PassesRisk(Popped)
      BY <2>2
      DEF Step, DrainStep, Enqueue, BeginDrain, EndDrain, DrainNoGateway,
          DrainSent, PopOrder, Popped, ClientCancel, ClientAmend, ClientSend,
          ClientCancelDirectly, pipelineVars, gatewayVars
    <3>3. \A reason \in RiskRejectReason \ {"kNone"} :
            risk'[reason] = risk[reason]
      BY <2>0, <3>2, CheckReasons DEF PassesRisk
    <3> QED BY <3>1, <3>2, <3>3, QuietKeepsReasons
  <2>3. CASE UNCHANGED vars
    <3>1. /\ Quiet(tracker, tracker') /\ wiring' = wiring /\ risk' = risk
          /\ last_risk_reject_reason' = last_risk_reject_reason
      BY <2>3 DEF vars, Quiet
    <3> QED BY <3>1, QuietKeepsReasons
  <2> QED BY <2>1, <2>2, <2>3
<1>3. ReasonsAreTold => RiskReasonsAgree
  <2> SUFFICES ASSUME ReasonsAreTold, AllTold PROVE RiskReasonsAgree
    BY DEF RiskReasonsAgree, AllTold
  <2> DEFINE reports == tracker.journal.reports
             rejected == {i \in 1..Len(reports) :
                            reports[i].type = "kRiskRejected"}
             Latest(i) == i \in rejected /\ \A k \in rejected : k <= i
             latest == CHOOSE i \in rejected : \A k \in rejected : k <= i
  <2>1. rejected = RiskReports(tracker.journal)
    BY DEF RiskReports
  <2>2. \A reason \in RiskRejectReason \ {"kNone"} :
          risk[reason] = Cardinality({i \in rejected :
            reports[i].reject_reason = RiskText[reason]})
    BY <2>1 DEF ReasonsAreTold, ReportsOf
  <2>3. RiskText[last_risk_reject_reason] =
          IF rejected = {} THEN "none" ELSE reports[latest].reject_reason
    <3>1. CASE rejected = {}
      BY <2>1, <3>1, ReasonStrings DEF ReasonsAreTold
    <3>2. CASE rejected # {}
      <4>1. PICK i \in rejected :
              /\ \A k \in rejected : k <= i
              /\ reports[i].reject_reason =
                   RiskText[last_risk_reject_reason]
        BY <2>1, <3>2 DEF ReasonsAreTold, IsLast
      <4>2. latest \in rejected /\ \A k \in rejected : k <= latest
        BY <4>1
      <4>3. rejected \subseteq Int
        OBVIOUS
      <4> HIDE DEF rejected, latest
      <4>4. latest = i
        BY <4>1, <4>2, <4>3
      <4> QED BY <3>2, <4>1, <4>4
    <3> QED BY <3>1, <3>2
  <2> QED BY <2>2, <2>3 DEF RiskReasonsAgree, RiskText
<1> QED BY <1>1, <1>2, <1>3, InvHolds, NextIsStep, PTL DEF Spec

----------------------------------------------------------------------------
(* The refinement of OrderBook. *)

\* Everything is given but, perhaps, the journal; nobody sends orders past
\* the pipeline or cancels them behind the gateway.
Wired(w) ==
  /\ w.risk_manager /\ w.pipeline_tracker /\ w.pipeline_gateway
  /\ w.gateway_tracker /\ w.gateway_exchange

WiredAsInMain ==
  ~DirectSend /\ DirectCancels = {} /\ \A w \in Wirings : Wired(w)

\* What the mapping to the order book rests on.
BookInv ==
  /\ Inv
  /\ BookMatchesTracker
  /\ BookIsTradable
  /\ queue \in Seq(Orders)
  /\ Wired(wiring) /\ ~DirectSend /\ DirectCancels = {}

\* The invariant behind the refinement, from the theorems about the pipeline.
LEMMA BookInvHolds ==
  ASSUME WiredAsInMain
  PROVE  Spec => []BookInv
<1>1. Init => queue \in Seq(Orders) /\ Wired(wiring)
  BY DEF Init, WiredAsInMain
<1>2. Inv /\ queue \in Seq(Orders) /\ Wired(wiring) /\ [Next]_vars
        => (queue \in Seq(Orders) /\ Wired(wiring))'
  <2> SUFFICES ASSUME Inv, queue \in Seq(Orders), Wired(wiring), [Next]_vars
               PROVE  queue' \in Seq(Orders) /\ wiring' = wiring
    BY DEF Wired
  <2>1. ASSUME NEW o \in Orders, Enqueue(o)
        PROVE  queue' \in Seq(Orders) /\ wiring' = wiring
    <3>1. queue' = queue \/ queue' = Append(queue, o)
      BY <2>1 DEF Enqueue, EnqueueRejected, EnqueueDropped, EnqueueQueued
    <3> QED BY <2>1, <3>1, AppendProperties DEF Enqueue
  <2>2. CASE PopOrder
    BY <2>2, HeadTailProperties DEF PopOrder
  <2>3. CASE \/ BeginDrain \/ EndDrain \/ UNCHANGED vars
             \/ \E s \in SeqId : ClientCancel(s)
             \/ \E req \in Amends : ClientAmend(req)
             \/ \E o \in Orders : ClientSend(o)
             \/ \E s \in SeqId : ClientCancelDirectly(s)
    BY <2>3 DEF BeginDrain, EndDrain, vars, ClientCancel, ClientAmend,
                ClientSend, ClientCancelDirectly, pipelineVars
  <2> QED BY <2>1, <2>2, <2>3
          DEF Next, DrainStep, DrainRiskRejected, DrainNoGateway, DrainSent
<1>3. Inv => TypeOK
  BY DEF Inv
<1>4. Init => BookIsTradable
  BY DEF Init, NewExchange, BookIsTradable
<1>5. Inv /\ BookIsTradable /\ [Next]_vars => BookIsTradable'
  BY ForwardStep, NextIsStep
<1>6. ~DirectSend /\ DirectCancels = {}
  BY DEF WiredAsInMain
<1>7. /\ Inv /\ BookMatchesTracker /\ BookIsTradable
      /\ queue \in Seq(Orders) /\ Wired(wiring)
      => BookInv
  BY <1>6 DEF BookInv
<1> QED BY <1>1, <1>2, <1>4, <1>5, <1>7, InvHolds, BookAndTrackerAgree, PTL
        DEF Spec

----------------------------------------------------------------------------
(* The two components of the mapping, without their definitions. *)

bookStatus == [s \in SeqId |-> Status(s)]

bookOrder == [s \in DOMAIN exchange.active \cup QueuedIds |-> OrderOf(s)]

\* The status of an id, read off the tracker alone.
StatusIn(state) ==
  IF state = "kExchangeAccepted" THEN "live"
  ELSE IF state = "kCancelled" THEN "cancelled"
  ELSE IF state = "kQueued" THEN "pending"
  ELSE IF state \in {"kRiskRejected", "kExchangeRejected"} THEN "rejected"
  ELSE "new"

\* The mapping, said without CHOOSE.
MappingKnown ==
  /\ bookStatus = [s \in SeqId |-> StatusIn(StateOf(tracker, s))]
  /\ DOMAIN bookOrder = DOMAIN exchange.active \cup QueuedIds
  /\ bookOrder = [s \in DOMAIN bookOrder |-> bookOrder[s]]
  /\ \A s \in DOMAIN exchange.active : bookOrder[s] = exchange.active[s]
  /\ \A i \in 1..Len(queue) : bookOrder[queue[i].sequence_id] = queue[i]

\* The two forms of the mapping agree in every reachable state.
LEMMA Mapping == BookInv => MappingKnown
<1> SUFFICES ASSUME BookInv PROVE MappingKnown
  OBVIOUS
<1>1. /\ DOMAIN exchange.active = InState(tracker, "kExchangeAccepted")
      /\ exchange.seen = InState(tracker, "kExchangeAccepted")
                           \cup InState(tracker, "kCancelled")
      /\ QueuedIds = InState(tracker, "kQueued")
      /\ Distinct(queue)
  BY DEF BookInv, BookMatchesTracker, FullyTracked, Wired, Inv,
         QueueMatchesTracker, Distinct
<1>2. \A s \in SeqId : \A state : s \in InState(tracker, state)
                                    <=> StateOf(tracker, s) = state
  BY DEF InState, StateOf
<1>3. ASSUME NEW s \in SeqId
      PROVE  Status(s) = StatusIn(StateOf(tracker, s))
  BY <1>1, <1>2 DEF Status, StatusIn, HasActiveOrder
<1>4. bookStatus = [s \in SeqId |-> StatusIn(StateOf(tracker, s))]
  BY <1>3 DEF bookStatus
<1>5. DOMAIN bookOrder = DOMAIN exchange.active \cup QueuedIds
      /\ bookOrder = [s \in DOMAIN bookOrder |-> bookOrder[s]]
      /\ \A s \in DOMAIN bookOrder : bookOrder[s] = OrderOf(s)
  BY DEF bookOrder
<1>6. \A s \in DOMAIN exchange.active : bookOrder[s] = exchange.active[s]
  BY <1>5 DEF OrderOf, HasActiveOrder
<1>7. ASSUME NEW i \in 1..Len(queue)
      PROVE  bookOrder[queue[i].sequence_id] = queue[i]
  <2> DEFINE s == queue[i].sequence_id
             k == CHOOSE n \in 1..Len(queue) : queue[n].sequence_id = s
  <2>1. s \in QueuedIds
    BY DEF QueuedIds
  <2>2. s \notin DOMAIN exchange.active
    BY <1>1, <2>1 DEF InState
  <2>3. OrderOf(s) = queue[k]
    BY <2>2 DEF OrderOf, HasActiveOrder
  <2>4. k \in 1..Len(queue) /\ queue[k].sequence_id = s
    OBVIOUS
  <2> HIDE DEF k
  <2>5. k = i
    BY <1>1, <2>4 DEF Distinct
  <2> QED BY <1>5, <2>1, <2>3, <2>5
<1> QED BY <1>4, <1>5, <1>6, <1>7 DEF MappingKnown

\* ... and so in the state after a step.
LEMMA MappingPrimed == BookInv' => MappingKnown'
BY Mapping, PTL

\* An order that a step leaves in the queue keeps its place in the mapping.
LEMMA QueuedOrderKept ==
  ASSUME BookInv, MappingKnown, MappingKnown', NEW o \in Order,
         \/ queue' = queue
         \/ queue' = Append(queue, o)
         \/ queue # <<>> /\ queue' = Tail(queue),
         NEW s \in QueuedIds, s \in QueuedIds'
  PROVE  bookOrder'[s] = bookOrder[s]
<1>0. queue \in Seq(Order) /\ Distinct(queue)
  BY DEF BookInv, Inv, TypeOK, QueueMatchesTracker, Distinct, Wired
<1>1. PICK i \in 1..Len(queue) : queue[i].sequence_id = s
  BY DEF QueuedIds
<1>2. bookOrder[s] = queue[i]
  BY <1>1 DEF MappingKnown
<1>3. \A k \in 1..Len(queue') : bookOrder'[queue'[k].sequence_id] = queue'[k]
  BY DEF MappingKnown
<1>4. CASE queue' = queue
  BY <1>1, <1>2, <1>3, <1>4
<1>5. CASE queue' = Append(queue, o)
  <2>1. i \in 1..Len(queue') /\ queue'[i] = queue[i]
    BY <1>0, <1>5, AppendProperties, LenProperties
  <2> QED BY <1>1, <1>2, <1>3, <2>1
<1>6. CASE queue # <<>> /\ queue' = Tail(queue)
  <2>1. /\ Len(queue) \in Nat /\ Len(queue') = Len(queue) - 1
        /\ \A k \in 1..Len(queue') : queue'[k] = queue[k + 1]
    BY <1>0, <1>6, HeadTailProperties, LenProperties
  <2>2. PICK k \in 1..Len(queue') : queue'[k].sequence_id = s
    BY DEF QueuedIds
  <2>3. k + 1 \in 1..Len(queue)
    BY <2>1
  <2>4. queue[k + 1].sequence_id = s
    BY <2>1, <2>2
  <2>5. k + 1 = i
    BY <1>0, <1>1, <2>3, <2>4 DEF Distinct
  <2>6. queue'[k] = queue[i]
    BY <2>1, <2>5
  <2> QED BY <1>2, <1>3, <2>2, <2>6
<1> QED BY <1>4, <1>5, <1>6

----------------------------------------------------------------------------
(* Each step is one of the order book's, or a stutter. *)

\* Moving an order changes its status, and no other.
LEMMA StatusMoves ==
  ASSUME MappingKnown, MappingKnown', NEW s \in SeqId, NEW next, NEW names,
         Moved(tracker, tracker', s, next, names)
  PROVE  /\ bookStatus[s] = StatusIn(StateOf(tracker, s))
         /\ bookStatus' = [bookStatus EXCEPT ![s] = StatusIn(next)]
<1>1. /\ bookStatus = [r \in SeqId |-> StatusIn(StateOf(tracker, r))]
      /\ bookStatus' = [r \in SeqId |-> StatusIn(StateOf(tracker', r))]
  BY DEF MappingKnown
<1>2. \A r \in SeqId : StateOf(tracker', r) =
                         IF r = s THEN next ELSE StateOf(tracker, r)
  BY DEF Moved
<1> QED BY <1>1, <1>2

\* What every step below starts from.
LEMMA BookInvFacts ==
  ASSUME BookInv
  PROVE  /\ Inv /\ TypeOK /\ IsExchange(exchange) /\ Wired(wiring)
         /\ DOMAIN exchange.active = InState(tracker, "kExchangeAccepted")
         /\ exchange.seen = InState(tracker, "kExchangeAccepted")
                              \cup InState(tracker, "kCancelled")
         /\ QueuedIds = InState(tracker, "kQueued")
         /\ \A s \in SeqId : \A state : s \in InState(tracker, state)
                                            <=> StateOf(tracker, s) = state
BY DEF BookInv, BookMatchesTracker, FullyTracked, Wired, Inv, TypeOK,
       QueueMatchesTracker, InState, StateOf

\* Enqueue takes an order in.
LEMMA TakeStep ==
  ASSUME BookInv, MappingKnown, MappingKnown', NEW o \in Orders,
         Enqueue(o), EnqueueQueued(o)
  PROVE  Book!Take(o)
<1> DEFINE s == o.sequence_id
<1>1. o \in Order /\ s \in SeqId /\ queue \in Seq(Order)
  BY PipelineAssumption DEF Order, BookInv, Inv, TypeOK
<1>2. /\ exchange' = exchange /\ queue' = Append(queue, o)
      /\ StateOf(tracker, s) = "absent"
  BY DEF Enqueue, EnqueueQueued, IsKnown, Contains, StateOf, Absent, BookInv,
         Wired
<1>3. Moved(tracker, tracker', s, "kQueued",
            {"orders_registered", "orders_queued"})
  BY PipelineAssumption, EnqueueFollows DEF Follows, BookInv, Wired
<1>4. /\ bookStatus[s] = "new"
      /\ bookStatus' = [bookStatus EXCEPT ![s] = "pending"]
  BY <1>1, <1>2, <1>3, StatusMoves DEF StatusIn
<1>5. /\ Len(queue) \in Nat /\ Len(queue') = Len(queue) + 1
      /\ \A i \in 1..Len(queue) : queue'[i] = queue[i]
      /\ queue'[Len(queue) + 1] = o
  BY <1>1, <1>2, AppendProperties, LenProperties
<1>6. QueuedIds' = QueuedIds \cup {s}
  <2>1. \A i \in 1..Len(queue') : i \in 1..Len(queue) \/ i = Len(queue) + 1
    BY <1>5
  <2>2. 1..Len(queue) \subseteq 1..Len(queue')
        /\ Len(queue) + 1 \in 1..Len(queue')
    BY <1>5
  <2> QED BY <1>5, <2>1, <2>2 DEF QueuedIds
<1>7. s \notin DOMAIN exchange.active /\ s \notin QueuedIds
  BY <1>1, <1>2, BookInvFacts
<1>8. bookOrder'[s] = o
  <2>1. Len(queue) + 1 \in 1..Len(queue')
    BY <1>5
  <2> QED BY <1>5, <2>1 DEF MappingKnown
<1>9. \A r \in DOMAIN bookOrder : bookOrder'[r] = bookOrder[r]
  <2>1. \A r \in DOMAIN exchange.active : bookOrder'[r] = bookOrder[r]
    BY <1>2 DEF MappingKnown
  <2>2. \A r \in QueuedIds : bookOrder'[r] = bookOrder[r]
    BY <1>1, <1>2, <1>6, QueuedOrderKept
  <2> QED BY <2>1, <2>2 DEF MappingKnown
<1>10. /\ DOMAIN bookOrder' = DOMAIN bookOrder \cup {s}
       /\ bookOrder' = [r \in DOMAIN bookOrder' |-> bookOrder'[r]]
  BY <1>2, <1>6 DEF MappingKnown
<1>11. s \notin DOMAIN bookOrder
  BY <1>7 DEF MappingKnown
<1> HIDE DEF s
<1>12. bookOrder' = [r \in DOMAIN bookOrder \cup {s} |->
                      IF r = s THEN o ELSE bookOrder[r]]
  BY <1>8, <1>9, <1>10, <1>11
<1> QED BY <1>4, <1>12 DEF Book!Take, bookStatus, bookOrder, s

\* The order that is popped is the one its id is mapped to.
LEMMA PopFacts ==
  ASSUME BookInv, MappingKnown, PopOrder
  PROVE  LET s == Popped.sequence_id
         IN  /\ s \in SeqId /\ Popped \in Orders /\ Popped \in Order
             /\ queue # <<>> /\ queue' = Tail(queue)
             /\ StateOf(tracker, s) = "kQueued"
             /\ s \in QueuedIds /\ QueuedIds' = QueuedIds \ {s}
             /\ s \notin DOMAIN exchange.active /\ s \notin exchange.seen
             /\ bookOrder[s] = Popped
<1> DEFINE s == Popped.sequence_id
<1>1. queue # <<>> /\ queue' = Tail(queue) /\ Inv /\ queue \in Seq(Order)
      /\ Distinct(queue) /\ queue \in Seq(Orders)
  BY DEF PopOrder, BookInv, Inv, TypeOK, QueueMatchesTracker, Distinct, Wired
<1>2. /\ Popped \in Order /\ s \in SeqId /\ Popped = queue[1]
      /\ 1 \in 1..Len(queue) /\ StateOf(tracker, s) = "kQueued"
  BY <1>1, PoppedIsQueued DEF BookInv, Wired
<1>3. Popped \in Orders
  BY <1>1, <1>2
<1>4. bookOrder[s] = Popped
  BY <1>2 DEF MappingKnown
<1>5. s \in QueuedIds /\ s \notin DOMAIN exchange.active
      /\ s \notin exchange.seen
  BY <1>2, BookInvFacts
<1>6. QueuedIds' = QueuedIds \ {s}
  <2>1. Ids(Tail(queue)) = Ids(queue) \ {queue[1].sequence_id}
    BY <1>1, PoppedIds
  <2>2. QueuedIds = Ids(queue) /\ QueuedIds' = Ids(queue')
    BY DEF QueuedIds, Ids
  <2> QED BY <1>1, <1>2, <2>1, <2>2
<1> QED BY <1>1, <1>2, <1>3, <1>4, <1>5, <1>6

\* An order within the limits goes live: the gateway never refuses what the
\* risk manager accepts.
LEMMA GoLiveStep ==
  ASSUME BookInv, MappingKnown, MappingKnown', DrainSent
  PROVE  Book!GoLive(Popped.sequence_id)
<1> DEFINE s == Popped.sequence_id
<1>0. PopOrder /\ PassesRisk(Popped) /\ SendOrder(Popped)
  BY DEF DrainSent, Popped
<1>1. /\ s \in SeqId /\ Popped \in Orders /\ Popped \in Order
      /\ queue # <<>> /\ queue' = Tail(queue)
      /\ StateOf(tracker, s) = "kQueued"
      /\ s \in QueuedIds /\ QueuedIds' = QueuedIds \ {s}
      /\ s \notin DOMAIN exchange.active /\ s \notin exchange.seen
      /\ bookOrder[s] = Popped
  BY <1>0, PopFacts
<1>2. WithinLimits(Popped)
  BY <1>0, <1>1, RiskVerdict DEF PassesRisk, BookInv, Wired
<1>3. SubmitResponse(exchange, Popped).accepted
  <2>1. Popped.price \in Double /\ Popped.quantity \in Nat
        /\ RiskLimits.max_order_quantity \in Nat
    BY <1>1, RiskLimitsAssumption DEF Order
  <2>2. /\ Popped.symbol # <<>> /\ ~IsInvalidPrice(Popped.price)
        /\ Popped.quantity # 0
    BY <1>2, <2>1, ValidPrice DEF WithinLimits
  <2> QED BY <1>1, <2>2 DEF SubmitResponse, Accepted
<1>4. SendOrderResponse(Popped).accepted
      /\ exchange' = SubmitOrder(exchange, Popped)
  BY <1>0, <1>1, <1>3, BookInvFacts, SendOrderEffect
  DEF SendOrderResponse, Wired
<1>5. /\ DOMAIN exchange'.active = DOMAIN exchange.active \cup {s}
      /\ exchange'.active[s] = Popped
      /\ \A r \in DOMAIN exchange.active :
           exchange'.active[r] = exchange.active[r]
  BY <1>1, <1>3, <1>4, BookInvFacts, ExchangeSubmitEffect
<1>6. Moved(tracker, tracker', s, "kExchangeAccepted",
            {"orders_sent", "orders_exchange_accepted"})
  BY <1>4, BookInvFacts, SentFollows DEF Follows, Wired
<1>7. /\ bookStatus[s] = "pending"
      /\ bookStatus' = [bookStatus EXCEPT ![s] = "live"]
  BY <1>1, <1>6, StatusMoves DEF StatusIn
<1>8. \A r \in DOMAIN bookOrder : bookOrder'[r] = bookOrder[r]
  <2>1. \A r \in DOMAIN exchange.active : bookOrder'[r] = bookOrder[r]
    BY <1>5 DEF MappingKnown
  <2>2. \A r \in QueuedIds \ {s} : bookOrder'[r] = bookOrder[r]
    BY <1>1, QueuedOrderKept
  <2>3. bookOrder'[s] = bookOrder[s]
    BY <1>1, <1>5 DEF MappingKnown
  <2> QED BY <2>1, <2>2, <2>3 DEF MappingKnown
<1>9. /\ DOMAIN bookOrder' = DOMAIN bookOrder
      /\ bookOrder' = [r \in DOMAIN bookOrder' |-> bookOrder'[r]]
      /\ bookOrder = [r \in DOMAIN bookOrder |-> bookOrder[r]]
  BY <1>1, <1>5 DEF MappingKnown
<1>10. bookOrder' = bookOrder
  BY <1>8, <1>9
<1>11. bookOrder[s] \in {o \in Orders : WithinLimits(o)}
  BY <1>1, <1>2
<1> HIDE DEF s
<1> QED BY <1>7, <1>10, <1>11 DEF Book!GoLive, bookStatus, bookOrder, s

\* When an order leaves the mapping, the others keep their places.
LEMMA OrderForgotten ==
  ASSUME MappingKnown, MappingKnown', NEW s,
         DOMAIN bookOrder' = DOMAIN bookOrder \ {s},
         \A r \in DOMAIN bookOrder' : bookOrder'[r] = bookOrder[r]
  PROVE  bookOrder' = [r \in DOMAIN bookOrder \ {s} |-> bookOrder[r]]
<1>1. bookOrder' = [r \in DOMAIN bookOrder' |-> bookOrder'[r]]
  BY DEF MappingKnown
<1> QED BY <1>1

\* An order outside the limits is refused.
LEMMA RefuseStep ==
  ASSUME BookInv, MappingKnown, MappingKnown', DrainRiskRejected
  PROVE  Book!Refuse(Popped.sequence_id)
<1> DEFINE s == Popped.sequence_id
<1>0. PopOrder /\ ~PassesRisk(Popped) /\ exchange' = exchange
  BY DEF DrainRiskRejected, Popped
<1>1. /\ s \in SeqId /\ Popped \in Orders /\ Popped \in Order
      /\ queue # <<>> /\ queue' = Tail(queue)
      /\ StateOf(tracker, s) = "kQueued"
      /\ s \in QueuedIds /\ QueuedIds' = QueuedIds \ {s}
      /\ s \notin DOMAIN exchange.active
      /\ bookOrder[s] = Popped
  BY <1>0, PopFacts
<1>2. ~WithinLimits(Popped)
  BY <1>0, <1>1, RiskVerdict DEF PassesRisk
<1>3. Moved(tracker, tracker', s, "kRiskRejected", {"orders_risk_rejected"})
  BY BookInvFacts, RiskRejectedFollows DEF Follows, Wired
<1>4. /\ bookStatus[s] = "pending"
      /\ bookStatus' = [bookStatus EXCEPT ![s] = "rejected"]
  BY <1>1, <1>3, StatusMoves DEF StatusIn
<1>5. DOMAIN bookOrder' = DOMAIN bookOrder \ {s}
  BY <1>0, <1>1 DEF MappingKnown
<1>6. \A r \in DOMAIN bookOrder' : bookOrder'[r] = bookOrder[r]
  <2>1. \A r \in DOMAIN exchange.active : bookOrder'[r] = bookOrder[r]
    BY <1>0 DEF MappingKnown
  <2>2. \A r \in QueuedIds \ {s} : bookOrder'[r] = bookOrder[r]
    BY <1>1, QueuedOrderKept
  <2> QED BY <1>5, <2>1, <2>2 DEF MappingKnown
<1>7. bookOrder' = [r \in DOMAIN bookOrder \ {s} |-> bookOrder[r]]
  BY <1>5, <1>6, OrderForgotten
<1>8. bookOrder[s] \notin {o \in Orders : WithinLimits(o)}
  BY <1>1, <1>2
<1> HIDE DEF s
<1> QED BY <1>4, <1>7, <1>8
        DEF Book!Refuse, Book!Forget, bookStatus, bookOrder, s

\* A cancellation that the exchange accepts.
LEMMA CancelStep ==
  ASSUME BookInv, MappingKnown, MappingKnown', NEW s \in SeqId,
         queue' = queue, CancelAcceptedBy(s)
  PROVE  Book!Cancel(s)
<1>1. /\ s \in DOMAIN exchange.active /\ StateOf(tracker, s) =
                                           "kExchangeAccepted"
      /\ Moved(tracker, tracker', s, "kCancelled",
               {"cancel_requests", "cancels_accepted"})
  BY BookInvFacts DEF CancelAcceptedBy, Settles, Wired
<1>2. /\ DOMAIN exchange'.active = DOMAIN exchange.active \ {s}
      /\ \A r \in DOMAIN exchange'.active :
           exchange'.active[r] = exchange.active[r]
  BY BookInvFacts, ExchangeCancelEffect DEF CancelAcceptedBy
<1>3. QueuedIds' = QueuedIds
  BY DEF QueuedIds
<1>4. s \notin QueuedIds
  BY <1>1, BookInvFacts
<1>5. /\ bookStatus[s] = "live"
      /\ bookStatus' = [bookStatus EXCEPT ![s] = "cancelled"]
  BY <1>1, StatusMoves DEF StatusIn
<1>6. DOMAIN bookOrder' = DOMAIN bookOrder \ {s}
  BY <1>2, <1>3, <1>4 DEF MappingKnown
<1>7. \A r \in DOMAIN bookOrder' : bookOrder'[r] = bookOrder[r]
  <2>1. \A r \in DOMAIN exchange'.active : bookOrder'[r] = bookOrder[r]
    BY <1>2 DEF MappingKnown
  <2>2. \A r \in QueuedIds : bookOrder'[r] = bookOrder[r]
    BY DEF MappingKnown, QueuedIds
  <2> QED BY <1>3, <2>1, <2>2 DEF MappingKnown
<1>8. bookOrder' = [r \in DOMAIN bookOrder \ {s} |-> bookOrder[r]]
  BY <1>6, <1>7, OrderForgotten
<1> QED BY <1>5, <1>8 DEF Book!Cancel, Book!Forget, bookStatus, bookOrder

\* A request that leaves the order accepted leaves every status as it was.
LEMMA StatusKept ==
  ASSUME MappingKnown, MappingKnown', NEW s \in SeqId, NEW names,
         StateOf(tracker, s) = "kExchangeAccepted",
         Moved(tracker, tracker', s, "kExchangeAccepted", names)
  PROVE  bookStatus[s] = "live" /\ bookStatus' = bookStatus
<1>1. /\ bookStatus[s] = "live"
      /\ bookStatus' = [bookStatus EXCEPT ![s] = "live"]
  BY StatusMoves DEF StatusIn
<1>2. bookStatus = [r \in SeqId |-> StatusIn(StateOf(tracker, r))]
  BY DEF MappingKnown
<1> QED BY <1>1, <1>2

\* An amendment that the exchange accepts.
LEMMA AmendStep ==
  ASSUME BookInv, MappingKnown, MappingKnown', NEW req \in AmendRequest,
         queue' = queue, AmendAcceptedBy(req)
  PROVE  Book!Amend(req.sequence_id)
<1> DEFINE s == req.sequence_id
           new == exchange'.active[s]
<1>0. s \in SeqId
  BY DEF AmendRequest
<1>1. /\ StateOf(tracker, s) = "kExchangeAccepted"
      /\ Moved(tracker, tracker', s, "kExchangeAccepted",
               {"amend_requests", "amends_accepted"})
  BY BookInvFacts DEF AmendAcceptedBy, Settles, Wired
<1>2. AmendResponse(exchange, req).accepted
      /\ exchange' = AmendOrder(exchange, req)
  BY DEF AmendAcceptedBy
<1>3. /\ s \in DOMAIN exchange.active /\ IsExchange(exchange')
      /\ DOMAIN exchange'.active = DOMAIN exchange.active
      /\ new.sequence_id = exchange.active[s].sequence_id
      /\ new.symbol = exchange.active[s].symbol
      /\ new.side = exchange.active[s].side
      /\ IsTradable(exchange.active[s]) => IsTradable(new)
      /\ \A r \in DOMAIN exchange.active \ {s} :
           exchange'.active[r] = exchange.active[r]
  BY <1>2, BookInvFacts, ExchangeAmendEffect
<1>4. QueuedIds' = QueuedIds /\ s \notin QueuedIds
  BY <1>0, <1>1, BookInvFacts DEF QueuedIds
<1>5. bookStatus[s] = "live" /\ bookStatus' = bookStatus
  BY <1>0, <1>1, StatusKept
<1>6. DOMAIN bookOrder' = DOMAIN bookOrder
  BY <1>3, <1>4 DEF MappingKnown
<1>7. \A r \in DOMAIN bookOrder \ {s} : bookOrder'[r] = bookOrder[r]
  <2>1. \A r \in DOMAIN exchange.active \ {s} : bookOrder'[r] = bookOrder[r]
    BY <1>3 DEF MappingKnown
  <2>2. \A r \in QueuedIds : bookOrder'[r] = bookOrder[r]
    BY DEF MappingKnown, QueuedIds
  <2> QED BY <2>1, <2>2 DEF MappingKnown
<1>8. bookOrder[s] = exchange.active[s] /\ bookOrder'[s] = new
  BY <1>3 DEF MappingKnown
<1>9. exchange.active[s] \in Order /\ new \in Order
  BY <1>3, BookInvFacts DEF IsExchange
<1>10. IsTradable(new)
  BY <1>3 DEF BookInv, BookIsTradable
<1>11. new = [exchange.active[s] EXCEPT !.price = new.price,
                                        !.quantity = new.quantity]
  BY <1>3, <1>9 DEF Order
<1> HIDE DEF s, new
<1>12. /\ bookOrder'[s] \in {o \in Order : IsTradable(o)}
       /\ bookOrder'[s] = [bookOrder[s] EXCEPT
                             !.price = bookOrder'[s].price,
                             !.quantity = bookOrder'[s].quantity]
  BY <1>8, <1>9, <1>10, <1>11
<1> QED BY <1>5, <1>6, <1>7, <1>12
        DEF Book!Amend, bookStatus, bookOrder, s

\* Steps the order book does not see.
LEMMA StutterStep ==
  ASSUME MappingKnown, MappingKnown', queue' = queue, exchange' = exchange,
         \A s \in SeqId : StateOf(tracker', s) = StateOf(tracker, s)
  PROVE  UNCHANGED Book!vars
<1>1. bookStatus' = bookStatus
  BY DEF MappingKnown
<1>2. QueuedIds' = QueuedIds
  BY DEF QueuedIds
<1>3. DOMAIN bookOrder' = DOMAIN bookOrder
  BY <1>2 DEF MappingKnown
<1>4. \A r \in DOMAIN bookOrder : bookOrder'[r] = bookOrder[r]
  <2>1. \A r \in DOMAIN exchange.active : bookOrder'[r] = bookOrder[r]
    BY DEF MappingKnown
  <2>2. \A r \in QueuedIds : bookOrder'[r] = bookOrder[r]
    BY DEF MappingKnown, QueuedIds
  <2> QED BY <2>1, <2>2 DEF MappingKnown
<1>5. bookOrder' = bookOrder
  BY <1>3, <1>4 DEF MappingKnown
<1> QED BY <1>1, <1>5 DEF Book!vars, bookStatus, bookOrder

\* Every step of the pipeline is a step of the order book or a stutter.
LEMMA BookStepSimulated ==
  ASSUME BookInv, MappingKnown, MappingKnown', [Next]_vars
  PROVE  [Book!Next]_Book!vars
<1>0. TypeOK /\ Inv /\ Wired(wiring) /\ ~DirectSend /\ DirectCancels = {}
  BY DEF BookInv, Inv
<1>1. ASSUME queue' = queue, exchange' = exchange,
             tracker'.records = tracker.records
      PROVE  UNCHANGED Book!vars
  BY <1>1, StutterStep DEF StateOf
<1>2. ASSUME NEW o \in Orders, Enqueue(o)
      PROVE  [Book!Next]_Book!vars
  <2>1. CASE EnqueueRejected(o) \/ EnqueueDropped(o)
    BY <1>1, <1>2, <2>1 DEF Enqueue, EnqueueRejected, EnqueueDropped
  <2>2. CASE EnqueueQueued(o)
    <3>1. Book!Take(o)
      BY <1>2, <2>2, TakeStep
    <3> QED BY <3>1 DEF Book!Next
  <2> QED BY <1>2, <2>1, <2>2 DEF Enqueue
<1>3. CASE BeginDrain \/ EndDrain \/ UNCHANGED vars
  BY <1>1, <1>3 DEF BeginDrain, EndDrain, gatewayVars, vars
<1>4. CASE DrainRiskRejected
  <2>1. Popped.sequence_id \in SeqId
    BY <1>4, PopFacts DEF DrainRiskRejected
  <2>2. Book!Refuse(Popped.sequence_id)
    BY <1>4, RefuseStep
  <2> QED BY <2>1, <2>2 DEF Book!Next
<1>5. ~DrainNoGateway
  BY <1>0 DEF DrainNoGateway, Wired
<1>6. CASE DrainSent
  <2>1. Popped.sequence_id \in SeqId
    BY <1>6, PopFacts DEF DrainSent
  <2>2. Book!GoLive(Popped.sequence_id)
    BY <1>6, GoLiveStep
  <2> QED BY <2>1, <2>2 DEF Book!Next
<1>7. ASSUME NEW s \in SeqId, NEW names, queue' = queue,
             exchange' = exchange, Settles(s, "kExchangeAccepted", names)
      PROVE  UNCHANGED Book!vars
  <2>1. \A r \in SeqId : StateOf(tracker', r) = StateOf(tracker, r)
    BY <1>0, <1>7 DEF Settles, Moved, Wired
  <2> QED BY <1>7, <2>1, StutterStep
<1>8. ASSUME NEW s \in SeqId, ClientCancel(s)
      PROVE  [Book!Next]_Book!vars
  <2>1. SendCancel(s) /\ queue' = queue
    BY <1>8 DEF ClientCancel, pipelineVars
  <2>2. CASE RequestRefused("cancels_sent", "cancels_rejected")
    BY <1>1, <2>1, <2>2 DEF RequestRefused, Refused
  <2>3. CASE CancelRejectedBy(s)
    BY <1>7, <2>1, <2>3 DEF CancelRejectedBy
  <2>4. CASE CancelAcceptedBy(s)
    <3>1. Book!Cancel(s)
      BY <2>1, <2>4, CancelStep
    <3> QED BY <3>1 DEF Book!Next
  <2> QED BY <1>0, <2>1, <2>2, <2>3, <2>4, CancelOutcomes
<1>9. ASSUME NEW req \in Amends, ClientAmend(req)
      PROVE  [Book!Next]_Book!vars
  <2>1. /\ SendAmend(req) /\ queue' = queue /\ req \in AmendRequest
        /\ req.sequence_id \in SeqId
    BY <1>9, PipelineAssumption DEF ClientAmend, pipelineVars, AmendRequest
  <2>2. CASE RequestRefused("amends_sent", "amends_rejected")
    BY <1>1, <2>1, <2>2 DEF RequestRefused, Refused
  <2>3. CASE AmendRejectedBy(req)
    BY <1>7, <2>1, <2>3 DEF AmendRejectedBy
  <2>4. CASE AmendAcceptedBy(req)
    <3>1. Book!Amend(req.sequence_id)
      BY <2>1, <2>4, AmendStep
    <3> QED BY <2>1, <3>1 DEF Book!Next
  <2> QED BY <1>0, <2>1, <2>2, <2>3, <2>4, AmendOutcomes
<1>10. /\ \A o \in Orders : ~ClientSend(o)
       /\ \A s \in SeqId : ~ClientCancelDirectly(s)
  BY <1>0 DEF ClientSend, ClientCancelDirectly
<1> QED BY <1>2, <1>3, <1>4, <1>5, <1>6, <1>8, <1>9, <1>10
        DEF Next, DrainStep

\* Every id is new in an initial state.
LEMMA BookInit == Init => Book!Init
<1> SUFFICES ASSUME Init PROVE Book!Init
  OBVIOUS
<1>1. \A s \in SeqId : StateOf(tracker, s) = "absent"
  BY DEF Init, NewTracker, NoRecord, StateOf, Absent
<1>2. exchange.seen = {} /\ DOMAIN exchange.active = {} /\ QueuedIds = {}
  BY DEF Init, NewExchange, QueuedIds
<1>3. \A s \in SeqId : Status(s) = "new"
  BY <1>1, <1>2 DEF Status, HasActiveOrder
<1>4. bookStatus = [s \in SeqId |-> "new"]
  BY <1>3 DEF bookStatus
<1>5. bookOrder = [s \in {} |-> {}]
  BY <1>2 DEF bookOrder
<1> QED BY <1>4, <1>5 DEF Book!Init, bookStatus, bookOrder

\* Wired as in main.cpp, the whole path from Enqueue to the exchange and
\* back implements the order book.
THEOREM PipelineImplementsOrderBook ==
  ASSUME WiredAsInMain
  PROVE  Spec => ImplementsOrderBook
<1>1. BookInv /\ MappingKnown /\ MappingKnown' /\ [Next]_vars
        => [Book!Next]_Book!vars
  BY BookStepSimulated
<1>2. Spec => []BookInv
  BY BookInvHolds
<1> QED BY <1>1, <1>2, BookInit, Mapping, PTL
        DEF Spec, ImplementsOrderBook, Book!Spec

----------------------------------------------------------------------------
(***************************************************************************)
(* Part three: the demo program.                                           *)
(***************************************************************************)

----------------------------------------------------------------------------
(* The invariant. *)

\* The journal's reports of an order leaving the pipeline.
Dispatches(j) ==
  {i \in 1..Len(j.reports) :
     j.reports[i].type \in {"kSent", "kRiskRejected"}}

\* They are in the order of the sequence ids.
InOrder(j) ==
  \A i, k \in Dispatches(j) :
    i < k => j.reports[i].sequence_id < j.reports[k].sequence_id

\* The ids they are about.
DispatchedIds(j) == {j.reports[i].sequence_id : i \in Dispatches(j)}

\* The ids the tracker has a record of.
KnownIds == {s \in SeqId : Contains(tracker, s)}

\* The ids that have left the pipeline.
GoneIds == exchange.seen \cup DispatchedIds(tracker.journal)

Increasing(q) ==
  \A i, k \in 1..Len(q) : i < k => q[i].sequence_id < q[k].sequence_id

\* The ids the strategy has used.
UsedIds == 1..(strategy.next_sequence_id - 1)

\* Ids are used in order: the buffer is sorted, what has left the pipeline is
\* older than what is in it, and the strategy's next id is new to everyone.
IdsInOrder ==
  /\ KnownIds \subseteq UsedIds
  /\ GoneIds \subseteq UsedIds
  /\ Ids(queue) \subseteq UsedIds
  /\ Increasing(queue)
  /\ \A s \in GoneIds, r \in Ids(queue) : s < r
  /\ InOrder(tracker.journal)

\* Where main is, and what it has read so far.
Control ==
  /\ phase \in {"open", "replay", "drain", "exit"} /\ exit_code \in {0, 1}
  /\ replay.lines_read <= MaxLines
  /\ strategy.next_sequence_id \in 1..(strategy.signals_seen + 1)
  /\ pc = IF phase = "drain" THEN "drain" ELSE "idle"
  /\ exit_code = 1 => phase = "exit"
  /\ replay.status = "kParseError" => exit_code = 1
  /\ phase = "open" =>
       replay.status = "kFileOpenFailed" /\ replay.lines_read = 0
  /\ phase = "drain" => replay.status = "kOk"
  /\ phase = "exit" /\ exit_code = 0 => queue = <<>>

DemoInv ==
  /\ Inv
  /\ Control
  /\ StatisticsAgree
  /\ FailedReplaySendsNothing
  /\ IdsInOrder

\* It holds when main starts.
LEMMA DemoInitInv == DemoInit => DemoInv
<1> SUFFICES ASSUME DemoInit PROVE DemoInv
  OBVIOUS
<1>1. Init /\ Inv /\ queue = <<>> /\ pc = "idle"
  BY InitInv DEF DemoInit, Init
<1>2. /\ replay \in FeedReplayResult /\ strategy \in Strategy
      /\ replay.lines_read = 0 /\ replay.updates_parsed = 0
      /\ replay.error_line = 0 /\ replay.status = "kFileOpenFailed"
      /\ strategy.next_sequence_id = 1 /\ strategy.signals_seen = 0
      /\ strategy.orders_generated = 0
  BY DEF DemoInit, NewReplay, FeedReplayResult, FeedReplayStatus, ParseStatus,
         NewStrategy, Strategy
<1>3. Control
  BY <1>1, <1>2, DemoAssumption DEF DemoInit, Control
<1>4. /\ pipeline["orders_enqueued"] = 0
      /\ pipeline["orders_dropped_on_enqueue"] = 0
      /\ gateway["orders_sent"] = 0 /\ risk["orders_checked"] = 0
  BY <1>1, CounterNames DEF Init, NewGateway, NewRiskManager
<1>5. StatisticsAgree
  BY <1>2, <1>4 DEF StatisticsAgree
<1>6. /\ \A s \in SeqId : ~Contains(tracker, s)
      /\ tracker.journal.reports = <<>> /\ exchange.seen = {}
  BY <1>1 DEF Init, NewTracker, NoRecord, Contains, NewJournal, NewExchange
<1>7. KnownIds = {} /\ GoneIds = {} /\ Ids(queue) = {}
      /\ Increasing(queue) /\ InOrder(tracker.journal)
  BY <1>1, <1>6
  DEF KnownIds, GoneIds, Ids, Increasing, InOrder, Dispatches, DispatchedIds
<1>8. IdsInOrder
  BY <1>7 DEF IdsInOrder
<1>9. FailedReplaySendsNothing
  <2>1. QueuedIds = {} /\ Len(queue) = 0 /\ phase = "open"
    BY <1>1 DEF QueuedIds, DemoInit
  <2> QED BY <1>4, <1>7, <2>1 DEF FailedReplaySendsNothing, KnownIds
<1> QED BY <1>1, <1>3, <1>5, <1>8, <1>9 DEF DemoInv

----------------------------------------------------------------------------
(* What main does to the pipeline. *)

\* A line that is parsed successfully is an update with the declared types.
LEMMA ParsedUpdate ==
  ASSUME NEW line \in Line, ParseMarketDataLine(line).status = "kOk"
  PROVE  ParseMarketDataLine(line).update \in MarketDataUpdate
<1> DEFINE f == SplitCsvLine(StripTrailingCarriageReturn(line))
           u == [symbol |-> f[1].text,
                 bid_price |-> The(f[2].double),
                 bid_size |-> The(f[3].uint32),
                 ask_price |-> The(f[4].double),
                 ask_size |-> The(f[5].uint32),
                 exchange_ts_ns |-> The(f[6].uint64)]
<1>1. f = line.fields /\ f \in Seq(Field)
  BY DEF Line, StripTrailingCarriageReturn, SplitCsvLine
<1> HIDE DEF f
<1>2. /\ Len(f) = kExpectedFieldCount
      /\ {} \notin {f[2].double, f[3].uint32, f[4].double, f[5].uint32,
                    f[6].uint64}
      /\ ParseMarketDataLine(line).update = u
  BY DEF ParseMarketDataLine, ParseFailed, f
<1>3. \A i \in 1..6 : f[i] \in Field
  BY <1>1, <1>2 DEF kExpectedFieldCount
<1>4. ASSUME NEW T, NEW S \in SUBSET T, S # {}
      PROVE  The(S) \in T
  BY <1>4 DEF The
<1>a. \A g \in Field : /\ g.text \in Seq(Char) /\ g.double \in SUBSET Double
                       /\ g.uint32 \in SUBSET Nat /\ g.uint64 \in SUBSET Nat
  BY DEF Field
<1>b. /\ f[1] \in Field /\ f[2] \in Field /\ f[3] \in Field
      /\ f[4] \in Field /\ f[5] \in Field /\ f[6] \in Field
  BY <1>3
<1>5. /\ f[1].text \in Seq(Char)
      /\ f[2].double \in SUBSET Double /\ f[4].double \in SUBSET Double
      /\ f[3].uint32 \in SUBSET Nat /\ f[5].uint32 \in SUBSET Nat
      /\ f[6].uint64 \in SUBSET Nat
  BY <1>a, <1>b
<1>6. /\ The(f[2].double) \in Double /\ The(f[4].double) \in Double
      /\ The(f[3].uint32) \in Nat /\ The(f[5].uint32) \in Nat
      /\ The(f[6].uint64) \in Nat
  BY <1>2, <1>4, <1>5
<1>7. u \in MarketDataUpdate
  BY <1>5, <1>6 DEF MarketDataUpdate
<1> QED BY <1>2, <1>7

\* A symbol that fits is a symbol.
LEMMA AssignedSymbol ==
  ASSUME NEW text \in Seq(Char)
  PROVE  Assign(text) \in Symbol
<1>1. CASE text = <<>> \/ Len(text) > kMaxLength
  <2>1. Assign(text) = <<>> /\ <<>> \in [1..0 -> Char] /\ 0 \in 0..kMaxLength
    BY <1>1, kMaxLengthAssumption DEF Assign
  <2> QED BY <2>1 DEF Symbol
<1>2. CASE ~(text = <<>> \/ Len(text) > kMaxLength)
  <2>1. Assign(text) = text
    BY <1>2 DEF Assign
  <2>2. Len(text) \in 0..kMaxLength /\ text \in [1..Len(text) -> Char]
    BY <1>2, kMaxLengthAssumption
  <2> QED BY <2>1, <2>2 DEF Symbol
<1> QED BY <1>1, <1>2

\* The order the strategy generates carries its next id, which the file's
\* length bounds.
LEMMA GeneratedOrder ==
  ASSUME Control, StatisticsAgree, NEW line \in Lines,
         replay.lines_read < MaxLines,
         ParseMarketDataLine(line).status = "kOk",
         NEW o \in GeneratedOrders(strategy, ParseMarketDataLine(line).update)
  PROVE  /\ o \in Order /\ o.sequence_id = strategy.next_sequence_id
         /\ OnMarketData(strategy, ParseMarketDataLine(line).update) =
              [next_sequence_id |-> strategy.next_sequence_id + 1,
               signals_seen |-> strategy.signals_seen + 1,
               orders_generated |-> strategy.orders_generated + 1]
<1> DEFINE u == ParseMarketDataLine(line).update
           next == strategy.next_sequence_id
<1>1. u \in MarketDataUpdate
  BY ParsedUpdate, DemoAssumption
<1> HIDE DEF u
<1>2. /\ ~IsSpreadTooNarrow(u) /\ GeneratedOrders(strategy, u) # {}
      /\ o = [sequence_id |-> next, symbol |-> Assign(u.symbol),
              side |-> "kBuy", price |-> u.ask_price,
              quantity |-> kOrderQuantity]
  BY DEF GeneratedOrders, u
<1>3. Assign(u.symbol) \in Symbol /\ u.ask_price \in Double
  BY <1>1, AssignedSymbol DEF MarketDataUpdate
<1>4. next \in 1..MaxLines
  <2>1. /\ strategy.signals_seen = replay.updates_parsed
        /\ replay.updates_parsed \in Nat /\ replay.lines_read \in Nat
        /\ replay.lines_read >= replay.updates_parsed
        /\ next \in 1..(strategy.signals_seen + 1)
    BY DEF StatisticsAgree, FeedReplayResult, Control
  <2> QED BY <2>1, DemoAssumption
<1>5. o \in Order
  BY <1>2, <1>3, <1>4, DemoAssumption, StrategyAssumption DEF Order, Side
<1>6. OnMarketData(strategy, u) =
        [next_sequence_id |-> next + 1,
         signals_seen |-> strategy.signals_seen + 1,
         orders_generated |-> strategy.orders_generated + 1]
  BY <1>2 DEF OnMarketData, SequenceIdsTaken
<1> QED BY <1>2, <1>5, <1>6 DEF u

----------------------------------------------------------------------------
(* What is reported of an order that leaves the pipeline. *)

\* The journal tells nothing new about dispatches...
SameDispatches(j, k) ==
  /\ Dispatches(k) = Dispatches(j)
  /\ DispatchedIds(k) = DispatchedIds(j)
  /\ InOrder(j) => InOrder(k)

\* ... or of one more, of order s, which keeps the order of the dispatches if
\* it is the newest.
OneDispatch(j, k, s) ==
  /\ \E i : i \notin Dispatches(j) /\ Dispatches(k) = Dispatches(j) \cup {i}
  /\ DispatchedIds(k) \subseteq DispatchedIds(j) \cup {s}
  /\ InOrder(j) /\ (\A r \in DispatchedIds(j) : r < s) => InOrder(k)

\* The same of a tracker, which may have no journal.
NothingNew(t, u) ==
  u.attached = t.attached /\ SameDispatches(t.journal, u.journal)

NewDispatch(t, u, s) ==
  /\ u.attached = t.attached
  /\ IF t.attached THEN OneDispatch(t.journal, u.journal, s)
                   ELSE SameDispatches(t.journal, u.journal)

\* What Record does to them.
LEMMA RecordedDispatch ==
  ASSUME NEW j \in Journal, NEW s \in SeqId, NEW type, NEW source, NEW text
  PROVE  LET k == Record(j, s, type, source, text)
         IN  /\ type \notin {"kSent", "kRiskRejected"} => SameDispatches(j, k)
             /\ type \in {"kSent", "kRiskRejected"} => OneDispatch(j, k, s)
<1> DEFINE k == Record(j, s, type, source, text)
           n == Len(j.reports)
           report == [event_index |-> j.next_event_index, sequence_id |-> s,
                      type |-> type, reject_source |-> source,
                      reject_reason |-> text]
<1>1. Appends(j, k, report) /\ report.type = type /\ report.sequence_id = s
  BY RecordAppends
<1> HIDE DEF k, report
<1>2. /\ n \in Nat /\ Len(k.reports) = n + 1
      /\ \A i \in 1..n : k.reports[i] = j.reports[i]
      /\ k.reports[n + 1].type = type
      /\ k.reports[n + 1].sequence_id = s
  BY <1>1 DEF Appends
<1> HIDE DEF n
<1>3. /\ \A i \in Dispatches(j) : i \in 1..n
      /\ \A i \in Dispatches(k) : i \in 1..n \/ i = n + 1
      /\ \A i \in 1..n : i \in Dispatches(k) <=> i \in Dispatches(j)
      /\ n + 1 \in Dispatches(k) <=> type \in {"kSent", "kRiskRejected"}
  BY <1>2 DEF Dispatches, n
<1>4. CASE type \notin {"kSent", "kRiskRejected"}
  <2>1. Dispatches(k) = Dispatches(j)
    BY <1>3, <1>4
  <2>2. \A i \in Dispatches(j) : k.reports[i] = j.reports[i]
    BY <1>2, <1>3
  <2>3. DispatchedIds(k) = DispatchedIds(j)
    BY <2>1, <2>2 DEF DispatchedIds
  <2>4. InOrder(j) => InOrder(k)
    BY <2>1, <2>2 DEF InOrder
  <2> QED BY <1>4, <2>1, <2>3, <2>4 DEF SameDispatches, k
<1>5. CASE type \in {"kSent", "kRiskRejected"}
  <2>1. ASSUME NEW i \in Dispatches(k)
        PROVE  \/ i \in Dispatches(j) /\ i \in 1..n
                    /\ k.reports[i] = j.reports[i]
               \/ i = n + 1 /\ k.reports[i].sequence_id = s
    BY <1>2, <1>3
  <2>2. DispatchedIds(k) \subseteq DispatchedIds(j) \cup {s}
    BY <2>1 DEF DispatchedIds
  <2>3. ASSUME InOrder(j), \A r \in DispatchedIds(j) : r < s,
               NEW a \in Dispatches(k), NEW b \in Dispatches(k), a < b
        PROVE  k.reports[a].sequence_id < k.reports[b].sequence_id
    <3>1. a \in Dispatches(j) /\ k.reports[a] = j.reports[a]
      BY <1>2, <1>3, <2>1, <2>3
    <3>2. CASE b = n + 1
      BY <1>2, <2>3, <3>1, <3>2 DEF DispatchedIds
    <3>3. CASE b \in Dispatches(j) /\ k.reports[b] = j.reports[b]
      BY <2>3, <3>1, <3>3 DEF InOrder
    <3> QED BY <2>1, <3>2, <3>3
  <2>4. InOrder(j) /\ (\A r \in DispatchedIds(j) : r < s) => InOrder(k)
    BY <2>3 DEF InOrder
  <2>5. /\ n + 1 \notin Dispatches(j)
        /\ Dispatches(k) = Dispatches(j) \cup {n + 1}
    <3>1. n + 1 \notin 1..n
      BY <1>2
    <3>2. n + 1 \notin Dispatches(j) /\ n + 1 \in Dispatches(k)
      BY <1>3, <1>5, <3>1
    <3>3. \A i \in Dispatches(k) : i \in Dispatches(j) \/ i = n + 1
      BY <1>3
    <3>4. \A i \in Dispatches(j) : i \in Dispatches(k)
      BY <1>3
    <3> QED BY <3>2, <3>3, <3>4
  <2> QED BY <1>5, <2>2, <2>4, <2>5 DEF OneDispatch, k
<1> QED BY <1>4, <1>5

\* What a method that moves an order reports...
LEMMA MarkStateDispatches ==
  ASSUME NEW t \in Tracker, NEW s \in SeqId,
         NEW expected \in OrderLifecycleState,
         NEW next \in OrderLifecycleState, StateOf(t, s) = expected,
         NEW counter, NEW type \in ExecutionReportType
  PROVE  LET u == MarkState(t, s, expected, next, counter, type)
         IN  /\ type # "kSent" /\ type # "kRiskRejected" =>
                  NothingNew(t, u)
             /\ type = "kSent" => NewDispatch(t, u, s)
<1> DEFINE u == MarkState(t, s, expected, next, counter, type)
<1>1. /\ u.records = [t.records EXCEPT ![s].state = next]
      /\ u.attached = t.attached
      /\ u.journal = IF t.attached THEN RecordState(t.journal, s, type)
                                   ELSE t.journal
  BY MarkStateWrites
<1> HIDE DEF u
<1>2. t.journal \in Journal
  BY DEF Tracker
<1>3. /\ type # "kSent" /\ type # "kRiskRejected" =>
           SameDispatches(t.journal, RecordState(t.journal, s, type))
      /\ type = "kSent" =>
           OneDispatch(t.journal, RecordState(t.journal, s, type), s)
  BY <1>2, RecordedDispatch DEF RecordState
<1>4. SameDispatches(t.journal, t.journal)
  BY DEF SameDispatches
<1> QED BY <1>1, <1>3, <1>4 DEF NothingNew, NewDispatch, u

\* ... and one that rejects it.
LEMMA MarkRejectedDispatches ==
  ASSUME NEW t \in Tracker, NEW s \in SeqId,
         NEW expected \in OrderLifecycleState,
         NEW next \in OrderLifecycleState, StateOf(t, s) = expected,
         NEW counter, NEW source \in {"kRisk", "kExchange"},
         NEW reason \in RejectReason \ {"kNone"}
  PROVE  LET u == MarkRejected(t, s, expected, next, counter, source, reason)
         IN  /\ source = "kExchange" => NothingNew(t, u)
             /\ source = "kRisk" => NewDispatch(t, u, s)
<1> DEFINE u == MarkRejected(t, s, expected, next, counter, source, reason)
           type == IF source = "kRisk" THEN "kRiskRejected"
                                       ELSE "kExchangeRejected"
           report == Record(t.journal, s, type, source, ReasonString[source][reason])
<1>1. /\ u.records = [t.records EXCEPT
                        ![s] = [state |-> next,
                                reason |-> [t.records[s].reason EXCEPT
                                              ![source] = reason]]]
      /\ u.attached = t.attached
      /\ u.journal = IF t.attached
                     THEN RecordRejected(t.journal, s, source, reason)
                     ELSE t.journal
  <2>1. source \in RejectSource
    BY StateTypes
  <2> QED BY <2>1, MarkRejectedWrites
<1> HIDE DEF u
<1>2. t.journal \in Journal
  BY DEF Tracker
<1>3. RecordRejected(t.journal, s, source, reason) = report
  BY DEF RecordRejected
<1>4. /\ source = "kExchange" => SameDispatches(t.journal, report)
      /\ source = "kRisk" => OneDispatch(t.journal, report, s)
  BY <1>2, RecordedDispatch
<1>5. SameDispatches(t.journal, t.journal)
  BY DEF SameDispatches
<1>6. u.journal = IF t.attached THEN report ELSE t.journal
  BY <1>1, <1>3
<1> HIDE DEF report
<1> QED BY <1>1, <1>4, <1>5, <1>6 DEF NothingNew, NewDispatch, u

\* Enqueue's two tracker calls dispatch nothing.
LEMMA RegisterDispatchesNothing ==
  ASSUME NEW t \in Tracker, NEW s \in SeqId, ~Contains(t, s)
  PROVE  NothingNew(t, RegisterQueued(t, s))
<1> DEFINE u == RegisterCreated(t, s)
<1>0. {"kCreated", "kQueued"} \subseteq OrderLifecycleState
      /\ "kQueued" \in ExecutionReportType
  BY DEF OrderLifecycleState, ExecutionReportType
<1>1. /\ u \in Tracker /\ StateOf(u, s) = "kCreated" /\ Ok(u)
      /\ u.attached = t.attached
      /\ u.journal = IF t.attached THEN RecordState(t.journal, s, "kCreated")
                                   ELSE t.journal
  BY RegisterCreatedEffect DEF Moved
<1>2. RegisterQueued(t, s) = MarkQueued(u, s)
  BY <1>1 DEF RegisterQueued
<1> HIDE DEF u
<1>3. NothingNew(u, MarkQueued(u, s))
  BY <1>0, <1>1, MarkStateDispatches DEF MarkQueued
<1>4. t.journal \in Journal
  BY DEF Tracker
<1>5. NothingNew(t, u)
  BY <1>1, <1>4, RecordedDispatch DEF RecordState, NothingNew, SameDispatches
<1> QED BY <1>2, <1>3, <1>5 DEF NothingNew, SameDispatches

\* A rejection by the risk manager dispatches the order...
LEMMA RiskRejectedDispatches ==
  ASSUME NEW t \in Tracker, NEW s \in SeqId, StateOf(t, s) = "kQueued",
         NEW reason \in RejectReason \ {"kNone"}
  PROVE  NewDispatch(t, MarkRiskRejected(t, s, reason), s)
<1>1. {"kQueued", "kRiskRejected"} \subseteq OrderLifecycleState
  BY DEF OrderLifecycleState
<1> QED BY <1>1, MarkRejectedDispatches DEF MarkRiskRejected

\* ... and so does MarkSent, but not what follows it.
LEMMA SentDispatches ==
  ASSUME NEW t \in Tracker, NEW s \in SeqId, StateOf(t, s) = "kQueued",
         NEW reason
  PROVE  LET u == MarkSent(t, s)
         IN  /\ NewDispatch(t, MarkExchangeAccepted(u, s), s)
             /\ reason \in RejectReason \ {"kNone"} =>
                  NewDispatch(t, MarkExchangeRejected(u, s, reason), s)
<1> DEFINE u == MarkSent(t, s)
<1>0. /\ {"kQueued", "kSent", "kExchangeAccepted", "kExchangeRejected"}
           \subseteq OrderLifecycleState
      /\ {"kSent", "kExchangeAccepted"} \subseteq ExecutionReportType
  BY DEF OrderLifecycleState, ExecutionReportType
<1>1. u \in Tracker /\ StateOf(u, s) = "kSent"
  BY SentEffect
<1>2. NewDispatch(t, u, s)
  BY <1>0, MarkStateDispatches DEF MarkSent
<1> HIDE DEF u
<1>3. NothingNew(u, MarkExchangeAccepted(u, s))
  BY <1>0, <1>1, MarkStateDispatches DEF MarkExchangeAccepted
<1>4. reason \in RejectReason \ {"kNone"} =>
        NothingNew(u, MarkExchangeRejected(u, s, reason))
  BY <1>0, <1>1, MarkRejectedDispatches DEF MarkExchangeRejected
<1>5. ASSUME NEW w, NothingNew(u, w)
      PROVE  NewDispatch(t, w, s)
  <2>1. w.attached = t.attached /\ SameDispatches(u.journal, w.journal)
    BY <1>2, <1>5 DEF NewDispatch, NothingNew
  <2>2. CASE t.attached
    BY <1>2, <2>1, <2>2 DEF NewDispatch, OneDispatch, SameDispatches
  <2>3. CASE ~t.attached
    BY <1>2, <2>1, <2>3 DEF NewDispatch, SameDispatches
  <2> QED BY <2>2, <2>3
<1> QED BY <1>3, <1>4, <1>5 DEF u

----------------------------------------------------------------------------
(* Ids stay in order. *)

\* A sorted buffer without its head is sorted, and newer than the head.
LEMMA PopIncreasing ==
  ASSUME NEW q \in Seq(Order), q # <<>>, Increasing(q)
  PROVE  /\ Increasing(Tail(q)) /\ Ids(Tail(q)) \subseteq Ids(q)
         /\ q[1].sequence_id \in Ids(q)
         /\ \A r \in Ids(Tail(q)) : q[1].sequence_id < r
<1> DEFINE p == Tail(q)
<1>1. /\ Len(q) \in Nat \ {0} /\ Len(p) = Len(q) - 1
      /\ \A i \in 1..Len(p) : p[i] = q[i + 1]
  BY HeadTailProperties, EmptySeq
<1> HIDE DEF p
<1>2. ASSUME NEW i \in 1..Len(p)
      PROVE  p[i] = q[i + 1] /\ i + 1 \in 1..Len(q) /\ 1 < i + 1
  BY <1>1
<1>3. 1 \in 1..Len(q)
  BY <1>1
<1>4. Increasing(p)
  <2> SUFFICES ASSUME NEW i \in 1..Len(p), NEW k \in 1..Len(p), i < k
               PROVE  p[i].sequence_id < p[k].sequence_id
    BY DEF Increasing
  <2>1. i + 1 < k + 1
    OBVIOUS
  <2> QED BY <1>2, <2>1 DEF Increasing
<1>5. /\ \A r \in Ids(p) : r \in Ids(q)
      /\ \A r \in Ids(p) : q[1].sequence_id < r
  BY <1>2, <1>3 DEF Ids, Increasing
<1> QED BY <1>3, <1>4, <1>5 DEF Ids, p

\* A sorted buffer with a newer order at its end is sorted.
LEMMA AppendIncreasing ==
  ASSUME NEW q \in Seq(Order), NEW o \in Order, Increasing(q),
         \A r \in Ids(q) : r < o.sequence_id
  PROVE  /\ Increasing(Append(q, o))
         /\ Ids(Append(q, o)) = Ids(q) \cup {o.sequence_id}
<1> DEFINE p == Append(q, o)
<1>1. /\ Len(q) \in Nat /\ Len(p) = Len(q) + 1
      /\ \A i \in 1..Len(q) : p[i] = q[i]
      /\ p[Len(q) + 1] = o
  BY AppendProperties, LenProperties
<1> HIDE DEF p
<1>2. /\ \A i \in 1..Len(p) : i \in 1..Len(q) \/ i = Len(q) + 1
      /\ 1..Len(q) \subseteq 1..Len(p) /\ Len(q) + 1 \in 1..Len(p)
  BY <1>1
<1>3. Ids(p) = Ids(q) \cup {o.sequence_id}
  BY <1>1, <1>2 DEF Ids
<1>4. Increasing(p)
  <2> SUFFICES ASSUME NEW i \in 1..Len(p), NEW k \in 1..Len(p), i < k
               PROVE  p[i].sequence_id < p[k].sequence_id
    BY DEF Increasing
  <2>1. i \in 1..Len(q) /\ p[i] = q[i]
    BY <1>1, <1>2
  <2>2. q[i].sequence_id \in Ids(q)
    BY <2>1 DEF Ids
  <2>3. CASE k = Len(q) + 1
    BY <1>1, <2>1, <2>2, <2>3
  <2>4. CASE k \in 1..Len(q)
    BY <1>1, <2>1, <2>4 DEF Increasing
  <2> QED BY <1>2, <2>3, <2>4
<1> QED BY <1>3, <1>4 DEF p

\* The tracker learns of no order but the one it follows.
LEMMA FollowsKnown ==
  ASSUME NEW s \in SeqId, NEW next, NEW names, Follows(s, next, names)
  PROVE  KnownIds' \subseteq KnownIds \cup {s}
BY DEF Follows, Moved, KnownIds, Contains, StateOf

\* Enqueue of an order whose id is new.
LEMMA EnqueueIds ==
  ASSUME Inv, NEW o \in Order, Enqueue(o)
  PROVE  /\ KnownIds' \subseteq KnownIds \cup {o.sequence_id}
         /\ GoneIds' = GoneIds
         /\ queue' = queue \/ queue' = Append(queue, o)
         /\ NothingNew(tracker, tracker')
<1>1. exchange' = exchange
  BY DEF Enqueue
<1>2. CASE EnqueueRejected(o) \/ EnqueueDropped(o)
  <2>1. tracker' = tracker /\ queue' = queue
    BY <1>2 DEF EnqueueRejected, EnqueueDropped
  <2> QED BY <1>1, <2>1 DEF KnownIds, GoneIds, NothingNew, SameDispatches
<1>3. CASE EnqueueQueued(o)
  <2>1. /\ o.sequence_id \in SeqId /\ tracker \in Tracker
        /\ queue' = Append(queue, o)
    BY <1>3 DEF Order, Inv, TypeOK, EnqueueQueued
  <2>2. KnownIds' \subseteq KnownIds \cup {o.sequence_id}
    BY <1>3, <2>1, EnqueueFollows, FollowsKnown
  <2>3. NothingNew(tracker, tracker')
    <3>1. CASE wiring.pipeline_tracker
      <4>1. tracker' = RegisterQueued(tracker, o.sequence_id)
            /\ ~Contains(tracker, o.sequence_id)
        BY <1>3, <3>1 DEF EnqueueQueued, Tracked, IsKnown
      <4> QED BY <2>1, <4>1, RegisterDispatchesNothing
    <3>2. CASE ~wiring.pipeline_tracker
      BY <1>3, <3>2 DEF EnqueueQueued, Tracked, NothingNew, SameDispatches
    <3> QED BY <3>1, <3>2
  <2> QED BY <1>1, <2>1, <2>2, <2>3 DEF GoneIds, NothingNew, SameDispatches
<1> QED BY <1>2, <1>3 DEF Enqueue

\* Drain of the order it pops.
LEMMA DrainIds ==
  ASSUME Inv, DrainRiskRejected \/ DrainNoGateway \/ DrainSent
  PROVE  /\ KnownIds' \subseteq KnownIds \cup {Popped.sequence_id}
         /\ GoneIds' \subseteq GoneIds \cup {Popped.sequence_id}
         /\ queue # <<>> /\ queue' = Tail(queue)
         /\ IF wiring.pipeline_tracker
            THEN NewDispatch(tracker, tracker', Popped.sequence_id)
            ELSE tracker' = tracker
<1> DEFINE s == Popped.sequence_id
<1>1. PopOrder /\ queue # <<>> /\ queue' = Tail(queue)
  BY DEF DrainRiskRejected, DrainNoGateway, DrainSent, PopOrder
<1>2. /\ Popped \in Order /\ s \in SeqId /\ tracker \in Tracker
      /\ wiring.pipeline_tracker => StateOf(tracker, s) = "kQueued"
  BY <1>1, PoppedIsQueued DEF Inv, TypeOK
<1>3. KnownIds' \subseteq KnownIds \cup {s}
  BY <1>2, FollowsKnown, RiskRejectedFollows, NoGatewayFollows, SentFollows
<1>5. exchange'.seen \subseteq exchange.seen \cup {s}
  <2>1. CASE DrainRiskRejected \/ DrainNoGateway
    BY <2>1 DEF DrainRiskRejected, DrainNoGateway
  <2>2. CASE DrainSent
    <3>1. SendOrder(Popped) /\ TypeOK
      BY <2>2 DEF DrainSent, Popped, Inv
    <3> QED BY <1>2, <3>1, SendOrderEffect, ExchangeSubmitEffect DEF TypeOK
  <2> QED BY <2>1, <2>2
<1>6. IF wiring.pipeline_tracker THEN NewDispatch(tracker, tracker', s)
                                 ELSE tracker' = tracker
  <2>1. CASE ~wiring.pipeline_tracker
    BY <2>1 DEF DrainRiskRejected, DrainNoGateway, DrainSent, Tracked
  <2>2. CASE wiring.pipeline_tracker /\ DrainRiskRejected
    <3>1. /\ tracker' = MarkRiskRejected(tracker, s,
                                         RiskDecision(Popped).reject_reason)
          /\ ~RiskDecision(Popped).accepted
      BY <2>2 DEF DrainRiskRejected, Tracked, Popped, PassesRisk
    <3> QED BY <1>2, <2>2, <3>1, RiskReasons, ReasonTypes,
               RiskRejectedDispatches
  <2>3. CASE wiring.pipeline_tracker /\ DrainNoGateway
    <3>1. tracker' = MarkExchangeRejected(MarkSent(tracker, s), s,
                                          "kInvalidSymbol")
      BY <2>3 DEF DrainNoGateway, Tracked, Popped
    <3> QED BY <1>2, <2>3, <3>1, ReasonTypes, SentDispatches
  <2>4. CASE wiring.pipeline_tracker /\ DrainSent
    <3> DEFINE resp == SendOrderResponse(Popped)
    <3>1. tracker' = IF resp.accepted
                     THEN MarkExchangeAccepted(MarkSent(tracker, s), s)
                     ELSE MarkExchangeRejected(MarkSent(tracker, s), s,
                                               resp.reject_reason)
      BY <2>4 DEF DrainSent, Tracked, Popped
    <3>2. ~resp.accepted => resp.reject_reason \in RejectReason \ {"kNone"}
      BY SubmitReasons, ReasonTypes DEF SendOrderResponse, Rejected
    <3> HIDE DEF resp
    <3> QED BY <1>2, <2>4, <3>1, <3>2, SentDispatches
  <2> QED BY <2>1, <2>2, <2>3, <2>4
<1>7. DispatchedIds(tracker'.journal) \subseteq
        DispatchedIds(tracker.journal) \cup {s}
  BY <1>6 DEF NewDispatch, OneDispatch, SameDispatches
<1> HIDE DEF s
<1> QED BY <1>1, <1>3, <1>5, <1>6, <1>7 DEF GoneIds, s

----------------------------------------------------------------------------
(* The invariant is inductive. *)

\* What a step of main does to the pipeline, and to the strategy's next id.
PipelineUntouched ==
  /\ UNCHANGED vars
  /\ strategy'.next_sequence_id \in
       {strategy.next_sequence_id, strategy.next_sequence_id + 1}

OrderEnqueued(o) ==
  /\ Enqueue(o)
  /\ o.sequence_id = strategy.next_sequence_id
  /\ strategy'.next_sequence_id = strategy.next_sequence_id + 1

Draining == (BeginDrain \/ DrainStep) /\ strategy' = strategy

\* There is nothing else.
LEMMA DemoMoves ==
  ASSUME Control, StatisticsAgree, [DemoNext]_allVars
  PROVE  \/ PipelineUntouched
         \/ \E o \in Order : OrderEnqueued(o)
         \/ Draining
<1>1. CASE OpenFailed \/ OpenFile \/ UNCHANGED allVars
  BY <1>1 DEF OpenFailed, OpenFile, allVars, demoVars, PipelineUntouched
<1>2. ASSUME NEW line \in Lines, ReadBadLine(line)
      PROVE  PipelineUntouched
  BY <1>2 DEF ReadBadLine, PipelineUntouched
<1>3. ASSUME NEW line \in Lines, replay.lines_read < MaxLines,
             ReadUpdate(line)
      PROVE  PipelineUntouched \/ \E o \in Order : OrderEnqueued(o)
  <2> DEFINE u == ParseMarketDataLine(line).update
             orders == GeneratedOrders(strategy, u)
  <2>1. /\ ParseMarketDataLine(line).status = "kOk"
        /\ strategy' = OnMarketData(strategy, u)
        /\ \/ orders = {} /\ UNCHANGED vars
           \/ \E o \in orders : Enqueue(o)
    BY <1>3 DEF ReadUpdate
  <2>2. CASE UNCHANGED vars
    <3>1. strategy'.next_sequence_id =
            strategy.next_sequence_id + SequenceIdsTaken(u)
      BY <2>1 DEF OnMarketData
    <3>2. SequenceIdsTaken(u) \in {0, 1}
      BY DEF SequenceIdsTaken
    <3>3. strategy.next_sequence_id \in Nat
      BY DEF StatisticsAgree, Strategy
    <3> QED BY <2>2, <3>1, <3>2, <3>3 DEF PipelineUntouched
  <2>3. ASSUME NEW o \in orders, Enqueue(o)
        PROVE  o \in Order /\ OrderEnqueued(o)
    <3>1. /\ o \in Order /\ o.sequence_id = strategy.next_sequence_id
          /\ strategy' = [next_sequence_id |-> strategy.next_sequence_id + 1,
                          signals_seen |-> strategy.signals_seen + 1,
                          orders_generated |->
                            strategy.orders_generated + 1]
      BY <1>3, <2>1, <2>3, GeneratedOrder
    <3> QED BY <2>3, <3>1 DEF OrderEnqueued
  <2> QED BY <2>1, <2>2, <2>3
<1>4. CASE EndOfFile \/ DrainAll
  BY <1>4 DEF EndOfFile, DrainAll, Draining
<1> QED BY <1>1, <1>2, <1>3, <1>4 DEF DemoNext, ReadLine

\* So every step of main is one that the lemmas about the pipeline cover.
LEMMA DemoIsStep ==
  ASSUME Control, StatisticsAgree, [DemoNext]_allVars
  PROVE  [Step]_vars
BY DemoMoves DEF PipelineUntouched, OrderEnqueued, Draining, Step

\* Ids stay in order.
LEMMA IdsStep ==
  ASSUME Inv, Control, StatisticsAgree, IdsInOrder, [DemoNext]_allVars
  PROVE  IdsInOrder'
<1> DEFINE next == strategy.next_sequence_id
<1>1. /\ next \in Nat /\ UsedIds = 1..(next - 1)
      /\ next - 1 \in Int /\ next >= 1
  BY DEF StatisticsAgree, Strategy, UsedIds, Control
<1>2. /\ UsedIds' = 1..(strategy'.next_sequence_id - 1)
      /\ (Increasing(queue))' = Increasing(queue')
      /\ (Ids(queue))' = Ids(queue')
  BY DEF UsedIds, Increasing, Ids
<1>3. \A s \in UsedIds : s < next
  BY <1>1
<1>4. CASE PipelineUntouched
  <2>1. UsedIds \subseteq UsedIds'
    BY <1>1, <1>2, <1>4 DEF PipelineUntouched
  <2>2. /\ KnownIds' = KnownIds /\ GoneIds' = GoneIds /\ queue' = queue
        /\ tracker'.journal = tracker.journal
    BY <1>4 DEF PipelineUntouched, vars, KnownIds, GoneIds
  <2> QED BY <1>2, <2>1, <2>2 DEF IdsInOrder
<1>5. ASSUME NEW o \in Order, OrderEnqueued(o)
      PROVE  IdsInOrder'
  <2>1. /\ KnownIds' \subseteq KnownIds \cup {next}
        /\ GoneIds' = GoneIds
        /\ queue' = queue \/ queue' = Append(queue, o)
        /\ NothingNew(tracker, tracker')
        /\ o.sequence_id = next
    BY <1>5, EnqueueIds DEF OrderEnqueued
  <2>2. /\ UsedIds \subseteq UsedIds' /\ next \in UsedIds'
        /\ \A s \in UsedIds' : s \in UsedIds \/ s = next
    BY <1>1, <1>2, <1>5 DEF OrderEnqueued
  <2>3. queue \in Seq(Order)
    BY DEF Inv, TypeOK
  <2>4. /\ Increasing(queue') /\ Ids(queue') \subseteq Ids(queue) \cup {next}
    <3>1. CASE queue' = queue
      BY <3>1 DEF IdsInOrder
    <3>2. CASE queue' = Append(queue, o)
      <4>1. \A r \in Ids(queue) : r < o.sequence_id
        BY <1>3, <2>1 DEF IdsInOrder
      <4> QED BY <2>1, <2>3, <3>2, <4>1, AppendIncreasing DEF IdsInOrder
    <3> QED BY <2>1, <3>1, <3>2
  <2>5. InOrder(tracker'.journal)
    BY <2>1 DEF IdsInOrder, NothingNew, SameDispatches
  <2>6. /\ KnownIds' \subseteq UsedIds' /\ GoneIds' \subseteq UsedIds'
        /\ Ids(queue') \subseteq UsedIds'
    BY <2>1, <2>2, <2>4 DEF IdsInOrder
  <2>7. \A s \in GoneIds', r \in Ids(queue') : s < r
    BY <1>3, <2>1, <2>4 DEF IdsInOrder
  <2> QED BY <1>2, <2>4, <2>5, <2>6, <2>7 DEF IdsInOrder
<1>6. CASE (BeginDrain \/ EndDrain) /\ strategy' = strategy
  <2>1. /\ KnownIds' = KnownIds /\ GoneIds' = GoneIds /\ queue' = queue
        /\ tracker'.journal = tracker.journal
    BY <1>6 DEF BeginDrain, EndDrain, gatewayVars, KnownIds, GoneIds
  <2>2. UsedIds' = UsedIds
    BY <1>6 DEF UsedIds
  <2> QED BY <1>2, <2>1, <2>2 DEF IdsInOrder
<1>7. CASE /\ DrainRiskRejected \/ DrainNoGateway \/ DrainSent
           /\ strategy' = strategy
  <2> DEFINE s == Popped.sequence_id
  <2>1. /\ KnownIds' \subseteq KnownIds \cup {s}
        /\ GoneIds' \subseteq GoneIds \cup {s}
        /\ queue # <<>> /\ queue' = Tail(queue)
        /\ NewDispatch(tracker, tracker', s) \/ tracker' = tracker
    BY <1>7, DrainIds
  <2>2. UsedIds' = UsedIds
    BY <1>7 DEF UsedIds
  <2>3. queue \in Seq(Order) /\ Increasing(queue) /\ s = queue[1].sequence_id
    BY <2>1, PoppedIsQueued DEF Inv, TypeOK, IdsInOrder
  <2> HIDE DEF s
  <2>4. /\ Increasing(queue') /\ Ids(queue') \subseteq Ids(queue)
        /\ s \in Ids(queue) /\ \A r \in Ids(queue') : s < r
    BY <2>1, <2>3, PopIncreasing
  <2>5. \A r \in DispatchedIds(tracker.journal) : r < s
    BY <2>4 DEF IdsInOrder, GoneIds
  <2>6. InOrder(tracker'.journal)
    BY <2>1, <2>5 DEF IdsInOrder, NewDispatch, OneDispatch, SameDispatches
  <2>7. /\ KnownIds' \subseteq UsedIds' /\ GoneIds' \subseteq UsedIds'
        /\ Ids(queue') \subseteq UsedIds'
    BY <2>1, <2>2, <2>4 DEF IdsInOrder
  <2>8. \A g \in GoneIds', r \in Ids(queue') : g < r
    BY <2>1, <2>4 DEF IdsInOrder
  <2> QED BY <1>2, <2>4, <2>6, <2>7, <2>8 DEF IdsInOrder
<1> QED BY <1>4, <1>5, <1>6, <1>7, DemoMoves DEF Draining, DrainStep

\* What a line adds to the replay's statistics.
LEMMA ReplayLineFields ==
  ASSUME NEW r \in FeedReplayResult, NEW line
  PROVE  LET ok == ParseMarketDataLine(line).status = "kOk"
             q  == ReplayLine(r, line)
         IN  /\ q \in FeedReplayResult
             /\ q.lines_read = r.lines_read + 1
             /\ q.updates_parsed = r.updates_parsed + IF ok THEN 1 ELSE 0
             /\ q.status = IF ok THEN r.status ELSE "kParseError"
             /\ q.error_line = IF ok THEN r.error_line ELSE q.lines_read
             /\ ~ok => q.parse_status # "kOk"
<1> DEFINE status == ParseMarketDataLine(line).status
           q == ReplayLine(r, line)
<1>1. status \in ParseStatus
  BY DEF ParseMarketDataLine, ParseFailed, ParseStatus
<1> HIDE DEF status
<1>2. /\ r.status \in FeedReplayStatus /\ r.lines_read \in Nat
      /\ r.updates_parsed \in Nat /\ r.error_line \in Nat
      /\ r.parse_status \in ParseStatus
      /\ r = [status |-> r.status, lines_read |-> r.lines_read,
              updates_parsed |-> r.updates_parsed,
              error_line |-> r.error_line, parse_status |-> r.parse_status]
  BY DEF FeedReplayResult
<1>3. q = IF status = "kOk"
          THEN [status |-> r.status, lines_read |-> r.lines_read + 1,
                updates_parsed |-> r.updates_parsed + 1,
                error_line |-> r.error_line, parse_status |-> r.parse_status]
          ELSE [status |-> "kParseError", lines_read |-> r.lines_read + 1,
                updates_parsed |-> r.updates_parsed,
                error_line |-> r.lines_read + 1, parse_status |-> status]
  <2> DEFINE read == [r EXCEPT !.lines_read = @ + 1]
  <2>1. read = [status |-> r.status, lines_read |-> r.lines_read + 1,
                updates_parsed |-> r.updates_parsed,
                error_line |-> r.error_line, parse_status |-> r.parse_status]
    BY <1>2
  <2>2. q = IF status = "kOk" THEN [read EXCEPT !.updates_parsed = @ + 1]
            ELSE [read EXCEPT !.status = "kParseError",
                              !.error_line = read.lines_read,
                              !.parse_status = status]
    BY DEF ReplayLine, status
  <2> HIDE DEF read, q
  <2>3. CASE status = "kOk"
    <3>1. q = [read EXCEPT !.updates_parsed = @ + 1]
      BY <2>2, <2>3
    <3> QED BY <2>1, <2>3, <3>1
  <2>4. CASE status # "kOk"
    <3>1. q = [read EXCEPT !.status = "kParseError",
                           !.error_line = read.lines_read,
                           !.parse_status = status]
      BY <2>2, <2>4
    <3>2. read.lines_read = r.lines_read + 1
      BY <2>1
    <3>3. q = [read EXCEPT !.status = "kParseError",
                           !.error_line = r.lines_read + 1,
                           !.parse_status = status]
      BY <3>1, <3>2
    <3>4. q = [status |-> "kParseError", lines_read |-> r.lines_read + 1,
               updates_parsed |-> r.updates_parsed,
               error_line |-> r.lines_read + 1, parse_status |-> status]
      BY <2>1, <3>3
    <3> QED BY <2>4, <3>4
  <2> QED BY <2>3, <2>4
<1> HIDE DEF q
<1>4. CASE status = "kOk"
  <2>1. /\ q.lines_read = r.lines_read + 1
        /\ q.updates_parsed = r.updates_parsed + 1
        /\ q.status = r.status /\ q.error_line = r.error_line
        /\ q \in FeedReplayResult
    BY <1>2, <1>3, <1>4 DEF FeedReplayResult
  <2> QED BY <1>4, <2>1 DEF status, q
<1>5. CASE status # "kOk"
  <2>1. /\ q.lines_read = r.lines_read + 1
        /\ q.updates_parsed = r.updates_parsed
        /\ q.status = "kParseError" /\ q.error_line = r.lines_read + 1
        /\ q.parse_status = status
        /\ q \in FeedReplayResult
    BY <1>1, <1>2, <1>3, <1>5 DEF FeedReplayResult, FeedReplayStatus
  <2>2. q.updates_parsed = r.updates_parsed + 0
    BY <1>2, <2>1
  <2> QED BY <1>5, <2>1, <2>2 DEF status, q
<1> QED BY <1>4, <1>5

\* What the end of the file does.
LEMMA ReplayEndFields ==
  ASSUME NEW r \in FeedReplayResult
  PROVE  /\ ReplayEnd(r) \in FeedReplayResult
         /\ ReplayEnd(r).lines_read = r.lines_read
         /\ ReplayEnd(r).updates_parsed = r.updates_parsed
         /\ ReplayEnd(r).error_line = r.error_line
         /\ ReplayEnd(r).status = "kOk"
BY DEF ReplayEnd, FeedReplayResult, FeedReplayStatus

\* What main's steps, but for reading a line, leave of the statistics.
LEMMA ControlStep ==
  ASSUME Control, StatisticsAgree, [DemoNext]_allVars
  PROVE  Control'
<1>0. /\ replay \in FeedReplayResult /\ strategy \in Strategy
      /\ replay.lines_read \in Nat /\ strategy.signals_seen \in Nat
      /\ strategy.next_sequence_id \in 1..(strategy.signals_seen + 1)
      /\ strategy.next_sequence_id \in Nat
  BY DEF StatisticsAgree, FeedReplayResult, Strategy, Control
<1>1. CASE OpenFailed
  BY <1>1 DEF OpenFailed, Control, vars
<1>2. CASE OpenFile
  BY <1>2 DEF OpenFile, Control, vars
<1>3. ASSUME NEW line \in Lines, replay.lines_read < MaxLines,
             ReadBadLine(line)
      PROVE  Control'
  <2>1. /\ replay' = ReplayLine(replay, line)
        /\ phase = "replay" /\ phase' = "exit" /\ exit_code' = 1
        /\ pc' = pc /\ strategy' = strategy
    BY <1>3 DEF ReadBadLine, vars
  <2>2. replay'.lines_read = replay.lines_read + 1
    BY <1>0, <2>1, ReplayLineFields
  <2>3. replay'.lines_read <= MaxLines
    BY <1>0, <1>3, <2>2, DemoAssumption
  <2> QED BY <1>0, <2>1, <2>3 DEF Control
<1>4. ASSUME NEW line \in Lines, replay.lines_read < MaxLines,
             ReadUpdate(line)
      PROVE  Control'
  <2> DEFINE u == ParseMarketDataLine(line).update
  <2>1. /\ replay' = ReplayLine(replay, line)
        /\ ParseMarketDataLine(line).status = "kOk"
        /\ strategy' = OnMarketData(strategy, u)
        /\ phase = "replay" /\ phase' = "replay" /\ exit_code' = exit_code
        /\ pc' = pc
    BY <1>4 DEF ReadUpdate, Enqueue, vars
  <2>2. /\ replay'.lines_read = replay.lines_read + 1
        /\ replay'.status = replay.status
    BY <1>0, <2>1, ReplayLineFields
  <2>3. replay'.lines_read <= MaxLines
    BY <1>0, <1>4, <2>2, DemoAssumption
  <2>4. /\ strategy'.signals_seen = strategy.signals_seen + 1
        /\ strategy'.next_sequence_id
             \in {strategy.next_sequence_id, strategy.next_sequence_id + 1}
    BY <1>0, <2>1 DEF OnMarketData, SequenceIdsTaken
  <2>5. strategy'.next_sequence_id \in 1..(strategy'.signals_seen + 1)
    BY <1>0, <2>4
  <2> QED BY <1>0, <2>1, <2>2, <2>3, <2>5 DEF Control
<1>5. CASE EndOfFile
  <2>1. /\ replay' = ReplayEnd(replay) /\ phase = "replay"
        /\ phase' = "drain" /\ pc' = "drain"
        /\ exit_code' = exit_code /\ strategy' = strategy
    BY <1>5 DEF EndOfFile, BeginDrain
  <2>2. replay'.lines_read = replay.lines_read /\ replay'.status = "kOk"
    BY <1>0, <2>1, ReplayEndFields
  <2> QED BY <2>1, <2>2 DEF Control
<1>6. CASE DrainAll
  <2>1. /\ phase = "drain" /\ DrainStep
        /\ phase' = IF pc' = "idle" THEN "exit" ELSE "drain"
        /\ exit_code' = exit_code /\ replay' = replay /\ strategy' = strategy
    BY <1>6 DEF DrainAll
  <2>2. \/ pc' = "idle" /\ queue' = <<>>
        \/ pc' = "drain"
    BY <2>1 DEF DrainStep, DrainRiskRejected, DrainNoGateway, DrainSent,
                PopOrder, EndDrain
  <2> QED BY <2>1, <2>2 DEF Control
<1>7. CASE UNCHANGED allVars
  BY <1>7 DEF allVars, demoVars, vars, Control
<1> QED BY <1>1, <1>2, <1>3, <1>4, <1>5, <1>6, <1>7 DEF DemoNext, ReadLine

\* The strategy's orders are counted by the pipeline: its id being new, none
\* is refused as a duplicate.
LEMMA EnqueueCounts ==
  ASSUME Inv, IdsInOrder, StatisticsAgree, NEW o \in Order, Enqueue(o),
         o.sequence_id = strategy.next_sequence_id
  PROVE  pipeline'["orders_enqueued"]
           + pipeline'["orders_dropped_on_enqueue"] =
           pipeline["orders_enqueued"]
             + pipeline["orders_dropped_on_enqueue"] + 1
<1>1. pipeline \in [PipelineCounter -> Nat]
  BY DEF Inv, TypeOK
<1>2. ~IsKnown(o)
  <2>1. o.sequence_id \in SeqId /\ o.sequence_id \in Nat
    BY DEF Order, StatisticsAgree, Strategy
  <2>2. o.sequence_id \notin 1..(strategy.next_sequence_id - 1)
    BY <2>1
  <2> QED BY <2>1, <2>2 DEF IsKnown, KnownIds, IdsInOrder, UsedIds
<1>3. \/ pipeline' = Bump(pipeline, {"orders_enqueued"})
      \/ pipeline' = Bump(pipeline, {"orders_dropped_on_enqueue"})
  BY <1>2, EnqueueFollows DEF Enqueue, EnqueueRejected, EnqueueDropped
<1> QED BY <1>1, <1>3, BumpValue, CounterNames

\* Draining leaves the counters of Enqueue alone.
LEMMA DrainEnqueuesNothing ==
  ASSUME Inv, BeginDrain \/ DrainStep
  PROVE  /\ pipeline'["orders_enqueued"] = pipeline["orders_enqueued"]
         /\ pipeline'["orders_dropped_on_enqueue"] =
              pipeline["orders_dropped_on_enqueue"]
<1>1. pipeline \in [PipelineCounter -> Nat]
  BY DEF Inv, TypeOK
<1>2. CASE BeginDrain \/ EndDrain
  BY <1>2 DEF BeginDrain, EndDrain
<1>3. ASSUME NEW names,
             {"orders_enqueued", "orders_dropped_on_enqueue"} \cap names = {},
             pipeline' = Bump(pipeline, names)
      PROVE  /\ pipeline'["orders_enqueued"] = pipeline["orders_enqueued"]
             /\ pipeline'["orders_dropped_on_enqueue"] =
                  pipeline["orders_dropped_on_enqueue"]
  BY <1>1, <1>3, BumpValue, CounterNames
<1>4. CASE DrainRiskRejected
  BY <1>3, <1>4, RiskRejectedFollows
<1>5. CASE DrainNoGateway
  BY <1>3, <1>5, NoGatewayFollows
<1>6. CASE DrainSent
  BY <1>3, <1>6, SentFollows
<1> QED BY <1>2, <1>4, <1>5, <1>6 DEF DrainStep

\* The statistics main prints agree after every step.
LEMMA StatisticsStep ==
  ASSUME Inv, Control, StatisticsAgree, IdsInOrder, [DemoNext]_allVars
  PROVE  StatisticsAgree'
<1> DEFINE enqueues == pipeline["orders_enqueued"]
                         + pipeline["orders_dropped_on_enqueue"]
<1>0. /\ replay \in FeedReplayResult /\ strategy \in Strategy
      /\ replay.lines_read \in Nat /\ replay.updates_parsed \in Nat
      /\ strategy.signals_seen \in Nat /\ strategy.next_sequence_id \in Nat
      /\ strategy.orders_generated \in Nat
      /\ strategy.signals_seen = replay.updates_parsed
      /\ strategy.orders_generated = enqueues
      /\ replay.lines_read = replay.updates_parsed
           + (IF replay.status = "kParseError" THEN 1 ELSE 0)
      /\ replay.error_line =
           IF replay.status = "kParseError" THEN replay.lines_read ELSE 0
  BY DEF StatisticsAgree, FeedReplayResult, Strategy
<1>1. ASSUME replay' = replay, strategy' = strategy, enqueues' = enqueues
      PROVE  StatisticsAgree'
  BY <1>0, <1>1 DEF StatisticsAgree
<1> HIDE DEF enqueues
<1>2. CASE OpenFailed \/ OpenFile \/ UNCHANGED allVars
  BY <1>1, <1>2 DEF OpenFailed, OpenFile, allVars, demoVars, vars, enqueues
<1>3. CASE phase = "replay"
  <2>1. replay.status # "kParseError"
    BY <1>3 DEF Control
  <2>2. replay.lines_read = replay.updates_parsed /\ replay.error_line = 0
    BY <1>0, <2>1
  <2>3. ASSUME NEW line \in Lines, ReadBadLine(line)
        PROVE  StatisticsAgree'
    <3>1. /\ replay' = ReplayLine(replay, line)
          /\ ParseMarketDataLine(line).status # "kOk"
          /\ strategy' = strategy /\ enqueues' = enqueues
      BY <2>3 DEF ReadBadLine, vars, enqueues
    <3>2. /\ replay' \in FeedReplayResult
          /\ replay'.lines_read = replay.lines_read + 1
          /\ replay'.updates_parsed = replay.updates_parsed + 0
          /\ replay'.status = "kParseError"
          /\ replay'.error_line = replay'.lines_read
      BY <1>0, <3>1, ReplayLineFields
    <3>3. replay'.updates_parsed = replay.updates_parsed
      BY <1>0, <3>2
    <3> QED BY <1>0, <2>2, <3>1, <3>2, <3>3 DEF StatisticsAgree, enqueues
  <2>4. ASSUME NEW line \in Lines, replay.lines_read < MaxLines,
               ReadUpdate(line)
        PROVE  StatisticsAgree'
    <3> DEFINE u == ParseMarketDataLine(line).update
               orders == GeneratedOrders(strategy, u)
    <3>1. /\ replay' = ReplayLine(replay, line)
          /\ ParseMarketDataLine(line).status = "kOk"
          /\ strategy' = OnMarketData(strategy, u)
          /\ \/ orders = {} /\ UNCHANGED vars
             \/ \E o \in orders : Enqueue(o)
      BY <2>4 DEF ReadUpdate
    <3>2. /\ replay' \in FeedReplayResult
          /\ replay'.lines_read = replay.lines_read + 1
          /\ replay'.updates_parsed = replay.updates_parsed + 1
          /\ replay'.status = replay.status
          /\ replay'.error_line = replay.error_line
      BY <1>0, <3>1, ReplayLineFields
    <3>3. /\ strategy' \in Strategy
          /\ strategy'.signals_seen = strategy.signals_seen + 1
          /\ strategy'.orders_generated =
               IF orders = {} THEN strategy.orders_generated
                              ELSE strategy.orders_generated + 1
      BY <1>0, <3>1 DEF OnMarketData, SequenceIdsTaken, Strategy
    <3>4. strategy'.orders_generated = enqueues'
      <4>1. CASE orders = {} /\ UNCHANGED vars
        BY <1>0, <3>3, <4>1 DEF vars, enqueues
      <4>2. ASSUME NEW o \in orders, Enqueue(o)
            PROVE  strategy'.orders_generated = enqueues'
        <5>1. o \in Order /\ o.sequence_id = strategy.next_sequence_id
          BY <2>4, <3>1, <4>2, GeneratedOrder
        <5>2. enqueues' = enqueues + 1
          BY <4>2, <5>1, EnqueueCounts DEF enqueues
        <5> QED BY <1>0, <3>3, <4>2, <5>2
      <4> QED BY <3>1, <4>1, <4>2
    <3> QED BY <1>0, <2>1, <2>2, <3>2, <3>3, <3>4
            DEF StatisticsAgree, enqueues
  <2>5. CASE EndOfFile
    <3>1. /\ replay' = ReplayEnd(replay) /\ strategy' = strategy
          /\ enqueues' = enqueues
      BY <2>5 DEF EndOfFile, BeginDrain, enqueues
    <3>2. /\ replay' \in FeedReplayResult
          /\ replay'.lines_read = replay.lines_read
          /\ replay'.updates_parsed = replay.updates_parsed
          /\ replay'.error_line = replay.error_line
          /\ replay'.status = "kOk"
      BY <1>0, <3>1, ReplayEndFields
    <3> QED BY <1>0, <2>2, <3>1, <3>2 DEF StatisticsAgree, enqueues
  <2> QED BY <1>2, <1>3, <2>3, <2>4, <2>5
          DEF DemoNext, ReadLine, DrainAll
<1>4. CASE DrainAll
  <2>1. replay' = replay /\ strategy' = strategy /\ DrainStep
    BY <1>4 DEF DrainAll
  <2>2. enqueues' = enqueues
    BY <2>1, DrainEnqueuesNothing DEF enqueues
  <2> QED BY <1>1, <2>1, <2>2
<1> QED BY <1>2, <1>3, <1>4
        DEF DemoNext, ReadLine, ReadBadLine, ReadUpdate, EndOfFile

\* Everything enqueued is still in the buffer, and the tracker knows of
\* nothing else.
StillQueued ==
  /\ Len(queue) = pipeline["orders_enqueued"]
  /\ wiring.pipeline_tracker => KnownIds = QueuedIds

\* Enqueue keeps it so.
LEMMA StillQueuedStep ==
  ASSUME Inv, NEW o \in Order, Enqueue(o), StillQueued
  PROVE  StillQueued'
<1> DEFINE s == o.sequence_id
<1>0. /\ pipeline \in [PipelineCounter -> Nat] /\ queue \in Seq(Order)
      /\ s \in SeqId /\ wiring' = wiring
  BY DEF Inv, TypeOK, Order, Enqueue
<1>1. CASE EnqueueRejected(o) \/ EnqueueDropped(o)
  <2>1. PICK name \in {"orders_dropped_on_enqueue",
                       "orders_rejected_by_lifecycle_on_enqueue"} :
          /\ tracker' = tracker /\ queue' = queue
          /\ pipeline' = Bump(pipeline, {name})
    BY <1>1 DEF EnqueueRejected, EnqueueDropped
  <2>2. pipeline'["orders_enqueued"] = pipeline["orders_enqueued"]
    BY <1>0, <2>1, BumpValue, CounterNames
  <2> QED BY <1>0, <2>1, <2>2 DEF StillQueued, KnownIds, QueuedIds
<1>2. CASE EnqueueQueued(o)
  <2>1. /\ Follows(s, "kQueued", {"orders_registered", "orders_queued"})
        /\ pipeline' = Bump(pipeline, {"orders_enqueued"})
        /\ queue' = Append(queue, o)
    BY <1>2, EnqueueFollows DEF EnqueueQueued
  <2>2. pipeline'["orders_enqueued"] = pipeline["orders_enqueued"] + 1
    BY <1>0, <2>1, BumpValue, CounterNames
  <2>3. Len(queue') = Len(queue) + 1
    BY <1>0, <2>1, AppendProperties
  <2>4. ASSUME wiring.pipeline_tracker
        PROVE  KnownIds' = QueuedIds'
    <3>1. KnownIds = QueuedIds /\ s \notin KnownIds
      BY <1>2, <2>4 DEF StillQueued, EnqueueQueued, IsKnown, KnownIds
    <3>2. Distinct(queue) /\ s \notin Ids(queue)
      BY <2>4, <3>1 DEF Inv, QueueMatchesTracker, Distinct, QueuedIds, Ids
    <3>3. QueuedIds' = QueuedIds \cup {s}
      BY <1>0, <2>1, <3>2, AppendedIds DEF QueuedIds, Ids
    <3>4. \A r \in SeqId : StateOf(tracker', r) =
                           IF r = s THEN "kQueued" ELSE StateOf(tracker, r)
      BY <2>1, <2>4 DEF Follows, Moved
    <3> HIDE DEF s
    <3>5. KnownIds' = KnownIds \cup {s}
      BY <1>0, <3>4 DEF KnownIds, Contains, StateOf, Absent
    <3> QED BY <3>1, <3>3, <3>5
  <2> QED BY <1>0, <2>2, <2>3, <2>4 DEF StillQueued
<1> QED BY <1>1, <1>2 DEF Enqueue

\* What FailedReplaySendsNothing says of the time before main drains...
BeforeDrain ==
  /\ gateway["orders_sent"] = 0 /\ risk["orders_checked"] = 0
  /\ StillQueued

\* ... and of main's exit.
ExitTellsWhy ==
  \/ exit_code = 0 /\ replay.status = "kOk"
  \/ /\ exit_code = 1 /\ replay.status = "kFileOpenFailed"
     /\ replay.lines_read = 0
  \/ /\ exit_code = 1 /\ replay.status = "kParseError"
     /\ replay.parse_status # "kOk"
     /\ replay.error_line = replay.lines_read /\ replay.lines_read > 0

LEMMA FailedMeans ==
  FailedReplaySendsNothing <=>
    /\ phase \in {"open", "replay"} \/ exit_code = 1 => BeforeDrain
    /\ phase = "exit" => ExitTellsWhy
BY DEF FailedReplaySendsNothing, BeforeDrain, StillQueued, KnownIds,
       ExitTellsWhy

\* Until main drains, and in a run that fails, every order stays where
\* Enqueue put it; main's exit code and statistics tell why it stopped.
LEMMA FailedStep ==
  ASSUME Inv, Control, StatisticsAgree, FailedReplaySendsNothing,
         [DemoNext]_allVars
  PROVE  FailedReplaySendsNothing'
<1>0. /\ phase \in {"open", "replay"} \/ exit_code = 1 => BeforeDrain
      /\ phase = "exit" => ExitTellsWhy
  BY FailedMeans
<1>a. ASSUME phase' \in {"open", "replay"} \/ exit_code' = 1 => BeforeDrain',
             phase' = "exit" => ExitTellsWhy'
      PROVE  FailedReplaySendsNothing'
  BY <1>a DEF FailedReplaySendsNothing, BeforeDrain, StillQueued, KnownIds,
              ExitTellsWhy
<1>b. ASSUME UNCHANGED vars, BeforeDrain
      PROVE  BeforeDrain'
  BY <1>b DEF vars, BeforeDrain, StillQueued, KnownIds, QueuedIds
<1>1. CASE OpenFailed
  BY <1>0, <1>1, <1>a, <1>b DEF OpenFailed, Control, ExitTellsWhy
<1>2. CASE OpenFile
  BY <1>0, <1>2, <1>a, <1>b DEF OpenFile
<1>3. ASSUME NEW line \in Lines, ReadBadLine(line)
      PROVE  FailedReplaySendsNothing'
  <2>1. /\ replay' = ReplayLine(replay, line)
        /\ ParseMarketDataLine(line).status # "kOk"
        /\ phase = "replay" /\ phase' = "exit" /\ exit_code' = 1
        /\ UNCHANGED vars
    BY <1>3 DEF ReadBadLine
  <2>2. replay \in FeedReplayResult /\ replay.lines_read \in Nat
    BY DEF StatisticsAgree, FeedReplayResult
  <2>3. /\ replay'.status = "kParseError" /\ replay'.parse_status # "kOk"
        /\ replay'.error_line = replay'.lines_read
        /\ replay'.lines_read = replay.lines_read + 1
    BY <2>1, <2>2, ReplayLineFields
  <2>4. ExitTellsWhy'
    BY <2>1, <2>2, <2>3 DEF ExitTellsWhy
  <2>5. BeforeDrain'
    BY <1>0, <1>b, <2>1
  <2> QED BY <1>a, <2>4, <2>5
<1>4. ASSUME NEW line \in Lines, replay.lines_read < MaxLines,
             ReadUpdate(line)
      PROVE  FailedReplaySendsNothing'
  <2> DEFINE u == ParseMarketDataLine(line).update
             orders == GeneratedOrders(strategy, u)
  <2>1. /\ phase = "replay" /\ phase' = "replay" /\ BeforeDrain
        /\ \/ UNCHANGED vars
           \/ \E o \in orders : Enqueue(o)
    BY <1>0, <1>4 DEF ReadUpdate
  <2>2. ASSUME NEW o \in orders, Enqueue(o)
        PROVE  BeforeDrain'
    <3>1. ParseMarketDataLine(line).status = "kOk"
      BY <1>4 DEF ReadUpdate
    <3>2. o \in Order
      BY <1>4, <2>2, <3>1, GeneratedOrder
    <3>3. StillQueued'
      BY <2>1, <2>2, <3>2, StillQueuedStep DEF BeforeDrain
    <3>4. gateway' = gateway /\ risk' = risk
      BY <2>2 DEF Enqueue
    <3> QED BY <2>1, <3>3, <3>4 DEF BeforeDrain
  <2>3. BeforeDrain'
    BY <1>b, <2>1, <2>2
  <2> QED BY <1>a, <2>1, <2>3
<1>5. CASE EndOfFile
  <2>1. phase' = "drain" /\ exit_code' = 0
    BY <1>5 DEF EndOfFile, Control
  <2> QED BY <1>a, <2>1
<1>6. CASE DrainAll
  <2>1. /\ phase' \in {"drain", "exit"} /\ exit_code' = 0
        /\ replay'.status = "kOk"
    BY <1>6 DEF DrainAll, Control
  <2> QED BY <1>a, <2>1 DEF ExitTellsWhy
<1>7. CASE UNCHANGED allVars
  BY <1>0, <1>7, <1>a, <1>b DEF allVars, demoVars, ExitTellsWhy
<1> QED BY <1>1, <1>2, <1>3, <1>4, <1>5, <1>6, <1>7 DEF DemoNext, ReadLine

\* Every run of main keeps the invariant.
LEMMA DemoInvHolds == DemoSpec => []DemoInv
<1>1. DemoInv /\ [DemoNext]_allVars => DemoInv'
  <2> SUFFICES ASSUME DemoInv, [DemoNext]_allVars PROVE DemoInv'
    OBVIOUS
  <2>1. /\ Inv /\ Control /\ StatisticsAgree /\ FailedReplaySendsNothing
        /\ IdsInOrder
    BY DEF DemoInv
  <2>2. Inv'
    BY <2>1, DemoIsStep, TypeStep, QueueStep DEF Inv
  <2>3. Control' /\ StatisticsAgree' /\ IdsInOrder'
    BY <2>1, ControlStep, StatisticsStep, IdsStep
  <2>4. FailedReplaySendsNothing'
    BY <2>1, FailedStep
  <2> QED BY <2>2, <2>3, <2>4 DEF DemoInv
<1> QED BY <1>1, DemoInitInv, PTL DEF DemoSpec

\* The statistics that main prints at the end agree across the components.
THEOREM StatisticsAlwaysAgree == DemoSpec => []StatisticsAgree
<1>1. DemoInv => StatisticsAgree
  BY DEF DemoInv
<1> QED BY <1>1, DemoInvHolds, PTL

\* While main reads, and in a run that fails, nothing is checked or sent and
\* every order enqueued stays in the buffer, known to the tracker as queued;
\* and main fails exactly when its statistics say that the file could not be
\* opened or that the last line read is bad.
THEOREM FailedReplaysSendNothing == DemoSpec => []FailedReplaySendsNothing
<1>1. DemoInv => FailedReplaySendsNothing
  BY DEF DemoInv
<1> QED BY <1>1, DemoInvHolds, PTL

\* Every order drained has one dispatch report, if there is a journal to
\* report it to.
DispatchesCounted ==
  wiring.pipeline_tracker /\ wiring.journal =>
    /\ tracker.attached
    /\ IsFiniteSet(Dispatches(tracker.journal))
    /\ Cardinality(Dispatches(tracker.journal)) = pipeline["orders_drained"]

\* Main's steps keep it so.
LEMMA DispatchesCountedStep ==
  ASSUME Inv, Control, StatisticsAgree, DispatchesCounted,
         [DemoNext]_allVars
  PROVE  DispatchesCounted'
<1> DEFINE found == Dispatches(tracker.journal)
           drained == pipeline["orders_drained"]
<1>0. pipeline \in [PipelineCounter -> Nat] /\ drained \in Nat
  BY CounterNames DEF Inv, TypeOK
<1>1. ASSUME wiring' = wiring, tracker'.attached = tracker.attached,
             Dispatches(tracker'.journal) = found,
             pipeline'["orders_drained"] = drained
      PROVE  DispatchesCounted'
  BY <1>1 DEF DispatchesCounted
<1>2. CASE PipelineUntouched
  BY <1>1, <1>2 DEF PipelineUntouched, vars
<1>3. ASSUME NEW o \in Order, OrderEnqueued(o)
      PROVE  DispatchesCounted'
  <2>1. Enqueue(o) /\ wiring' = wiring
    BY <1>3 DEF OrderEnqueued, Enqueue
  <2>2. NothingNew(tracker, tracker')
    BY <2>1, EnqueueIds
  <2>3. PICK name \in PipelineCounter \ {"orders_drained"} :
          pipeline' = Bump(pipeline, {name})
    BY <2>1, EnqueueFollows, CounterNames
    DEF Enqueue, EnqueueRejected, EnqueueDropped
  <2>4. pipeline'["orders_drained"] = drained
    BY <1>0, <2>3, BumpValue, CounterNames
  <2> QED BY <1>1, <2>1, <2>2, <2>4 DEF NothingNew, SameDispatches
<1>4. CASE BeginDrain \/ EndDrain
  BY <1>1, <1>4 DEF BeginDrain, EndDrain, gatewayVars
<1>5. CASE DrainRiskRejected \/ DrainNoGateway \/ DrainSent
  <2> SUFFICES ASSUME wiring.pipeline_tracker, wiring.journal
               PROVE  /\ tracker'.attached
                      /\ IsFiniteSet(Dispatches(tracker'.journal))
                      /\ Cardinality(Dispatches(tracker'.journal)) =
                           pipeline'["orders_drained"]
    <3>1. wiring' = wiring
      BY <1>5 DEF DrainRiskRejected, DrainNoGateway, DrainSent, PopOrder
    <3> QED BY <3>1 DEF DispatchesCounted
  <2>1. /\ tracker.attached /\ IsFiniteSet(found)
        /\ Cardinality(found) = drained
    BY DEF DispatchesCounted
  <2>2. /\ tracker'.attached
        /\ \E i : /\ i \notin found
                 /\ Dispatches(tracker'.journal) = found \cup {i}
    BY <1>5, <2>1, DrainIds DEF NewDispatch, OneDispatch
  <2>3. PICK names : /\ "orders_drained" \in names
                     /\ pipeline' = Bump(pipeline, names)
    BY <1>5, RiskRejectedFollows, NoGatewayFollows, SentFollows
  <2>4. pipeline'["orders_drained"] = drained + 1
    BY <1>0, <2>3, BumpValue, CounterNames
  <2> HIDE DEF found, drained
  <2> QED BY <2>1, <2>2, <2>4, FS_AddElement
<1> QED BY <1>2, <1>3, <1>4, <1>5, DemoMoves DEF Draining, DrainStep

\* Orders leave the pipeline in the order of the updates that caused them,
\* with or without a risk manager, a gateway or an exchange; what is still
\* in the buffer is newer; and where there is a journal, only the orders
\* dropped are in neither.
THEOREM DispatchesInOrder == DemoSpec => []DispatchInOrder
<1> DEFINE Counting == PipelineBalances /\ DispatchesCounted
<1>1. DemoInit => Counting
  <2> SUFFICES ASSUME DemoInit PROVE Counting
    OBVIOUS
  <2>1. Init
    BY DEF DemoInit
  <2>2. PipelineBalances
    BY <2>1, CounterNames DEF Init, PipelineBalances, NewRiskManager
  <2>3. /\ wiring.journal => tracker.attached
        /\ tracker.journal.reports = <<>>
    BY <2>1 DEF Init, NewTracker, NewJournal
  <2>4. Dispatches(tracker.journal) = {} /\ pipeline["orders_drained"] = 0
    BY <2>1, <2>3, CounterNames DEF Init, Dispatches
  <2> QED BY <2>2, <2>3, <2>4, FS_EmptySet DEF DispatchesCounted
<1>2. DemoInv /\ Counting /\ [DemoNext]_allVars => Counting'
  BY DemoIsStep, PipelineBalanceStep, DispatchesCountedStep DEF DemoInv
<1>3. DemoInv /\ Counting => DispatchInOrder
  <2> SUFFICES ASSUME DemoInv, Counting PROVE DispatchInOrder
    OBVIOUS
  <2> DEFINE reports == tracker.journal.reports
             dispatch == {i \in 1..Len(reports) :
                            reports[i].type \in {"kSent", "kRiskRejected"}}
  <2>1. IdsInOrder /\ StatisticsAgree
    BY DEF DemoInv
  <2>2. dispatch = Dispatches(tracker.journal) /\ QueuedIds = Ids(queue)
    BY DEF Dispatches, QueuedIds, Ids
  <2> HIDE DEF dispatch
  <2>3. \A i, k \in dispatch :
          i < k => reports[i].sequence_id < reports[k].sequence_id
    BY <2>1, <2>2 DEF IdsInOrder, InOrder
  <2>4. \A i \in dispatch, r \in QueuedIds : reports[i].sequence_id < r
    BY <2>1, <2>2 DEF IdsInOrder, GoneIds, DispatchedIds
  <2>5. \A i, k \in 1..Len(queue) :
          i < k => queue[i].sequence_id < queue[k].sequence_id
    BY <2>1 DEF IdsInOrder, Increasing
  <2>6. /\ strategy.orders_generated = pipeline["orders_enqueued"]
                                         + pipeline["orders_dropped_on_enqueue"]
        /\ pipeline["orders_enqueued"] =
             pipeline["orders_drained"] + Len(queue)
    BY <2>1 DEF StatisticsAgree, PipelineBalances
  <2>7. wiring.pipeline_tracker /\ wiring.journal =>
          strategy.orders_generated =
            Cardinality(dispatch) + Len(queue)
              + pipeline["orders_dropped_on_enqueue"]
    BY <2>2, <2>6 DEF DispatchesCounted
  <2> QED BY <2>3, <2>4, <2>5, <2>7 DEF DispatchInOrder, dispatch
<1> HIDE DEF Counting
<1> QED BY <1>1, <1>2, <1>3, DemoInvHolds, PTL DEF DemoSpec

----------------------------------------------------------------------------
(* A run that exits with 0 has settled its orders, wired as in main.cpp. *)

\* The parts main gives each other, of which the proof needs these: a risk
\* manager, a tracker and a gateway for the pipeline, an exchange for the
\* gateway.
MainWires(w) ==
  w.risk_manager /\ w.pipeline_tracker /\ w.pipeline_gateway
    /\ w.gateway_exchange

WiredAsMain == \A w \in Wirings : MainWires(w)

\* Orders are queued, rejected by the risk manager or accepted: what passes
\* the risk manager, the exchange accepts.
ExchangeRejectsNothing ==
  /\ pipeline["orders_rejected_by_gateway"] = 0
  /\ \A s \in SeqId : StateOf(tracker, s) \in
       {Absent, "kQueued", "kRiskRejected", "kExchangeAccepted"}

\* The exchange accepts an order that passes the risk manager, its id being
\* newer than all those the exchange has seen.
LEMMA PassedIsAccepted ==
  ASSUME Inv, IdsInOrder, MainWires(wiring), DrainSent
  PROVE  SendOrderResponse(Popped).accepted
<1>1. queue # <<>> /\ PassesRisk(Popped)
  BY DEF DrainSent, PopOrder, Popped
<1>2. /\ Popped \in Order /\ Popped.sequence_id \in SeqId
      /\ Popped = queue[1] /\ 1 \in 1..Len(queue)
  BY <1>1, PoppedIsQueued
<1>3. Popped.sequence_id \notin exchange.seen
  <2>1. Popped.sequence_id \in Ids(queue)
    BY <1>2 DEF Ids
  <2>2. Popped.sequence_id \in Nat
    BY <2>1 DEF IdsInOrder, UsedIds
  <2>3. \A s \in exchange.seen : s < Popped.sequence_id
    BY <2>1 DEF IdsInOrder, GoneIds
  <2> QED BY <2>2, <2>3
<1>4. RiskDecision(Popped).accepted
  BY <1>1 DEF PassesRisk, MainWires
<1>5. /\ Popped.symbol # <<>> /\ ~IsInvalidPrice(Popped.price)
      /\ Popped.quantity # 0
  BY <1>4 DEF RiskDecision, Rejected, IsInvalidPrice
<1>6. SubmitResponse(exchange, Popped).accepted
  BY <1>3, <1>5 DEF SubmitResponse, Accepted
<1> QED BY <1>6 DEF SendOrderResponse, MainWires

\* Main's steps keep it so.
LEMMA NoRejectionStep ==
  ASSUME Inv, Control, StatisticsAgree, IdsInOrder, MainWires(wiring),
         ExchangeRejectsNothing, [DemoNext]_allVars
  PROVE  MainWires(wiring') /\ ExchangeRejectsNothing'
<1> DEFINE refused == "orders_rejected_by_gateway"
           Resting == {Absent, "kQueued", "kRiskRejected", "kExchangeAccepted"}
<1>0. /\ pipeline \in [PipelineCounter -> Nat] /\ pipeline[refused] = 0
      /\ refused \in PipelineCounter
  BY CounterNames DEF Inv, TypeOK, ExchangeRejectsNothing
<1>1. \A s \in SeqId : StateOf(tracker, s) \in Resting
  BY DEF ExchangeRejectsNothing
<1>2. ASSUME wiring' = wiring, tracker' = tracker,
             pipeline'[refused] = pipeline[refused]
      PROVE  MainWires(wiring') /\ ExchangeRejectsNothing'
  BY <1>0, <1>1, <1>2 DEF ExchangeRejectsNothing, StateOf
<1>3. ASSUME NEW s \in SeqId, NEW next \in Resting, NEW names, NEW counters,
             Follows(s, next, counters), refused \notin names,
             pipeline' = Bump(pipeline, names), wiring' = wiring
      PROVE  MainWires(wiring') /\ ExchangeRejectsNothing'
  <2>1. pipeline'[refused] = 0
    BY <1>0, <1>3, BumpValue
  <2>2. \A r \in SeqId : StateOf(tracker', r) \in Resting
    BY <1>1, <1>3 DEF Follows, Moved, MainWires
  <2> QED BY <1>3, <2>1, <2>2 DEF ExchangeRejectsNothing, StateOf
<1> HIDE DEF Resting
<1>4. CASE PipelineUntouched
  BY <1>2, <1>4 DEF PipelineUntouched, vars
<1>5. ASSUME NEW o \in Order, OrderEnqueued(o)
      PROVE  MainWires(wiring') /\ ExchangeRejectsNothing'
  <2>1. wiring' = wiring /\ o.sequence_id \in SeqId /\ Enqueue(o)
    BY <1>5 DEF OrderEnqueued, Enqueue, Order
  <2>2. CASE EnqueueRejected(o) \/ EnqueueDropped(o)
    <3>1. PICK name \in {"orders_dropped_on_enqueue",
                         "orders_rejected_by_lifecycle_on_enqueue"} :
            tracker' = tracker /\ pipeline' = Bump(pipeline, {name})
      BY <2>2 DEF EnqueueRejected, EnqueueDropped
    <3>2. pipeline'[refused] = pipeline[refused]
      BY <1>0, <3>1, BumpValue
    <3> QED BY <1>2, <2>1, <3>1, <3>2
  <2>3. CASE EnqueueQueued(o)
    <3>1. "kQueued" \in Resting
      BY DEF Resting
    <3> QED BY <1>3, <2>1, <2>3, <3>1, EnqueueFollows
  <2> QED BY <2>1, <2>2, <2>3 DEF Enqueue
<1>6. CASE BeginDrain \/ EndDrain
  BY <1>2, <1>6 DEF BeginDrain, EndDrain, gatewayVars
<1>7. ASSUME PopOrder
      PROVE  wiring' = wiring /\ Popped.sequence_id \in SeqId
  BY <1>7, PoppedIsQueued DEF PopOrder
<1>8. CASE DrainRiskRejected
  <2>1. PopOrder /\ "kRiskRejected" \in Resting
    BY <1>8 DEF DrainRiskRejected, Resting
  <2> QED BY <1>3, <1>7, <1>8, <2>1, RiskRejectedFollows
<1>9. CASE DrainSent
  <2>1. PopOrder /\ "kExchangeAccepted" \in Resting
    BY <1>9 DEF DrainSent, Resting
  <2>2. SendOrderResponse(Popped).accepted
    BY <1>9, PassedIsAccepted
  <2> QED BY <1>3, <1>7, <1>9, <2>1, <2>2, SentFollows
<1>10. ~DrainNoGateway
  BY DEF DrainNoGateway, MainWires
<1> QED BY <1>4, <1>5, <1>6, <1>8, <1>9, <1>10, DemoMoves
        DEF Draining, DrainStep

\* When main returns 0 the buffer is empty, so nothing is queued, and the
\* balances add up to what the strategy generated.
LEMMA SettledAtExit ==
  ASSUME DemoInv, MainWires(wiring), ExchangeRejectsNothing,
         PipelineBalances, TrackerBalances
  PROVE  SuccessSettlesEverything
<1> SUFFICES ASSUME phase = "exit", exit_code = 0
             PROVE  /\ queue = <<>>
                    /\ \A s \in SeqId : StateOf(tracker, s) \in
                         {Absent, "kRiskRejected", "kExchangeAccepted"}
                    /\ strategy.orders_generated =
                         tracker.count["orders_risk_rejected"]
                           + tracker.count["orders_exchange_accepted"]
                           + pipeline["orders_dropped_on_enqueue"]
  BY DEF SuccessSettlesEverything
<1>1. queue = <<>> /\ Len(queue) = 0
  BY DEF DemoInv, Control
<1>2. ASSUME NEW s \in SeqId
      PROVE  StateOf(tracker, s) \in
               {Absent, "kRiskRejected", "kExchangeAccepted"}
  <2>1. InState(tracker, "kQueued") = {}
    BY <1>1 DEF DemoInv, Inv, QueueMatchesTracker, QueuedIds, MainWires
  <2>2. StateOf(tracker, s) # "kQueued"
    BY <2>1 DEF InState, StateOf
  <2> QED BY <2>2 DEF ExchangeRejectsNothing
<1>3. /\ pipeline["orders_enqueued"] \in Nat
      /\ pipeline["orders_dropped_on_enqueue"] \in Nat
      /\ pipeline["orders_drained"] \in Nat
      /\ pipeline["orders_accepted"] \in Nat
      /\ pipeline["orders_rejected"] \in Nat
      /\ pipeline["orders_rejected_by_risk"] \in Nat
  BY CounterNames DEF DemoInv, Inv, TypeOK
<1>4. /\ pipeline["orders_enqueued"] = pipeline["orders_drained"] + 0
      /\ pipeline["orders_drained"] =
           pipeline["orders_accepted"] + pipeline["orders_rejected"]
      /\ pipeline["orders_rejected"] =
           pipeline["orders_rejected_by_risk"] + 0
  BY <1>1 DEF PipelineBalances, ExchangeRejectsNothing
<1>5. /\ tracker.count["orders_risk_rejected"] =
           pipeline["orders_rejected_by_risk"]
      /\ tracker.count["orders_exchange_accepted"] =
           pipeline["orders_accepted"]
  BY DEF TrackerBalances, MainWires
<1>6. strategy.orders_generated = pipeline["orders_enqueued"]
                                    + pipeline["orders_dropped_on_enqueue"]
  BY DEF DemoInv, StatisticsAgree
<1> QED BY <1>1, <1>2, <1>3, <1>4, <1>5, <1>6

\* A run that exits with 0 has settled every order it enqueued: with the
\* components wired as main.cpp wires them, none is left queued or sent.
THEOREM SuccessSettles ==
  ASSUME WiredAsMain
  PROVE  DemoSpec => []SuccessSettlesEverything
<1> DEFINE Settling == /\ MainWires(wiring) /\ ExchangeRejectsNothing
                       /\ PipelineBalances /\ TrackerBalances
<1>1. DemoInit => Settling
  <2> SUFFICES ASSUME DemoInit PROVE Settling
    OBVIOUS
  <2>1. Init
    BY DEF DemoInit
  <2>2. MainWires(wiring)
    BY <2>1 DEF Init, WiredAsMain
  <2>3. ExchangeRejectsNothing
    BY <2>1, CounterNames
    DEF Init, ExchangeRejectsNothing, NewTracker, NoRecord, StateOf
  <2>4. PipelineBalances /\ TrackerBalances
    BY <2>1, CounterNames
    DEF Init, PipelineBalances, NewRiskManager, TrackerBalances, NewTracker
  <2> QED BY <2>2, <2>3, <2>4
<1>2. DemoInv /\ Settling /\ [DemoNext]_allVars => Settling'
  <2> SUFFICES ASSUME DemoInv, Settling, [DemoNext]_allVars
               PROVE  Settling'
    OBVIOUS
  <2>1. Inv /\ Control /\ StatisticsAgree /\ IdsInOrder
    BY DEF DemoInv
  <2>2. (MainWires(wiring))' /\ ExchangeRejectsNothing'
    BY <2>1, NoRejectionStep DEF MainWires
  <2>3. PipelineBalances' /\ TrackerBalances'
    BY <2>1, DemoIsStep, PipelineBalanceStep, TrackerBalanceStep
  <2> QED BY <2>2, <2>3
<1>3. DemoInv /\ Settling => SuccessSettlesEverything
  BY SettledAtExit
<1> HIDE DEF Settling
<1> QED BY <1>1, <1>2, <1>3, DemoInvHolds, PTL DEF DemoSpec

============================================================================
