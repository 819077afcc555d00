------------------------- MODULE ExchangeSimulator -------------------------
(***************************************************************************)
(* ExchangeSimulator (exchange_simulator.hpp, exchange_simulator.cpp): the *)
(* sequence ids ever accepted and the orders active now.  A rejected       *)
(* request leaves the simulator as it was, so a method is a pair: the      *)
(* response, and the state after an accepted request.                      *)
(***************************************************************************)
EXTENDS Messages

\* seen_sequence_ids_ and active_orders_ (a map keyed by sequence id).
IsExchange(ex) ==
  /\ ex.seen \subseteq SeqId
  /\ DOMAIN ex.active \subseteq ex.seen
  /\ ex.active \in [DOMAIN ex.active -> Order]
  /\ ex = [seen |-> ex.seen, active |-> ex.active]

NewExchange == [seen |-> {}, active |-> [s \in {} |-> <<>>]]

\* !std::isfinite(price) || price <= 0.0
IsInvalidPrice(price) == ~IsFinite(price) \/ LessEq(price, Zero)

HasActiveOrder(ex, s) == s \in DOMAIN ex.active

SubmitResponse(ex, o) ==
  IF o.symbol = <<>> THEN Rejected("kInvalidSymbol")
  ELSE IF IsInvalidPrice(o.price) THEN Rejected("kInvalidPrice")
  ELSE IF o.quantity = 0 THEN Rejected("kInvalidQuantity")
  ELSE IF o.sequence_id \in ex.seen THEN Rejected("kDuplicateSequence")
  ELSE Accepted

\* Mutant: the id is consumed before the order is validated.
SubmitOrderEager(ex, o) ==
  IF ~SubmitResponse(ex, o).accepted
  THEN [ex EXCEPT !.seen = @ \cup {o.sequence_id}]
  ELSE [seen |-> ex.seen \cup {o.sequence_id},
        active |-> [s \in DOMAIN ex.active \cup {o.sequence_id} |->
                      IF s \in DOMAIN ex.active THEN ex.active[s] ELSE o]]

\* Only an accepted order consumes its sequence id.
SubmitOrder(ex, o) ==
  IF ~SubmitResponse(ex, o).accepted THEN ex
  ELSE [seen |-> ex.seen \cup {o.sequence_id},
        active |-> [s \in DOMAIN ex.active \cup {o.sequence_id} |->
                      IF s \in DOMAIN ex.active THEN ex.active[s] ELSE o]]

CancelResponse(ex, s) ==
  IF HasActiveOrder(ex, s) THEN Accepted ELSE Rejected("kUnknownOrder")

\* Mutant: a cancelled id may be used again.
CancelOrderFreesId(ex, s) ==
  [seen |-> ex.seen \ {s},
   active |-> [r \in DOMAIN ex.active \ {s} |-> ex.active[r]]]

\* The id of a cancelled order stays in seen.
CancelOrder(ex, s) ==
  [ex EXCEPT !.active = [r \in DOMAIN ex.active \ {s} |-> ex.active[r]]]

AmendResponse(ex, req) ==
  IF ~HasActiveOrder(ex, req.sequence_id) THEN Rejected("kUnknownOrder")
  ELSE IF IsInvalidPrice(req.new_price) THEN Rejected("kInvalidPrice")
  ELSE IF req.new_quantity = 0 THEN Rejected("kInvalidQuantity")
  ELSE Accepted

\* Mutant: the order is rebuilt, with the default side.
AmendOrderRebuilt(ex, req) ==
  IF ~AmendResponse(ex, req).accepted THEN ex
  ELSE [ex EXCEPT !.active[req.sequence_id] =
          [@ EXCEPT !.price = req.new_price, !.quantity = req.new_quantity,
                    !.side = "kBuy"]]

AmendOrder(ex, req) ==
  IF ~AmendResponse(ex, req).accepted THEN ex
  ELSE [ex EXCEPT !.active[req.sequence_id] =
          [@ EXCEPT !.price = req.new_price, !.quantity = req.new_quantity]]

============================================================================
