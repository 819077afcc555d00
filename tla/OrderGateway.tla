---------------------------- MODULE OrderGateway ----------------------------
(***************************************************************************)
(* OrderGateway (order_gateway.hpp, order_gateway.cpp): the synchronous    *)
(* path to the exchange for orders, cancellations and amendments, which    *)
(* also drives the lifecycle tracker for the last two.                     *)
(*                                                                         *)
(* Components hold raw pointers to one another and accept null ones;       *)
(* wiring says which were given.  It never changes.                        *)
(***************************************************************************)
EXTENDS OrderLifecycle, ExchangeSimulator

VARIABLES
  wiring,      \* which pointers are not null
  tracker,     \* the shared OrderLifecycleTracker
  exchange,    \* the ExchangeSimulator
  gateway      \* the gateway's counters

Wiring == [risk_manager : BOOLEAN,       \* of the pipeline
           pipeline_tracker : BOOLEAN,
           pipeline_gateway : BOOLEAN,
           gateway_tracker : BOOLEAN,
           gateway_exchange : BOOLEAN,
           journal : BOOLEAN]            \* of the tracker

GatewayCounter ==
  {"orders_sent", "orders_accepted", "orders_rejected",
   "cancels_sent", "cancels_accepted", "cancels_rejected",
   "amends_sent", "amends_accepted", "amends_rejected",
   "lifecycle_transition_errors"}

NewGateway == [c \in GatewayCounter |-> 0]

gatewayVars == <<tracker, exchange, gateway>>

\* The names to count when a tracker call went wrong.
ErrorCounter(ok) == IF ok THEN {} ELSE {"lifecycle_transition_errors"}

----------------------------------------------------------------------------

\* What SendOrder returns: a null exchange is reported as kInvalidSymbol.
SendOrderResponse(o) ==
  IF wiring.gateway_exchange THEN SubmitResponse(exchange, o)
                             ELSE Rejected("kInvalidSymbol")

\* SendOrder does not touch the tracker.
SendOrder(o) ==
  /\ gateway' = Bump(gateway, {"orders_sent",
                               IF SendOrderResponse(o).accepted
                               THEN "orders_accepted" ELSE "orders_rejected"})
  /\ exchange' = IF wiring.gateway_exchange THEN SubmitOrder(exchange, o)
                                            ELSE exchange

\* Mutant: the exchange is asked although the tracker refused.
SendCancelRefusedAsksAnyway(s) ==
  /\ wiring.gateway_tracker
  /\ ~Ok(MarkCancelPending(tracker, s))
  /\ tracker' = MarkCancelPending(tracker, s)
  /\ gateway' = Bump(gateway, {"cancels_sent", "cancels_rejected",
                               "lifecycle_transition_errors"})
  /\ exchange' = IF CancelResponse(exchange, s).accepted
                 THEN CancelOrder(exchange, s) ELSE exchange

\* The tracker refuses the request: nothing reaches the exchange.
SendCancelRefused(s) ==
  /\ wiring.gateway_tracker
  /\ ~Ok(MarkCancelPending(tracker, s))
  /\ tracker' = MarkCancelPending(tracker, s)
  /\ gateway' = Bump(gateway, {"cancels_sent", "cancels_rejected",
                               "lifecycle_transition_errors"})
  /\ UNCHANGED exchange

\* Mutant: a refused cancellation is not rolled back.
SendCancelForwardedUnsettled(s) ==
  LET pending == IF wiring.gateway_tracker THEN MarkCancelPending(tracker, s)
                                           ELSE tracker
      resp    == IF wiring.gateway_exchange THEN CancelResponse(exchange, s)
                                            ELSE Rejected("kUnknownOrder")
  IN  /\ wiring.gateway_tracker => Ok(pending)
      /\ tracker' = IF wiring.gateway_tracker /\ resp.accepted
                    THEN MarkCancelled(pending, s) ELSE pending
      /\ exchange' = IF resp.accepted THEN CancelOrder(exchange, s)
                                      ELSE exchange
      /\ gateway' = Bump(gateway,
           {"cancels_sent", IF resp.accepted THEN "cancels_accepted"
                                             ELSE "cancels_rejected"})

\* The request goes to the exchange, and the tracker follows its response.
SendCancelForwarded(s) ==
  LET pending == IF wiring.gateway_tracker THEN MarkCancelPending(tracker, s)
                                           ELSE tracker
      resp    == IF wiring.gateway_exchange THEN CancelResponse(exchange, s)
                                            ELSE Rejected("kUnknownOrder")
      settled == IF resp.accepted THEN MarkCancelled(pending, s)
                 ELSE MarkCancelRejected(pending, s, resp.reject_reason)
  IN  /\ wiring.gateway_tracker => Ok(pending)
      /\ tracker' = IF wiring.gateway_tracker THEN settled ELSE tracker
      /\ exchange' = IF resp.accepted THEN CancelOrder(exchange, s)
                                      ELSE exchange
      /\ gateway' = Bump(gateway,
           {"cancels_sent", IF resp.accepted THEN "cancels_accepted"
                                             ELSE "cancels_rejected"}
           \cup ErrorCounter(wiring.gateway_tracker => Ok(settled)))

SendCancel(s) == SendCancelRefused(s) \/ SendCancelForwarded(s)

SendAmendRefused(req) ==
  /\ wiring.gateway_tracker
  /\ ~Ok(MarkAmendPending(tracker, req.sequence_id))
  /\ tracker' = MarkAmendPending(tracker, req.sequence_id)
  /\ gateway' = Bump(gateway, {"amends_sent", "amends_rejected",
                               "lifecycle_transition_errors"})
  /\ UNCHANGED exchange

SendAmendForwarded(req) ==
  LET s       == req.sequence_id
      pending == IF wiring.gateway_tracker THEN MarkAmendPending(tracker, s)
                                           ELSE tracker
      resp    == IF wiring.gateway_exchange THEN AmendResponse(exchange, req)
                                            ELSE Rejected("kUnknownOrder")
      settled == IF resp.accepted THEN MarkAmendAccepted(pending, s)
                 ELSE MarkAmendRejected(pending, s, resp.reject_reason)
  IN  /\ wiring.gateway_tracker => Ok(pending)
      /\ tracker' = IF wiring.gateway_tracker THEN settled ELSE tracker
      /\ exchange' = IF resp.accepted THEN AmendOrder(exchange, req)
                                      ELSE exchange
      /\ gateway' = Bump(gateway,
           {"amends_sent", IF resp.accepted THEN "amends_accepted"
                                            ELSE "amends_rejected"}
           \cup ErrorCounter(wiring.gateway_tracker => Ok(settled)))

SendAmend(req) == SendAmendRefused(req) \/ SendAmendForwarded(req)

============================================================================
