------------------------------ MODULE OrderBook ------------------------------
(***************************************************************************)
(* What the gateway as a whole promises to its client: each sequence id    *)
(* names at most one order, ever; an order taken in goes live exactly as   *)
(* it was submitted if it is admissible and is rejected otherwise; a live  *)
(* order may be amended, keeping its symbol and side, and cancelled; a     *)
(* rejected or cancelled order stays so.                                   *)
(***************************************************************************)
CONSTANTS
  SeqId,         \* sequence ids
  Orders,        \* the orders clients submit
  Admissible,    \* those that may go live
  Tradable       \* the orders the market can hold at all

VARIABLES
  status,    \* of each sequence id
  order      \* the pending or live order of a sequence id

vars == <<status, order>>

Init ==
  /\ status = [s \in SeqId |-> "new"]
  /\ order = [s \in {} |-> {}]

Forget(s) == order' = [r \in DOMAIN order \ {s} |-> order[r]]

Take(o) ==
  LET s == o.sequence_id
  IN  /\ status[s] = "new"
      /\ status' = [status EXCEPT ![s] = "pending"]
      /\ order' = [r \in DOMAIN order \cup {s} |->
                     IF r = s THEN o ELSE order[r]]

GoLive(s) ==
  /\ status[s] = "pending"
  /\ order[s] \in Admissible
  /\ status' = [status EXCEPT ![s] = "live"]
  /\ UNCHANGED order

Refuse(s) ==
  /\ status[s] = "pending"
  /\ order[s] \notin Admissible
  /\ status' = [status EXCEPT ![s] = "rejected"]
  /\ Forget(s)

Amend(s) ==
  /\ status[s] = "live"
  /\ DOMAIN order' = DOMAIN order
  /\ \A r \in DOMAIN order \ {s} : order'[r] = order[r]
  /\ order'[s] \in Tradable
  /\ order'[s] = [order[s] EXCEPT !.price = order'[s].price,
                                  !.quantity = order'[s].quantity]
  /\ UNCHANGED status

Cancel(s) ==
  /\ status[s] = "live"
  /\ status' = [status EXCEPT ![s] = "cancelled"]
  /\ Forget(s)

Next ==
  \/ \E o \in Orders : Take(o)
  \/ \E s \in SeqId : GoLive(s) \/ Refuse(s) \/ Amend(s) \/ Cancel(s)

Spec == Init /\ [][Next]_vars

============================================================================
