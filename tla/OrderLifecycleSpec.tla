------------------------- MODULE OrderLifecycleSpec -------------------------
(***************************************************************************)
(* An OrderLifecycleTracker used by a client that calls its public methods *)
(* in any order, with any sequence id and any reason, legal or not.        *)
(***************************************************************************)
EXTENDS OrderLifecycle

CONSTANTS
  Reasons,      \* Reasons[source]: the reasons the client passes
  MaxErrors,    \* bound on transition_errors_
  MaxActions    \* bound on cancel_requests_ + amend_requests_

ASSUME ReasonsAssumption == Reasons \in [RejectSource -> SUBSET RejectReason]
ASSUME BoundsAssumption == MaxErrors \in Nat /\ MaxActions \in Nat

VARIABLE tracker

Init == tracker \in {NewTracker(attached) : attached \in BOOLEAN}

\* The client stops after MaxErrors refused calls and asks for at most
\* MaxActions cancellations and amendments.
MayErr == tracker.count["transition_errors"] < MaxErrors

MayAct == tracker.count["cancel_requests"] + tracker.count["amend_requests"]
            < MaxActions

CallRegister(s) ==
  \/ tracker' = RegisterCreated(tracker, s)
  \/ tracker' = RegisterQueued(tracker, s)
  \/ tracker' = MarkQueued(tracker, s)

CallDispatch(s) ==
  \/ \E r \in Reasons["kRisk"] : tracker' = MarkRiskRejected(tracker, s, r)
  \/ tracker' = MarkSent(tracker, s)
  \/ tracker' = MarkExchangeAccepted(tracker, s)
  \/ \E r \in Reasons["kExchange"] :
       tracker' = MarkExchangeRejected(tracker, s, r)

CallCancel(s) ==
  \/ MayAct /\ tracker' = MarkCancelPending(tracker, s)
  \/ tracker' = MarkCancelled(tracker, s)
  \/ \E r \in Reasons["kCancel"] : tracker' = MarkCancelRejected(tracker, s, r)

CallAmend(s) ==
  \/ MayAct /\ tracker' = MarkAmendPending(tracker, s)
  \/ tracker' = MarkAmendAccepted(tracker, s)
  \/ \E r \in Reasons["kAmend"] : tracker' = MarkAmendRejected(tracker, s, r)

Next ==
  /\ MayErr
  /\ \E s \in SeqId :
       CallRegister(s) \/ CallDispatch(s) \/ CallCancel(s) \/ CallAmend(s)

Spec == Init /\ [][Next]_tracker

----------------------------------------------------------------------------
(* Properties *)

\* The tracker's state always has the types its header declares.
TypeOK == tracker \in Tracker

\* With a journal attached, replaying the journal reconstructs every record:
\* the state of each order and each of its four reject reasons
\* (order_lifecycle.cpp writes the record and the journal separately, in
\* every method; a method that did only one of the two would break this).
JournalReconstructsRecords ==
  tracker.attached => /\ ReplayGivesState(tracker)
                      /\ ReplayGivesReasons(tracker)

\* Whatever the client calls, the reports of each order are a path of the
\* state machine created -> queued -> ... of docs/architecture.md.
HistoriesAreLegal == tracker.attached => ReplayIsLegal(tracker)

\* The journal numbers its reports 1, 2, 3... and its totals are exact.
JournalNumbersReports == JournalIsSound(tracker.journal)

\* Orders do not leak between stages: each request counter is the sum of its
\* outcome counters and the orders that are in that stage now.
CountersBalance == StagesBalance(tracker)

\* A record holds a risk (exchange) reject reason exactly when the order is
\* in the corresponding terminal state.
ReasonIffRejected ==
  \A s \in SeqId :
    LET r == tracker.records[s]
    IN  /\ r.reason["kRisk"] # "kNone" <=> r.state = "kRiskRejected"
        /\ r.reason["kExchange"] # "kNone" <=> r.state = "kExchangeRejected"

\* A rejected call has no effect but on the error statistics, and a terminal
\* order's record never changes again (Transition refuses it).
OnlyLegalEffects ==
  [][/\ ~Ok(tracker') => /\ tracker'.records = tracker.records
                         /\ tracker'.journal = tracker.journal
     /\ \A s \in SeqId : StateOf(tracker, s) \in Terminal =>
          tracker'.records[s] = tracker.records[s]]_tracker

\* docs/order_lifecycle.md: "The three rejection or response states are
\* terminal."
ResponseStatesAreTerminal ==
  [][\A s \in SeqId :
       StateOf(tracker, s) \in {"kRiskRejected", "kExchangeAccepted",
                                "kExchangeRejected"} =>
         StateOf(tracker', s) = StateOf(tracker, s)]_tracker

============================================================================
