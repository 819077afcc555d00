--------------------------- MODULE OrderLifecycle ---------------------------
(***************************************************************************)
(* OrderLifecycleTracker (order_lifecycle.hpp, order_lifecycle.cpp): the   *)
(* per-order state machine, its counters, its last error, and the journal  *)
(* it reports successful transitions to when one was attached.             *)
(*                                                                         *)
(* A method returns true exactly when it leaves last_error_ = kNone, so    *)
(* the result of a call is Ok of the state it leaves.                      *)
(***************************************************************************)
EXTENDS ExecutionReport, FiniteSets

OrderLifecycleState ==
  {"kCreated", "kQueued", "kRiskRejected", "kSent", "kExchangeAccepted",
   "kExchangeRejected", "kCancelPending", "kCancelled", "kAmendPending"}

\* State of a sequence id that has no entry in records_.
Absent == "absent"

LifecycleError ==
  {"kNone", "kDuplicateOrder", "kUnknownOrder", "kInvalidTransition"}

\* OrderLifecycleRecord: reason[source] is the field <source>_reject_reason.
LifecycleRecord == [state : OrderLifecycleState \cup {Absent},
                    reason : [RejectSource -> RejectReason]]

NoRecord == [state |-> Absent, reason |-> [r \in RejectSource |-> "kNone"]]

TrackerCounter ==
  {"orders_registered", "orders_queued", "orders_risk_rejected",
   "orders_sent", "orders_exchange_accepted", "orders_exchange_rejected",
   "cancel_requests", "cancels_accepted", "cancels_rejected",
   "amend_requests", "amends_accepted", "amends_rejected",
   "transition_errors", "duplicate_order_errors", "unknown_order_errors",
   "invalid_transition_errors"}

Tracker == [records : [SeqId -> LifecycleRecord],
            count : [TrackerCounter -> Nat],
            last_error : LifecycleError,
            attached : BOOLEAN,        \* execution_reports_ != nullptr
            journal : Journal]

NewTracker(attached) ==
  [records |-> [s \in SeqId |-> NoRecord],
   count |-> [c \in TrackerCounter |-> 0],
   last_error |-> "kNone", attached |-> attached, journal |-> NewJournal]

Ok(t) == t.last_error = "kNone"

Contains(t, s) == t.records[s].state # Absent

StateOf(t, s) == t.records[s].state

Fail(t, error) ==
  [t EXCEPT !.last_error = error,
            !.count = Bump(@, {"transition_errors",
                               [kDuplicateOrder |-> "duplicate_order_errors",
                                kUnknownOrder |-> "unknown_order_errors",
                                kInvalidTransition |->
                                  "invalid_transition_errors"][error]})]

\* Mutant: the current state is not compared with the expected one.
TransitionUnchecked(t, s, expected, next) ==
  IF ~Contains(t, s) THEN Fail(t, "kUnknownOrder")
  ELSE [t EXCEPT !.records[s].state = next, !.last_error = "kNone"]

Transition(t, s, expected, next) ==
  IF ~Contains(t, s) THEN Fail(t, "kUnknownOrder")
  ELSE IF t.records[s].state # expected THEN Fail(t, "kInvalidTransition")
  ELSE [t EXCEPT !.records[s].state = next, !.last_error = "kNone"]

\* The tail of every successful method: count, then report if attached.
Succeed(t, counter, journal) ==
  [t EXCEPT !.count = Bump(@, {counter}),
            !.journal = IF t.attached THEN journal ELSE @]

\* Mutant: records_[sequence_id] = record instead of emplace.
RegisterCreatedOverwrites(t, s) ==
  Succeed([t EXCEPT !.records[s] = [NoRecord EXCEPT !.state = "kCreated"],
                    !.last_error = "kNone"],
          "orders_registered", RecordState(t.journal, s, "kCreated"))

RegisterCreated(t, s) ==
  IF Contains(t, s) THEN Fail(t, "kDuplicateOrder")
  ELSE Succeed([t EXCEPT !.records[s] = [NoRecord EXCEPT !.state = "kCreated"],
                         !.last_error = "kNone"],
               "orders_registered", RecordState(t.journal, s, "kCreated"))

\* A method that moves an order from one state to another and reports it.
MarkState(t, s, expected, next, counter, type) ==
  LET u == Transition(t, s, expected, next)
  IN  IF Ok(u) THEN Succeed(u, counter, RecordState(u.journal, s, type))
               ELSE u

\* A method that moves an order because a request was rejected: the reason
\* is required, kept in the record and reported.
MarkRejected(t, s, expected, next, counter, source, reason) ==
  IF reason = "kNone" THEN Fail(t, "kInvalidTransition")
  ELSE LET u == Transition(t, s, expected, next)
       IN  IF Ok(u)
           THEN Succeed([u EXCEPT !.records[s].reason[source] = reason],
                        counter, RecordRejected(u.journal, s, source, reason))
           ELSE u

MarkQueued(t, s) ==
  MarkState(t, s, "kCreated", "kQueued", "orders_queued", "kQueued")

RegisterQueued(t, s) ==
  LET u == RegisterCreated(t, s)
  IN  IF Ok(u) THEN MarkQueued(u, s) ELSE u

\* Mutant: the state of the other rejection.
MarkRiskRejectedMisplaced(t, s, reason) ==
  MarkRejected(t, s, "kQueued", "kExchangeRejected", "orders_risk_rejected",
               "kRisk", reason)

MarkRiskRejected(t, s, reason) ==
  MarkRejected(t, s, "kQueued", "kRiskRejected", "orders_risk_rejected",
               "kRisk", reason)

\* Mutant: the order is expected to be created, not queued.
MarkSentFromCreated(t, s) ==
  MarkState(t, s, "kCreated", "kSent", "orders_sent", "kSent")

MarkSent(t, s) ==
  MarkState(t, s, "kQueued", "kSent", "orders_sent", "kSent")

MarkExchangeAccepted(t, s) ==
  MarkState(t, s, "kSent", "kExchangeAccepted", "orders_exchange_accepted",
            "kExchangeAccepted")

\* Mutant: the counter of the other rejection.
MarkExchangeRejectedMiscounted(t, s, reason) ==
  MarkRejected(t, s, "kSent", "kExchangeRejected", "orders_risk_rejected",
               "kExchange", reason)

MarkExchangeRejected(t, s, reason) ==
  MarkRejected(t, s, "kSent", "kExchangeRejected", "orders_exchange_rejected",
               "kExchange", reason)

MarkCancelPending(t, s) ==
  MarkState(t, s, "kExchangeAccepted", "kCancelPending", "cancel_requests",
            "kCancelPending")

MarkCancelled(t, s) ==
  MarkState(t, s, "kCancelPending", "kCancelled", "cancels_accepted",
            "kCancelled")

MarkCancelRejected(t, s, reason) ==
  MarkRejected(t, s, "kCancelPending", "kExchangeAccepted",
               "cancels_rejected", "kCancel", reason)

MarkAmendPending(t, s) ==
  MarkState(t, s, "kExchangeAccepted", "kAmendPending", "amend_requests",
            "kAmendPending")

\* Mutant: the reason of an earlier rejected amendment is kept.
MarkAmendAcceptedKeepsReason(t, s) ==
  MarkState(t, s, "kAmendPending", "kExchangeAccepted", "amends_accepted",
            "kAmendAccepted")

\* An accepted amendment also clears the reason of an earlier rejected one.
MarkAmendAccepted(t, s) ==
  LET u == MarkState(t, s, "kAmendPending", "kExchangeAccepted",
                     "amends_accepted", "kAmendAccepted")
  IN  IF Ok(u) THEN [u EXCEPT !.records[s].reason["kAmend"] = "kNone"] ELSE u

MarkAmendRejected(t, s, reason) ==
  MarkRejected(t, s, "kAmendPending", "kExchangeAccepted", "amends_rejected",
               "kAmend", reason)

----------------------------------------------------------------------------
(* What a tracker promises, as predicates of its state. *)

\* The state an order is in after a report of the given type.
StateAfter ==
  [kCreated |-> "kCreated", kQueued |-> "kQueued",
   kRiskRejected |-> "kRiskRejected", kSent |-> "kSent",
   kExchangeAccepted |-> "kExchangeAccepted",
   kExchangeRejected |-> "kExchangeRejected",
   kCancelPending |-> "kCancelPending", kCancelled |-> "kCancelled",
   kCancelRejected |-> "kExchangeAccepted",
   kAmendPending |-> "kAmendPending", kAmendAccepted |-> "kExchangeAccepted",
   kAmendRejected |-> "kExchangeAccepted"]

\* The report types that may follow one another in an order's history.
LegalNext ==
  [absent |-> {"kCreated"}, kCreated |-> {"kQueued"},
   kQueued |-> {"kRiskRejected", "kSent"},
   kSent |-> {"kExchangeAccepted", "kExchangeRejected"},
   kExchangeAccepted |-> {"kCancelPending", "kAmendPending"},
   kCancelPending |-> {"kCancelled", "kCancelRejected"},
   kAmendPending |-> {"kAmendAccepted", "kAmendRejected"},
   kRiskRejected |-> {}, kExchangeRejected |-> {}, kCancelled |-> {}]

Terminal == {"kRiskRejected", "kExchangeRejected", "kCancelled"}

\* i is the position of the last of the reports in R.
IsLast(i, R) == i \in R /\ \A k \in R : k <= i

\* Replaying an order's reports gives the state its record holds.
ReplayGivesState(t) ==
  \A s \in SeqId :
    LET R == ReportsFor(t.journal, s)
    IN  /\ R = {} => t.records[s].state = Absent
        /\ \A i \in R : IsLast(i, R) =>
             t.records[s].state = StateAfter[t.journal.reports[i].type]

\* An order's reports are a path of the documented state machine.
ReplayIsLegal(t) ==
  \A s \in SeqId : \A k \in ReportsFor(t.journal, s) :
    LET before == {i \in ReportsFor(t.journal, s) : i < k}
        type   == t.journal.reports[k].type
    IN  /\ before = {} => type \in LegalNext[Absent]
        /\ \A i \in before : IsLast(i, before) =>
             type \in LegalNext[StateAfter[t.journal.reports[i].type]]

\* The reports that set or clear the given reject reason of an order.
ReasonReports(t, s, source) ==
  {i \in ReportsFor(t.journal, s) :
     \/ t.journal.reports[i].reject_source = source
     \/ source = "kAmend" /\ t.journal.reports[i].type = "kAmendAccepted"}

\* A reject reason kept in a record is the one last reported for it.
ReplayGivesReasons(t) ==
  \A s \in SeqId, source \in RejectSource :
    LET R    == ReasonReports(t, s, source)
        text == ReasonString[source][t.records[s].reason[source]]
    IN  /\ R = {} => text = "none"
        /\ \A i \in R : IsLast(i, R) =>
             text = t.journal.reports[i].reject_reason

InState(t, state) == {s \in SeqId : t.records[s].state = state}

\* Every order that entered a stage has left it or is in it.
StagesBalance(t) ==
  LET n == t.count
  IN  /\ n["orders_registered"] = n["orders_queued"]
           + Cardinality(InState(t, "kCreated"))
      /\ n["orders_queued"] = n["orders_risk_rejected"] + n["orders_sent"]
           + Cardinality(InState(t, "kQueued"))
      /\ n["orders_sent"] = n["orders_exchange_accepted"]
           + n["orders_exchange_rejected"] + Cardinality(InState(t, "kSent"))
      /\ n["cancel_requests"] = n["cancels_accepted"] + n["cancels_rejected"]
           + Cardinality(InState(t, "kCancelPending"))
      /\ n["amend_requests"] = n["amends_accepted"] + n["amends_rejected"]
           + Cardinality(InState(t, "kAmendPending"))

\* Event indexes number the reports from 1 without gaps, and the journal's
\* totals agree with its contents.
JournalIsSound(j) ==
  /\ \A i \in 1..Len(j.reports) : j.reports[i].event_index = i
  /\ j.next_event_index = Len(j.reports) + 1
  /\ j.count["reports_recorded"] = Len(j.reports)
  /\ j.count["order_reports"] + j.count["action_reports"] = Len(j.reports)
  /\ j.count["action_reports"] =
       Cardinality({i \in 1..Len(j.reports) :
                      IsActionReport(j.reports[i].type)})
  /\ j.count["rejection_reports"] =
       Cardinality({i \in 1..Len(j.reports) :
                      j.reports[i].reject_source # "kNone"})

============================================================================
