-------------------------- MODULE ExecutionReport --------------------------
(***************************************************************************)
(* ExecutionReportJournal (execution_report.hpp, execution_report.cpp): an *)
(* append-only, in-memory log of successful lifecycle transitions.         *)
(*                                                                         *)
(* The program is single threaded and its components call each other       *)
(* synchronously, so an object's state is a record and a method is an      *)
(* operator from the state before the call to the state after it; two      *)
(* calls in sequence are two applications.                                 *)
(***************************************************************************)
EXTENDS Messages

ExecutionReportType ==
  {"kCreated", "kQueued", "kRiskRejected", "kSent", "kExchangeAccepted",
   "kExchangeRejected", "kCancelPending", "kCancelled", "kCancelRejected",
   "kAmendPending", "kAmendAccepted", "kAmendRejected"}

\* ExecutionRejectSource without kNone: who rejected.
RejectSource == {"kRisk", "kExchange", "kCancel", "kAmend"}

\* ToString of RiskRejectReason, the stable strings of the reports.
RiskReasonString ==
  [kNone |-> "none", kInvalidSymbol |-> "invalid_symbol",
   kInvalidPrice |-> "invalid_price", kInvalidQuantity |-> "invalid_quantity",
   kQuantityLimit |-> "quantity_limit", kNotionalLimit |-> "notional_limit",
   kSymbolNotAllowed |-> "symbol_not_allowed"]

OrderReasonString ==
  [kNone |-> "none", kInvalidSymbol |-> "invalid_symbol",
   kInvalidPrice |-> "invalid_price", kInvalidQuantity |-> "invalid_quantity",
   kDuplicateSequence |-> "duplicate_sequence"]

\* Mutant: a pasted case keeps the text of the one above it.
CancelReasonStringPasted ==
  [kNone |-> "none", kUnknownOrder |-> "unknown_order",
   kInvalidState |-> "unknown_order"]

CancelReasonString ==
  [kNone |-> "none", kUnknownOrder |-> "unknown_order",
   kInvalidState |-> "invalid_state"]

AmendReasonString ==
  [kNone |-> "none", kUnknownOrder |-> "unknown_order",
   kInvalidPrice |-> "invalid_price", kInvalidQuantity |-> "invalid_quantity",
   kInvalidState |-> "invalid_state"]

\* The switch that converts the reasons of each source.
Conversion == [kRisk   |-> RiskReasonString,   kExchange |-> OrderReasonString,
               kCancel |-> CancelReasonString, kAmend    |-> AmendReasonString]

\* What the switch of a source returns; no case is "unknown".
ReasonString ==
  [source \in RejectSource |->
     [r \in RejectReason |-> IF r \in DOMAIN Conversion[source]
                             THEN Conversion[source][r] ELSE "unknown"]]

ReasonText == {ReasonString[source][r] :
                 source \in RejectSource, r \in RejectReason}

IsActionReport(type) ==
  type \in {"kCancelPending", "kCancelled", "kCancelRejected",
            "kAmendPending", "kAmendAccepted", "kAmendRejected"}

Report == [event_index : Nat, sequence_id : SeqId, type : ExecutionReportType,
           reject_source : RejectSource \cup {"kNone"},
           reject_reason : ReasonText]

JournalCounter ==
  {"reports_recorded", "rejection_reports", "order_reports", "action_reports"}

Journal == [reports : Seq(Report), next_event_index : Nat,
            count : [JournalCounter -> Nat]]

\* Mutant: event indexes start at zero.
NewJournalFromZero == [reports |-> <<>>, next_event_index |-> 0,
                       count |-> [c \in JournalCounter |-> 0]]

NewJournal == [reports |-> <<>>, next_event_index |-> 1,
               count |-> [c \in JournalCounter |-> 0]]

\* ExecutionReportJournal::Record.
Record(j, seq, type, source, text) ==
  [reports |-> Append(j.reports,
                 [event_index |-> j.next_event_index, sequence_id |-> seq,
                  type |-> type, reject_source |-> source,
                  reject_reason |-> text]),
   next_event_index |-> j.next_event_index + 1,
   count |-> Bump(j.count,
               {"reports_recorded",
                IF IsActionReport(type) THEN "action_reports"
                                        ELSE "order_reports"}
               \cup (IF source # "kNone" THEN {"rejection_reports"} ELSE {}))]

\* RecordState: a transition that rejects nothing.
RecordState(j, seq, type) == Record(j, seq, type, "kNone", "none")

\* Mutant: the enumerator is reported instead of its string.
RecordRejectedRaw(j, seq, source, reason) ==
  Record(j, seq,
         [kRisk |-> "kRiskRejected", kExchange |-> "kExchangeRejected",
          kCancel |-> "kCancelRejected", kAmend |-> "kAmendRejected"][source],
         source, reason)

\* RecordRiskRejected, RecordExchangeRejected, RecordCancelRejected and
\* RecordAmendRejected: one operator, told apart by the source.
RecordRejected(j, seq, source, reason) ==
  Record(j, seq,
         [kRisk |-> "kRiskRejected", kExchange |-> "kExchangeRejected",
          kCancel |-> "kCancelRejected", kAmend |-> "kAmendRejected"][source],
         source, ReasonString[source][reason])

\* ReportsFor: the positions of an order's reports, in journal order.
ReportsFor(j, seq) ==
  {i \in 1..Len(j.reports) : j.reports[i].sequence_id = seq}

============================================================================
