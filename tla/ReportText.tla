----------------------------- MODULE ReportText -----------------------------
(***************************************************************************)
(* The text of the reports that main.cpp prints: FormatExecutionReport and *)
(* the conversions it uses, next to the tracker's own names of its states. *)
(* A line is a record of what stands after its equal signs.                *)
(***************************************************************************)
EXTENDS OrderLifecycleSpec

\* Mutant: a pasted case keeps the text of the one above it.
TypeStringPasted ==
  [kCreated |-> "created", kQueued |-> "queued",
   kRiskRejected |-> "risk_rejected", kSent |-> "sent",
   kExchangeAccepted |-> "exchange_accepted",
   kExchangeRejected |-> "exchange_rejected",
   kCancelPending |-> "cancel_pending", kCancelled |-> "cancel_pending",
   kCancelRejected |-> "cancel_rejected", kAmendPending |-> "amend_pending",
   kAmendAccepted |-> "amend_accepted", kAmendRejected |-> "amend_rejected"]

\* ToString(ExecutionReportType).
TypeString ==
  [kCreated |-> "created", kQueued |-> "queued",
   kRiskRejected |-> "risk_rejected", kSent |-> "sent",
   kExchangeAccepted |-> "exchange_accepted",
   kExchangeRejected |-> "exchange_rejected",
   kCancelPending |-> "cancel_pending", kCancelled |-> "cancelled",
   kCancelRejected |-> "cancel_rejected", kAmendPending |-> "amend_pending",
   kAmendAccepted |-> "amend_accepted", kAmendRejected |-> "amend_rejected"]

\* ToString(ExecutionRejectSource).
SourceString == [kNone |-> "none", kRisk |-> "risk",
                 kExchange |-> "exchange", kCancel |-> "cancel",
                 kAmend |-> "amend"]

\* ToString(OrderLifecycleState).
StateString ==
  [kCreated |-> "created", kQueued |-> "queued",
   kRiskRejected |-> "risk_rejected", kSent |-> "sent",
   kExchangeAccepted |-> "exchange_accepted",
   kExchangeRejected |-> "exchange_rejected",
   kCancelPending |-> "cancel_pending", kCancelled |-> "cancelled",
   kAmendPending |-> "amend_pending"]

FormatExecutionReport(report) ==
  [event         |-> report.event_index,
   sequence_id   |-> report.sequence_id,
   type          |-> TypeString[report.type],
   reject_source |-> SourceString[report.reject_source],
   reject_reason |-> report.reject_reason]

----------------------------------------------------------------------------
(* Properties *)

Lines == {FormatExecutionReport(tracker.journal.reports[i]) :
            i \in 1..Len(tracker.journal.reports)}

LastLine(s) ==
  LET own == {line \in Lines : line.sequence_id = s}
  IN  CHOOSE line \in own : \A other \in own : other.event <= line.event

LastLines == {LastLine(s) : s \in {r \in SeqId : Contains(tracker, r)}}

\* The line that settles a request, read as the state of the order.
StateRead(type) ==
  IF type \in {"cancel_rejected", "amend_accepted", "amend_rejected"}
  THEN "exchange_accepted" ELSE type

\* The type of the line of a rejection, by its source.
RejectionType ==
  [risk |-> "risk_rejected", exchange |-> "exchange_rejected",
   cancel |-> "cancel_rejected", amend |-> "amend_rejected"]

\* The source that a line blames, and the reason the tracker keeps for it.
Rejecter(line) ==
  {source \in RejectSource : SourceString[source] = line.reject_source}

ReasonKept(line, source) == tracker.records[line.sequence_id].reason[source]

\* A reader of the printed journal knows every order's state, under the
\* tracker's own name for it, from the order's last line alone; and a line
\* is that of a rejection, by its type, exactly if it names the source of
\* that rejection, and names a source exactly if it has a reason
\* (docs/execution_reports.md: "Non-rejection events use reject_source=none
\* and reject_reason=none").  Two orders last heard of as rejected, even by
\* different sources and so through different switches, show the same reason
\* exactly if the tracker keeps the same reason (one of those its source's
\* enumeration has).
PrintedReportsTellTheState ==
  tracker.attached =>
    /\ \A s \in {r \in SeqId : Contains(tracker, r)} :
         StateRead(LastLine(s).type) = StateString[StateOf(tracker, s)]
    /\ \A line \in Lines :
         /\ line.reject_source # "none" <=> line.reject_reason # "none"
         /\ line.reject_source \in {"none"} \cup DOMAIN RejectionType
         /\ \A source \in DOMAIN RejectionType :
              line.reject_source = source <=>
                line.type = RejectionType[source]
    /\ \A x, y \in LastLines : \A a \in Rejecter(x), b \in Rejecter(y) :
         /\ ReasonKept(x, a) \in DOMAIN Conversion[a]
         /\ ReasonKept(y, b) \in DOMAIN Conversion[b]
         => (x.reject_reason = y.reject_reason
               <=> ReasonKept(x, a) = ReasonKept(y, b))

============================================================================
