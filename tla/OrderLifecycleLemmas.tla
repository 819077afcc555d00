----------------------- MODULE OrderLifecycleLemmas -----------------------
(***************************************************************************)
(* What each method of the order lifecycle tracker does to any tracker,    *)
(* for every set of sequence ids.  The proofs about the tracker alone      *)
(* (OrderLifecycleProofs) and about the pipeline that drives it            *)
(* (OrderPipelineProofs) both rest on these lemmas.                        *)
(***************************************************************************)
EXTENDS OrderLifecycle, TLAPS

----------------------------------------------------------------------------
(* Types of the operators the tracker is built from. *)

\* Counting keeps a counter a function to the naturals (the ++ of every
\* component).
LEMMA BumpType ==
  ASSUME NEW S, NEW count \in [S -> Nat], NEW names
  PROVE  Bump(count, names) \in [S -> Nat]
BY DEF Bump

\* What counting does to one counter.
LEMMA BumpValue ==
  ASSUME NEW S, NEW count \in [S -> Nat], NEW names, NEW c \in S
  PROVE  Bump(count, names)[c] = IF c \in names THEN count[c] + 1
                                                ELSE count[c]
BY DEF Bump

\* The conversions of reasons to strings yield strings a report may carry.
LEMMA ReasonTextType ==
  /\ "none" \in ReasonText
  /\ \A source \in RejectSource, r \in RejectReason :
       ReasonString[source][r] \in ReasonText
<1>1. \A source \in RejectSource, r \in RejectReason :
        ReasonString[source][r] \in ReasonText
  BY DEF ReasonText
<1>2. /\ "kRisk" \in RejectSource /\ "kNone" \in RejectReason
      /\ ReasonString["kRisk"]["kNone"] = "none"
  BY DEF RejectSource, RejectReason, RiskRejectReason, ReasonString,
         Conversion, RiskReasonString
<1> QED BY <1>1, <1>2

\* ExecutionReportJournal::Record keeps the journal's types.
LEMMA RecordType ==
  ASSUME NEW j \in Journal, NEW s \in SeqId,
         NEW type \in ExecutionReportType,
         NEW source \in RejectSource \cup {"kNone"}, NEW text \in ReasonText
  PROVE  Record(j, s, type, source, text) \in Journal
<1> DEFINE r == [event_index |-> j.next_event_index, sequence_id |-> s,
                 type |-> type, reject_source |-> source,
                 reject_reason |-> text]
<1>1. r \in Report
  BY DEF Journal, Report
<1>2. Append(j.reports, r) \in Seq(Report)
  BY <1>1 DEF Journal
<1>3. \A names : Bump(j.count, names) \in [JournalCounter -> Nat]
  BY BumpType DEF Journal
<1> QED BY <1>2, <1>3 DEF Record, Journal

\* So does RecordState...
LEMMA RecordStateType ==
  ASSUME NEW j \in Journal, NEW s \in SeqId, NEW type \in ExecutionReportType
  PROVE  RecordState(j, s, type) \in Journal
BY RecordType, ReasonTextType DEF RecordState

\* ... and so do the four methods that report a rejection.
LEMMA RecordRejectedType ==
  ASSUME NEW j \in Journal, NEW s \in SeqId,
         NEW source \in RejectSource, NEW reason \in RejectReason
  PROVE  RecordRejected(j, s, source, reason) \in Journal
<1> DEFINE type == [kRisk |-> "kRiskRejected",
                    kExchange |-> "kExchangeRejected",
                    kCancel |-> "kCancelRejected",
                    kAmend |-> "kAmendRejected"][source]
<1>1. type \in ExecutionReportType
  BY DEF RejectSource, ExecutionReportType
<1> HIDE DEF type
<1>2. Record(j, s, type, source, ReasonString[source][reason]) \in Journal
  BY <1>1, RecordType, ReasonTextType
<1> QED BY <1>2 DEF RecordRejected, type

----------------------------------------------------------------------------
(* What one call may do to a tracker. *)

\* ReasonIffRejected, of any tracker.
ReasonOK(t) ==
  \A s \in SeqId :
    /\ t.records[s].reason["kRisk"] # "kNone"
         <=> t.records[s].state = "kRiskRejected"
    /\ t.records[s].reason["kExchange"] # "kNone"
         <=> t.records[s].state = "kExchangeRejected"

\* OnlyLegalEffects, of the call that leads from t to u.
LegalEffect(t, u) ==
  /\ ~Ok(u) => u.records = t.records /\ u.journal = t.journal
  /\ \A s \in SeqId : StateOf(t, s) \in Terminal =>
                        u.records[s] = t.records[s]

\* The three together: what every method is shown to satisfy.
Sound(t, u) ==
  u \in Tracker /\ (ReasonOK(t) => ReasonOK(u)) /\ LegalEffect(t, u)

\* A failing call only counts.
LEMMA FailSound ==
  ASSUME NEW t \in Tracker, NEW error \in LifecycleError \ {"kNone"}
  PROVE  Sound(t, Fail(t, error)) /\ ~Ok(Fail(t, error))
<1> DEFINE names == {"transition_errors",
                     [kDuplicateOrder |-> "duplicate_order_errors",
                      kUnknownOrder |-> "unknown_order_errors",
                      kInvalidTransition |->
                        "invalid_transition_errors"][error]}
           u     == Fail(t, error)
<1>1. Bump(t.count, names) \in [TrackerCounter -> Nat]
  BY BumpType DEF Tracker
<1> HIDE DEF names
<1>2. u = [t EXCEPT !.last_error = error, !.count = Bump(t.count, names)]
  BY DEF Fail, names, Tracker
<1> HIDE DEF u
<1>3. /\ u \in Tracker /\ u.last_error = error
      /\ u.records = t.records /\ u.journal = t.journal
  BY <1>1, <1>2 DEF Tracker
<1>4. Sound(t, u) /\ ~Ok(u)
  BY <1>3 DEF Sound, ReasonOK, LegalEffect, Ok
<1> QED BY <1>4 DEF u

\* Transition fails without effect, or moves one order.
LEMMA TransitionCases ==
  ASSUME NEW t \in Tracker, NEW s \in SeqId,
         NEW expected \in OrderLifecycleState, NEW next
  PROVE  LET u == Transition(t, s, expected, next)
         IN  \/ Sound(t, u) /\ ~Ok(u)
             \/ /\ t.records[s].state = expected
                /\ u = [t EXCEPT !.records[s].state = next,
                                 !.last_error = "kNone"]
<1>1. "kUnknownOrder" \in LifecycleError \ {"kNone"}
      /\ "kInvalidTransition" \in LifecycleError \ {"kNone"}
  BY DEF LifecycleError
<1> QED BY <1>1, FailSound DEF Transition

\* From the expected state, Transition succeeds and changes nothing else.
LEMMA TransitionMoves ==
  ASSUME NEW t \in Tracker, NEW s \in SeqId,
         NEW expected \in OrderLifecycleState,
         NEW next \in OrderLifecycleState, StateOf(t, s) = expected
  PROVE  LET v == Transition(t, s, expected, next)
         IN  /\ v \in Tracker /\ Ok(v)
             /\ v.journal \in Journal /\ v.count = t.count
             /\ v.journal = t.journal /\ v.attached = t.attached
             /\ v.records = [t.records EXCEPT ![s].state = next]
<1> DEFINE v  == Transition(t, s, expected, next)
           rs == [t.records EXCEPT ![s].state = next]
<1>1. v = [t EXCEPT !.records = rs, !.last_error = "kNone"]
  BY DEF Transition, Contains, StateOf, Absent, OrderLifecycleState, Tracker
<1>2. rs \in [SeqId -> LifecycleRecord]
  BY DEF Tracker, LifecycleRecord
<1>3. "kNone" \in LifecycleError
  BY DEF LifecycleError
<1> HIDE DEF v, rs
<1>4. /\ v \in Tracker /\ v.last_error = "kNone"
      /\ v.journal \in Journal /\ v.records = rs /\ v.count = t.count
      /\ v.journal = t.journal /\ v.attached = t.attached
  BY <1>1, <1>2, <1>3 DEF Tracker
<1> QED BY <1>4 DEF Ok, v, rs

\* The end of a successful call: everything but the counters, the journal
\* and the record it is about is as before.
LEMMA SucceedFields ==
  ASSUME NEW t \in Tracker, NEW counter, NEW journal \in Journal
  PROVE  LET u == Succeed(t, counter, journal)
         IN  /\ u \in Tracker
             /\ u.records = t.records
             /\ u.last_error = t.last_error
             /\ u.attached = t.attached
             /\ u.journal = IF t.attached THEN journal ELSE t.journal
<1>1. Bump(t.count, {counter}) \in [TrackerCounter -> Nat]
  BY BumpType DEF Tracker
<1> QED BY <1>1 DEF Succeed, Tracker

\* It counts the call.
LEMMA SucceedCounts ==
  ASSUME NEW t \in Tracker, NEW counter, NEW journal
  PROVE  Succeed(t, counter, journal).count = Bump(t.count, {counter})
BY DEF Succeed, Tracker

\* A successful call that changes only the record of s, which is not
\* terminal, and keeps the two order reasons in step with the state.
LEMMA UpdateSound ==
  ASSUME NEW t \in Tracker, NEW s \in SeqId, NEW rec \in LifecycleRecord,
         NEW u \in Tracker, Ok(u),
         u.records = [t.records EXCEPT ![s] = rec],
         StateOf(t, s) \notin Terminal,
         ReasonOK(t) =>
           /\ rec.reason["kRisk"] # "kNone" <=> rec.state = "kRiskRejected"
           /\ rec.reason["kExchange"] # "kNone"
                <=> rec.state = "kExchangeRejected"
  PROVE  Sound(t, u)
<1>1. t.records \in [SeqId -> LifecycleRecord]
  BY DEF Tracker
<1>2. /\ u.records[s] = rec
      /\ \A r \in SeqId \ {s} : u.records[r] = t.records[r]
  BY <1>1
<1>3. ReasonOK(t) => ReasonOK(u)
  BY <1>2 DEF ReasonOK
<1>4. LegalEffect(t, u)
  BY <1>2 DEF LegalEffect, StateOf
<1> QED BY <1>3, <1>4 DEF Sound

\* The records once order s is in the given state.
WithState(records, s, next) == [records EXCEPT ![s].state = next]

\* A method that moves an order and rejects nothing.
LEMMA MarkStateSound ==
  ASSUME NEW t \in Tracker, NEW s \in SeqId,
         NEW expected \in OrderLifecycleState \ Terminal,
         NEW next \in OrderLifecycleState
                        \ {"kRiskRejected", "kExchangeRejected"},
         NEW counter, NEW type \in ExecutionReportType
  PROVE  LET u == MarkState(t, s, expected, next, counter, type)
         IN  /\ Sound(t, u)
             /\ Ok(u) => /\ StateOf(t, s) = expected
                         /\ u.records = WithState(t.records, s, next)
             /\ StateOf(t, s) = expected => Ok(u)
<1> DEFINE v == Transition(t, s, expected, next)
           u == MarkState(t, s, expected, next, counter, type)
           rec == [t.records[s] EXCEPT !.state = next]
<1>0. /\ t.records \in [SeqId -> LifecycleRecord]
      /\ t.records[s] \in LifecycleRecord
      /\ rec \in LifecycleRecord
  BY DEF Tracker, LifecycleRecord
<1>1. CASE StateOf(t, s) # expected
  <2>1. Sound(t, v) /\ ~Ok(v)
    BY <1>1, TransitionCases DEF StateOf
  <2> QED BY <1>1, <2>1 DEF MarkState
<1>2. CASE StateOf(t, s) = expected
  <2>1. /\ v \in Tracker /\ Ok(v) /\ v.journal \in Journal
        /\ v.records = [t.records EXCEPT ![s].state = next]
    BY <1>2, TransitionMoves
  <2>2. v.records = [t.records EXCEPT ![s] = rec]
    BY <1>0, <2>1
  <2> HIDE DEF v, rec
  <2>3. RecordState(v.journal, s, type) \in Journal
    BY <2>1, RecordStateType
  <2>4. u = Succeed(v, counter, RecordState(v.journal, s, type))
    BY <2>1 DEF MarkState, v
  <2> HIDE DEF u
  <2>5. u \in Tracker /\ u.records = v.records /\ Ok(u)
    BY <2>1, <2>3, <2>4, SucceedFields DEF Ok
  <2>6. /\ rec.state = next /\ rec.reason = t.records[s].reason
        /\ u.records = WithState(t.records, s, next)
    BY <1>0, <2>2, <2>5 DEF rec, LifecycleRecord, WithState
  <2>7. StateOf(t, s) \notin Terminal
    BY <1>2
  <2>8. Sound(t, u)
    <3>1. ReasonOK(t) =>
            /\ rec.reason["kRisk"] # "kNone" <=> rec.state = "kRiskRejected"
            /\ rec.reason["kExchange"] # "kNone"
                 <=> rec.state = "kExchangeRejected"
      BY <2>6, <2>7 DEF ReasonOK, StateOf, Terminal
    <3> QED BY <1>0, <2>2, <2>5, <2>7, <3>1, UpdateSound
  <2> QED BY <1>2, <2>5, <2>6, <2>8 DEF u
<1> QED BY <1>1, <1>2

\* A method that moves an order because something was rejected.
LEMMA MarkRejectedSound ==
  ASSUME NEW t \in Tracker, NEW s \in SeqId,
         NEW expected \in OrderLifecycleState \ Terminal,
         NEW next \in OrderLifecycleState, NEW counter,
         NEW source \in RejectSource, NEW reason \in RejectReason,
         source = "kRisk" <=> next = "kRiskRejected",
         source = "kExchange" <=> next = "kExchangeRejected"
  PROVE  Sound(t, MarkRejected(t, s, expected, next, counter, source, reason))
<1> DEFINE v == Transition(t, s, expected, next)
           w == [v EXCEPT !.records[s].reason[source] = reason]
           u == MarkRejected(t, s, expected, next, counter, source, reason)
           rec == [t.records[s] EXCEPT !.state = next,
                                       !.reason[source] = reason]
<1>0. /\ t.records \in [SeqId -> LifecycleRecord]
      /\ t.records[s] \in LifecycleRecord
      /\ rec \in LifecycleRecord
  BY DEF Tracker, LifecycleRecord
<1>1. CASE reason = "kNone"
  BY <1>1, FailSound DEF MarkRejected, LifecycleError
<1>2. CASE reason # "kNone" /\ StateOf(t, s) # expected
  <2>1. Sound(t, v) /\ ~Ok(v)
    BY <1>2, TransitionCases DEF StateOf
  <2> QED BY <1>2, <2>1 DEF MarkRejected
<1>3. CASE reason # "kNone" /\ StateOf(t, s) = expected
  <2>2. /\ v \in Tracker /\ Ok(v) /\ v.journal \in Journal
        /\ v.records = [t.records EXCEPT ![s].state = next]
    BY <1>3, TransitionMoves
  <2> HIDE DEF v
  <2>3. /\ w.records = [v.records EXCEPT ![s].reason[source] = reason]
        /\ w.last_error = v.last_error
    BY <2>2 DEF Tracker
  <2>4. w.records = [t.records EXCEPT ![s] = rec]
    BY <1>0, <2>2, <2>3 DEF LifecycleRecord
  <2>5. w \in Tracker
    BY <1>0, <2>2, <2>4 DEF Tracker
  <2>6. RecordRejected(v.journal, s, source, reason) \in Journal
    BY <2>2, RecordRejectedType
  <2>7. u = Succeed(w, counter, RecordRejected(v.journal, s, source, reason))
    BY <1>3, <2>2 DEF MarkRejected, v
  <2> HIDE DEF u, w
  <2>8. u \in Tracker /\ u.records = w.records /\ Ok(u)
    BY <2>2, <2>3, <2>5, <2>6, <2>7, SucceedFields DEF Ok
  <2>9. /\ rec.state = next /\ rec.reason[source] = reason
        /\ \A r \in RejectSource \ {source} :
             rec.reason[r] = t.records[s].reason[r]
    BY <1>0 DEF LifecycleRecord
  <2>10. ReasonOK(t) =>
           /\ rec.reason["kRisk"] # "kNone" <=> rec.state = "kRiskRejected"
           /\ rec.reason["kExchange"] # "kNone"
                <=> rec.state = "kExchangeRejected"
    <3>1. "kRisk" \in RejectSource /\ "kExchange" \in RejectSource
      BY DEF RejectSource
    <3>2. StateOf(t, s) # "kRiskRejected" /\ StateOf(t, s) # "kExchangeRejected"
      BY <1>3 DEF Terminal
    <3> HIDE DEF rec
    <3> QED BY <1>3, <2>9, <3>1, <3>2 DEF ReasonOK, StateOf
  <2> HIDE DEF rec
  <2>11. Sound(t, u)
    BY <1>0, <1>3, <2>4, <2>8, <2>10, UpdateSound
  <2> QED BY <2>11 DEF u
<1> QED BY <1>1, <1>2, <1>3

\* Registration: an id is taken once, and starts as created.
LEMMA RegisterCreatedSound ==
  ASSUME NEW t \in Tracker, NEW s \in SeqId
  PROVE  LET u == RegisterCreated(t, s)
         IN  /\ Sound(t, u)
             /\ Ok(u) => StateOf(u, s) = "kCreated"
<1> DEFINE rec == [NoRecord EXCEPT !.state = "kCreated"]
           v == [t EXCEPT !.records[s] = rec, !.last_error = "kNone"]
           u == RegisterCreated(t, s)
<1>1. CASE Contains(t, s)
  BY <1>1, FailSound DEF RegisterCreated, LifecycleError
<1>2. CASE ~Contains(t, s)
  <2>1. /\ rec \in LifecycleRecord /\ rec.state = "kCreated"
        /\ rec.reason["kRisk"] = "kNone" /\ rec.reason["kExchange"] = "kNone"
    BY DEF NoRecord, LifecycleRecord, OrderLifecycleState, RejectSource,
           RejectReason, RiskRejectReason
  <2> HIDE DEF rec
  <2>2. /\ t.records \in [SeqId -> LifecycleRecord] /\ t.journal \in Journal
        /\ "kNone" \in LifecycleError /\ "kCreated" \in ExecutionReportType
    BY DEF Tracker, LifecycleError, ExecutionReportType
  <2>3. /\ v \in Tracker /\ v.last_error = "kNone"
        /\ v.records = [t.records EXCEPT ![s] = rec]
    BY <2>1, <2>2 DEF Tracker
  <2>4. u = Succeed(v, "orders_registered",
                    RecordState(t.journal, s, "kCreated"))
    BY <1>2 DEF RegisterCreated, rec
  <2> HIDE DEF u, v
  <2>5. u \in Tracker /\ u.records = v.records /\ Ok(u)
    BY <2>2, <2>3, <2>4, RecordStateType, SucceedFields DEF Ok
  <2>6. StateOf(t, s) \notin Terminal
    BY <1>2 DEF Contains, StateOf, Absent, Terminal
  <2>7. Sound(t, u)
    BY <2>1, <2>3, <2>5, <2>6, UpdateSound
  <2>8. StateOf(u, s) = "kCreated"
    BY <2>1, <2>2, <2>3, <2>5 DEF StateOf
  <2> QED BY <2>7, <2>8 DEF u
<1> QED BY <1>1, <1>2

\* The names that the methods pass to Transition and to the journal are
\* enumerators, and only the rejected and cancelled states are terminal.
LEMMA StateTypes ==
  /\ {"kCreated", "kQueued", "kSent", "kExchangeAccepted", "kCancelPending",
      "kAmendPending"} \subseteq OrderLifecycleState \ Terminal
  /\ {"kQueued", "kSent", "kExchangeAccepted", "kCancelPending", "kCancelled",
      "kAmendPending"} \subseteq OrderLifecycleState
                                  \ {"kRiskRejected", "kExchangeRejected"}
  /\ {"kRiskRejected", "kExchangeRejected"} \subseteq OrderLifecycleState
  /\ {"kQueued", "kSent", "kExchangeAccepted", "kCancelPending", "kCancelled",
      "kAmendPending", "kAmendAccepted"} \subseteq ExecutionReportType
  /\ RejectSource = {"kRisk", "kExchange", "kCancel", "kAmend"}
BY DEF OrderLifecycleState, Terminal, ExecutionReportType, RejectSource

\* MarkQueued: the first method that only moves an order.
LEMMA MarkQueuedSound ==
  ASSUME NEW t \in Tracker, NEW s \in SeqId
  PROVE  /\ Sound(t, MarkQueued(t, s))
         /\ StateOf(t, s) = "kCreated" => Ok(MarkQueued(t, s))
BY MarkStateSound, StateTypes DEF MarkQueued

\* The two calls of RegisterQueued: once the first succeeds so does the
\* second, so a refused registration leaves no half-registered order.
LEMMA RegisterQueuedSound ==
  ASSUME NEW t \in Tracker, NEW s \in SeqId
  PROVE  Sound(t, RegisterQueued(t, s))
<1> DEFINE v == RegisterCreated(t, s)
           u == MarkQueued(v, s)
<1>1. Sound(t, v) /\ v \in Tracker /\ (Ok(v) => StateOf(v, s) = "kCreated")
  BY RegisterCreatedSound DEF Sound
<1>2. CASE ~Ok(v)
  BY <1>1, <1>2 DEF RegisterQueued
<1>3. CASE Ok(v)
  <2> HIDE DEF v
  <2>1. Sound(v, u) /\ Ok(u)
    BY <1>1, <1>3, MarkQueuedSound
  <2> HIDE DEF u
  <2>2. ASSUME NEW r \in SeqId, StateOf(t, r) \in Terminal
        PROVE  u.records[r] = t.records[r]
    <3>1. v.records[r] = t.records[r]
      BY <1>1, <2>2 DEF Sound, LegalEffect
    <3>2. StateOf(v, r) \in Terminal
      BY <2>2, <3>1 DEF StateOf
    <3> QED BY <2>1, <3>1, <3>2 DEF Sound, LegalEffect
  <2>3. Sound(t, u)
    BY <1>1, <2>1, <2>2 DEF Sound, LegalEffect
  <2> QED BY <1>3, <2>3 DEF RegisterQueued, u, v
<1> QED BY <1>2, <1>3

\* Clearing the reason of an earlier rejected amendment disturbs nothing.
LEMMA MarkAmendAcceptedSound ==
  ASSUME NEW t \in Tracker, NEW s \in SeqId
  PROVE  Sound(t, MarkAmendAccepted(t, s))
<1> DEFINE v == MarkState(t, s, "kAmendPending", "kExchangeAccepted",
                          "amends_accepted", "kAmendAccepted")
           u == [v EXCEPT !.records[s].reason["kAmend"] = "kNone"]
           rec == [t.records[s] EXCEPT !.state = "kExchangeAccepted",
                                       !.reason["kAmend"] = "kNone"]
<1>0. /\ Sound(t, v)
      /\ Ok(v) => /\ StateOf(t, s) = "kAmendPending"
                  /\ v.records = WithState(t.records, s,
                                           "kExchangeAccepted")
  BY MarkStateSound, StateTypes
<1>1. /\ Sound(t, v) /\ v \in Tracker
      /\ Ok(v) => /\ StateOf(t, s) = "kAmendPending"
                  /\ v.records = WithState(t.records, s,
                                           "kExchangeAccepted")
  BY <1>0 DEF Sound
<1>2. CASE ~Ok(v)
  BY <1>1, <1>2 DEF MarkAmendAccepted
<1>3. CASE Ok(v)
  <2> HIDE DEF v
  <2>0. t.records \in [SeqId -> LifecycleRecord]
        /\ t.records[s] \in LifecycleRecord /\ "kNone" \in RejectReason
    BY DEF Tracker, RejectReason, RiskRejectReason
  <2>1. /\ rec \in LifecycleRecord
        /\ rec.state = "kExchangeAccepted"
        /\ rec.reason["kRisk"] = t.records[s].reason["kRisk"]
        /\ rec.reason["kExchange"] = t.records[s].reason["kExchange"]
    BY <2>0, StateTypes DEF LifecycleRecord
  <2>2. /\ u.records = [v.records EXCEPT ![s].reason["kAmend"] = "kNone"]
        /\ u.last_error = v.last_error
    BY <1>1 DEF Tracker
  <2>3. u.records = [t.records EXCEPT ![s] = rec]
    BY <1>1, <1>3, <2>0, <2>2 DEF LifecycleRecord, WithState
  <2>4. u \in Tracker /\ Ok(u)
    BY <1>1, <1>3, <2>0, <2>1, <2>2, <2>3 DEF Tracker, Ok
  <2> HIDE DEF u, rec
  <2>5. StateOf(t, s) \notin Terminal
    BY <1>1, <1>3, StateTypes
  <2>6. ReasonOK(t) =>
          /\ rec.reason["kRisk"] # "kNone" <=> rec.state = "kRiskRejected"
          /\ rec.reason["kExchange"] # "kNone"
               <=> rec.state = "kExchangeRejected"
    BY <1>1, <1>3, <2>1 DEF ReasonOK, StateOf
  <2>7. Sound(t, u)
    BY <2>1, <2>3, <2>4, <2>5, <2>6, UpdateSound
  <2> QED BY <1>3, <2>7 DEF MarkAmendAccepted, u, v
<1> QED BY <1>2, <1>3

----------------------------------------------------------------------------
(* The effect of each method on the states and the counters, which is all  *)
(* that its callers can tell.                                              *)

\* The call from t to u moved order s to the given state, and counted that.
Moved(t, u, s, next, names) ==
  /\ u \in Tracker /\ Ok(u)
  /\ \A r \in SeqId : StateOf(u, r) = IF r = s THEN next ELSE StateOf(t, r)
  /\ u.count = Bump(t.count, names)

RequestCounter == {"cancel_requests", "amend_requests"}

\* The counters of calls that succeeded: a refused call leaves them alone.
CallCounter ==
  TrackerCounter \ {"transition_errors", "duplicate_order_errors",
                    "unknown_order_errors", "invalid_transition_errors"}

\* The call from t to u was refused: one error, and nothing else.
Refused(t, u) ==
  /\ u \in Tracker /\ ~Ok(u)
  /\ u.records = t.records
  /\ u.journal = t.journal /\ u.attached = t.attached
  /\ u.count["transition_errors"] = t.count["transition_errors"] + 1
  /\ \A c \in CallCounter : u.count[c] = t.count[c]

\* Moving one order moves it between the sets of orders in a state.
LEMMA MovedInState ==
  ASSUME NEW t, NEW u, NEW s \in SeqId, NEW next, NEW names,
         Moved(t, u, s, next, names), NEW state
  PROVE  InState(u, state) = IF state = next THEN InState(t, state) \cup {s}
                                             ELSE InState(t, state) \ {s}
BY DEF Moved, InState, StateOf

\* A failing call is a refusal.
LEMMA FailRefuses ==
  ASSUME NEW t \in Tracker, NEW error \in LifecycleError \ {"kNone"}
  PROVE  Refused(t, Fail(t, error))
<1> DEFINE kind == [kDuplicateOrder |-> "duplicate_order_errors",
                    kUnknownOrder |-> "unknown_order_errors",
                    kInvalidTransition |->
                      "invalid_transition_errors"][error]
           names == {"transition_errors", kind}
           u     == Fail(t, error)
<1>1. kind \notin CallCounter
  BY DEF LifecycleError, CallCounter
<1> HIDE DEF kind
<1>2. /\ u.records = t.records /\ u.count = Bump(t.count, names)
      /\ u.journal = t.journal /\ u.attached = t.attached
  BY DEF Fail, kind, Tracker
<1>3. /\ t.count \in [TrackerCounter -> Nat]
      /\ "transition_errors" \in TrackerCounter
      /\ CallCounter \subseteq TrackerCounter \ {"transition_errors"}
  BY DEF Tracker, TrackerCounter, CallCounter
<1>4. u \in Tracker /\ ~Ok(u)
  BY FailSound DEF Sound
<1> HIDE DEF u
<1>5. Refused(t, u)
  BY <1>1, <1>2, <1>3, <1>4 DEF Refused, Bump
<1> QED BY <1>5 DEF u

\* Transition is refused outside the expected state.
LEMMA TransitionRefuses ==
  ASSUME NEW t \in Tracker, NEW s \in SeqId, NEW expected, NEW next,
         StateOf(t, s) # expected
  PROVE  Refused(t, Transition(t, s, expected, next))
<1>1. "kUnknownOrder" \in LifecycleError \ {"kNone"}
      /\ "kInvalidTransition" \in LifecycleError \ {"kNone"}
  BY DEF LifecycleError
<1> QED BY <1>1, FailRefuses DEF Transition, StateOf

\* A method that moves an order and rejects nothing, from any state.
LEMMA MarkStateEffect ==
  ASSUME NEW t \in Tracker, NEW s \in SeqId,
         NEW expected \in OrderLifecycleState,
         NEW next \in OrderLifecycleState,
         NEW counter, NEW type \in ExecutionReportType
  PROVE  LET u == MarkState(t, s, expected, next, counter, type)
         IN  IF StateOf(t, s) = expected THEN Moved(t, u, s, next, {counter})
                                         ELSE Refused(t, u)
<1> DEFINE v == Transition(t, s, expected, next)
           u == MarkState(t, s, expected, next, counter, type)
<1>1. CASE StateOf(t, s) # expected
  <2>1. Refused(t, v)
    BY <1>1, TransitionRefuses
  <2> QED BY <1>1, <2>1 DEF MarkState, Refused
<1>2. CASE StateOf(t, s) = expected
  <2>1. /\ v \in Tracker /\ Ok(v) /\ v.count = t.count
        /\ v.journal \in Journal
        /\ v.records = [t.records EXCEPT ![s].state = next]
    BY <1>2, TransitionMoves
  <2> HIDE DEF v
  <2>2. RecordState(v.journal, s, type) \in Journal
    BY <2>1, RecordStateType
  <2>3. u = Succeed(v, counter, RecordState(v.journal, s, type))
    BY <2>1 DEF MarkState, v
  <2> HIDE DEF u
  <2>4. /\ u \in Tracker /\ u.records = v.records /\ Ok(u)
    BY <2>1, <2>2, <2>3, SucceedFields DEF Ok
  <2>7. u.count = Bump(t.count, {counter})
    <3>1. \A journal : Succeed(v, counter, journal).count =
                         Bump(v.count, {counter})
      BY <2>1, SucceedCounts
    <3> QED BY <2>1, <2>3, <3>1
  <2>5. t.records \in [SeqId -> LifecycleRecord]
    BY DEF Tracker
  <2>6. \A r \in SeqId : u.records[r].state =
                           IF r = s THEN next ELSE t.records[r].state
    <3>1. t.records[s] \in LifecycleRecord
      BY <2>5
    <3>2. [t.records[s] EXCEPT !.state = next].state = next
      BY <3>1 DEF LifecycleRecord
    <3>3. \A r \in SeqId : v.records[r] =
            IF r = s THEN [t.records[s] EXCEPT !.state = next]
                     ELSE t.records[r]
      BY <2>1, <2>5
    <3> QED BY <2>4, <3>2, <3>3
  <2>8. Moved(t, u, s, next, {counter})
    BY <2>4, <2>6, <2>7 DEF Moved, StateOf
  <2> QED BY <1>2, <2>8 DEF u
<1> QED BY <1>1, <1>2

\* A method that moves an order because of a rejection, given its reason.
LEMMA MarkRejectedEffect ==
  ASSUME NEW t \in Tracker, NEW s \in SeqId,
         NEW expected \in OrderLifecycleState,
         NEW next \in OrderLifecycleState, NEW counter,
         NEW source \in RejectSource, NEW reason \in RejectReason \ {"kNone"}
  PROVE  LET u == MarkRejected(t, s, expected, next, counter, source, reason)
         IN  IF StateOf(t, s) = expected THEN Moved(t, u, s, next, {counter})
                                         ELSE Refused(t, u)
<1> DEFINE v == Transition(t, s, expected, next)
           w == [v EXCEPT !.records[s].reason[source] = reason]
           u == MarkRejected(t, s, expected, next, counter, source, reason)
<1>1. CASE StateOf(t, s) # expected
  <2>1. Refused(t, v)
    BY <1>1, TransitionRefuses
  <2> QED BY <1>1, <2>1 DEF MarkRejected, Refused
<1>2. CASE StateOf(t, s) = expected
  <2>1. /\ v \in Tracker /\ Ok(v) /\ v.count = t.count
        /\ v.journal \in Journal
        /\ v.records = [t.records EXCEPT ![s].state = next]
    BY <1>2, TransitionMoves
  <2> HIDE DEF v
  <2>2. /\ w.records = [v.records EXCEPT ![s].reason[source] = reason]
        /\ w.last_error = v.last_error /\ w.count = v.count
    BY <2>1 DEF Tracker
  <2>3. t.records \in [SeqId -> LifecycleRecord]
        /\ v.records \in [SeqId -> LifecycleRecord]
    BY <2>1 DEF Tracker
  <2>4. w.records \in [SeqId -> LifecycleRecord]
    <3> DEFINE rec == [v.records[s] EXCEPT !.reason[source] = reason]
    <3>1. v.records[s] \in LifecycleRecord
      BY <2>3
    <3>2. rec \in LifecycleRecord
      BY <3>1 DEF LifecycleRecord
    <3>3. w.records = [v.records EXCEPT ![s] = rec]
      BY <2>2
    <3> HIDE DEF rec, w
    <3> QED BY <2>3, <3>2, <3>3
  <2>5. w \in Tracker
    BY <2>1, <2>2, <2>4 DEF Tracker
  <2>6. \A r \in SeqId : w.records[r].state =
                           IF r = s THEN next ELSE t.records[r].state
    BY <2>1, <2>2, <2>3 DEF LifecycleRecord
  <2>7. RecordRejected(v.journal, s, source, reason) \in Journal
    BY <2>1, RecordRejectedType
  <2>8. u = Succeed(w, counter, RecordRejected(v.journal, s, source, reason))
    BY <2>1 DEF MarkRejected, v
  <2> HIDE DEF u, w
  <2>9. /\ u \in Tracker /\ u.records = w.records /\ Ok(u)
    BY <2>1, <2>2, <2>5, <2>7, <2>8, SucceedFields DEF Ok
  <2>10. w.count = t.count
    BY <2>1, <2>2
  <2>11. u.count = Bump(t.count, {counter})
    <3>1. \A journal : Succeed(w, counter, journal).count =
                         Bump(w.count, {counter})
      BY <2>5, SucceedCounts
    <3> QED BY <2>8, <2>10, <3>1
  <2>12. Moved(t, u, s, next, {counter})
    BY <2>6, <2>9, <2>11 DEF Moved, StateOf
  <2> QED BY <1>2, <2>12 DEF u
<1> QED BY <1>1, <1>2

\* Two moves of the same order in a row.
LEMMA MovedTwice ==
  ASSUME NEW t, NEW u, NEW v, NEW s \in SeqId, NEW a, NEW b,
         NEW x, NEW y, x # y,
         Moved(t, u, s, a, {x}), Moved(u, v, s, b, {y})
  PROVE  Moved(t, v, s, b, {x, y})
<1>1. Bump(Bump(t.count, {x}), {y}) = Bump(t.count, {x, y})
  BY DEF Bump
<1> QED BY <1>1 DEF Moved

\* An id is registered the first time it is used, and refused after that.
LEMMA RegisterCreatedEffect ==
  ASSUME NEW t \in Tracker, NEW s \in SeqId
  PROVE  LET u == RegisterCreated(t, s)
         IN  IF Contains(t, s)
             THEN Refused(t, u)
             ELSE /\ Moved(t, u, s, "kCreated", {"orders_registered"})
                  /\ u.records = [t.records EXCEPT
                                    ![s] = [NoRecord EXCEPT
                                              !.state = "kCreated"]]
                  /\ u.attached = t.attached
                  /\ u.journal = IF t.attached
                                 THEN RecordState(t.journal, s, "kCreated")
                                 ELSE t.journal
<1> DEFINE rec == [NoRecord EXCEPT !.state = "kCreated"]
           v == [t EXCEPT !.records[s] = rec, !.last_error = "kNone"]
           j == RecordState(t.journal, s, "kCreated")
           u == RegisterCreated(t, s)
<1>0. CASE Contains(t, s)
  <2>1. "kDuplicateOrder" \in LifecycleError \ {"kNone"}
    BY DEF LifecycleError
  <2> QED BY <1>0, <2>1, FailRefuses DEF RegisterCreated
<1> SUFFICES ASSUME ~Contains(t, s)
             PROVE  /\ Moved(t, u, s, "kCreated", {"orders_registered"})
                    /\ u.records = [t.records EXCEPT ![s] = rec]
                    /\ u.attached = t.attached
                    /\ u.journal = IF t.attached THEN j ELSE t.journal
  BY <1>0
<1>1. rec \in LifecycleRecord /\ rec.state = "kCreated"
  BY DEF NoRecord, LifecycleRecord, OrderLifecycleState, RejectSource,
         RejectReason, RiskRejectReason
<1>5. u = Succeed(v, "orders_registered", j)
  BY DEF RegisterCreated
<1> HIDE DEF rec
<1>2. /\ t.records \in [SeqId -> LifecycleRecord] /\ t.journal \in Journal
      /\ "kNone" \in LifecycleError /\ "kCreated" \in ExecutionReportType
  BY DEF Tracker, LifecycleError, ExecutionReportType
<1>3. /\ v \in Tracker /\ v.last_error = "kNone"
      /\ v.records = [t.records EXCEPT ![s] = rec]
      /\ v.count = t.count
      /\ v.journal = t.journal /\ v.attached = t.attached
  BY <1>1, <1>2 DEF Tracker
<1>4. j \in Journal
  BY <1>2, RecordStateType
<1> HIDE DEF v, j, u
<1>6. /\ u \in Tracker /\ u.records = v.records /\ Ok(u)
      /\ u.attached = t.attached
      /\ u.journal = IF t.attached THEN j ELSE t.journal
  BY <1>3, <1>4, <1>5, SucceedFields DEF Ok
<1>7. u.count = Bump(t.count, {"orders_registered"})
  <2>1. Succeed(v, "orders_registered", j).count =
          Bump(v.count, {"orders_registered"})
    BY <1>3, SucceedCounts
  <2> QED BY <1>3, <1>5, <2>1
<1>8. \A r \in SeqId : u.records[r].state =
                         IF r = s THEN "kCreated" ELSE t.records[r].state
  BY <1>1, <1>2, <1>3, <1>6
<1>9. Moved(t, u, s, "kCreated", {"orders_registered"})
  BY <1>6, <1>7, <1>8 DEF Moved, StateOf
<1> QED BY <1>3, <1>6, <1>9

\* An order that is registered and queued, the first time its id is used.
LEMMA RegisterQueuedEffect ==
  ASSUME NEW t \in Tracker, NEW s \in SeqId, ~Contains(t, s)
  PROVE  Moved(t, RegisterQueued(t, s), s, "kQueued",
               {"orders_registered", "orders_queued"})
<1> DEFINE u == RegisterCreated(t, s)
<1>1. Moved(t, u, s, "kCreated", {"orders_registered"})
  BY RegisterCreatedEffect
<1>2. RegisterQueued(t, s) = MarkQueued(u, s)
  BY <1>1 DEF RegisterQueued, Moved
<1> HIDE DEF u
<1>3. u \in Tracker /\ StateOf(u, s) = "kCreated"
  BY <1>1 DEF Moved
<1>4. Moved(u, MarkQueued(u, s), s, "kQueued", {"orders_queued"})
  BY <1>3, MarkStateEffect, StateTypes DEF MarkQueued
<1> QED BY <1>1, <1>2, <1>4, MovedTwice

\* What Drain does to a queued order, in each of its three ways.
LEMMA RiskRejectedEffect ==
  ASSUME NEW t \in Tracker, NEW s \in SeqId, StateOf(t, s) = "kQueued",
         NEW reason \in RejectReason \ {"kNone"}
  PROVE  Moved(t, MarkRiskRejected(t, s, reason), s, "kRiskRejected",
               {"orders_risk_rejected"})
BY MarkRejectedEffect, StateTypes DEF MarkRiskRejected

\* An order is sent from kQueued.
LEMMA SentEffect ==
  ASSUME NEW t \in Tracker, NEW s \in SeqId, StateOf(t, s) = "kQueued"
  PROVE  /\ Moved(t, MarkSent(t, s), s, "kSent", {"orders_sent"})
         /\ MarkSent(t, s) \in Tracker
         /\ StateOf(MarkSent(t, s), s) = "kSent"
<1>1. Moved(t, MarkSent(t, s), s, "kSent", {"orders_sent"})
  BY MarkStateEffect, StateTypes DEF MarkSent
<1> QED BY <1>1 DEF Moved

\* Sent, then accepted.
LEMMA SentAcceptedEffect ==
  ASSUME NEW t \in Tracker, NEW s \in SeqId, StateOf(t, s) = "kQueued"
  PROVE  Moved(t, MarkExchangeAccepted(MarkSent(t, s), s), s,
               "kExchangeAccepted",
               {"orders_sent", "orders_exchange_accepted"})
<1> DEFINE u == MarkSent(t, s)
<1>1. /\ Moved(t, u, s, "kSent", {"orders_sent"})
      /\ u \in Tracker /\ StateOf(u, s) = "kSent"
  BY SentEffect
<1> HIDE DEF u
<1>2. Moved(u, MarkExchangeAccepted(u, s), s, "kExchangeAccepted",
            {"orders_exchange_accepted"})
  BY <1>1, MarkStateEffect, StateTypes
  DEF MarkExchangeAccepted, ExecutionReportType
<1>3. Moved(t, MarkExchangeAccepted(u, s), s, "kExchangeAccepted",
            {"orders_sent", "orders_exchange_accepted"})
  BY <1>1, <1>2, MovedTwice
<1> QED BY <1>3 DEF u

\* Sent, then rejected.
LEMMA SentRejectedEffect ==
  ASSUME NEW t \in Tracker, NEW s \in SeqId, StateOf(t, s) = "kQueued",
         NEW reason \in RejectReason \ {"kNone"}
  PROVE  Moved(t, MarkExchangeRejected(MarkSent(t, s), s, reason), s,
               "kExchangeRejected",
               {"orders_sent", "orders_exchange_rejected"})
<1> DEFINE u == MarkSent(t, s)
<1>1. /\ Moved(t, u, s, "kSent", {"orders_sent"})
      /\ u \in Tracker /\ StateOf(u, s) = "kSent"
  BY SentEffect
<1> HIDE DEF u
<1>2. Moved(u, MarkExchangeRejected(u, s, reason), s, "kExchangeRejected",
            {"orders_exchange_rejected"})
  BY <1>1, MarkRejectedEffect, StateTypes DEF MarkExchangeRejected
<1>3. Moved(t, MarkExchangeRejected(u, s, reason), s, "kExchangeRejected",
            {"orders_sent", "orders_exchange_rejected"})
  BY <1>1, <1>2, MovedTwice
<1> QED BY <1>3 DEF u

\* Requests are refused unless the order is accepted...
LEMMA PendingEffect ==
  ASSUME NEW t \in Tracker, NEW s \in SeqId
  PROVE  /\ IF StateOf(t, s) = "kExchangeAccepted"
            THEN Moved(t, MarkCancelPending(t, s), s, "kCancelPending",
                       {"cancel_requests"})
            ELSE Refused(t, MarkCancelPending(t, s))
         /\ IF StateOf(t, s) = "kExchangeAccepted"
            THEN Moved(t, MarkAmendPending(t, s), s, "kAmendPending",
                       {"amend_requests"})
            ELSE Refused(t, MarkAmendPending(t, s))
<1>1. {"kCancelPending", "kAmendPending", "kExchangeAccepted"}
        \subseteq OrderLifecycleState \cap ExecutionReportType
  BY DEF OrderLifecycleState, ExecutionReportType
<1> QED BY <1>1, MarkStateEffect DEF MarkCancelPending, MarkAmendPending

\* ... and a cancellation once pending is settled either way.
LEMMA CancelSettledEffect ==
  ASSUME NEW t \in Tracker, NEW s \in SeqId,
         StateOf(t, s) = "kExchangeAccepted",
         NEW reason \in RejectReason \ {"kNone"}
  PROVE  LET u == MarkCancelPending(t, s)
         IN  /\ Moved(t, MarkCancelled(u, s), s, "kCancelled",
                      {"cancel_requests", "cancels_accepted"})
             /\ Moved(t, MarkCancelRejected(u, s, reason), s,
                      "kExchangeAccepted",
                      {"cancel_requests", "cancels_rejected"})
<1> DEFINE u == MarkCancelPending(t, s)
<1>1. Moved(t, u, s, "kCancelPending", {"cancel_requests"})
  BY PendingEffect
<1> HIDE DEF u
<1>2. u \in Tracker /\ StateOf(u, s) = "kCancelPending"
  BY <1>1 DEF Moved
<1>3. Moved(u, MarkCancelled(u, s), s, "kCancelled", {"cancels_accepted"})
  BY <1>2, MarkStateEffect, StateTypes DEF MarkCancelled
<1>4. Moved(u, MarkCancelRejected(u, s, reason), s, "kExchangeAccepted",
            {"cancels_rejected"})
  BY <1>2, MarkRejectedEffect, StateTypes DEF MarkCancelRejected
<1>5. /\ Moved(t, MarkCancelled(u, s), s, "kCancelled",
               {"cancel_requests", "cancels_accepted"})
      /\ Moved(t, MarkCancelRejected(u, s, reason), s, "kExchangeAccepted",
               {"cancel_requests", "cancels_rejected"})
  BY <1>1, <1>3, <1>4, MovedTwice
<1> QED BY <1>5 DEF u

\* MarkAmendAccepted moves the order and clears a reason.
LEMMA MarkAmendAcceptedEffect ==
  ASSUME NEW t \in Tracker, NEW s \in SeqId, StateOf(t, s) = "kAmendPending"
  PROVE  Moved(t, MarkAmendAccepted(t, s), s, "kExchangeAccepted",
               {"amends_accepted"})
<1> DEFINE v == MarkState(t, s, "kAmendPending", "kExchangeAccepted",
                          "amends_accepted", "kAmendAccepted")
           u == [v EXCEPT !.records[s].reason["kAmend"] = "kNone"]
<1>1. Moved(t, v, s, "kExchangeAccepted", {"amends_accepted"})
  BY MarkStateEffect, StateTypes
<1>2. MarkAmendAccepted(t, s) = u
  BY <1>1 DEF MarkAmendAccepted, Moved
<1> HIDE DEF v
<1>3. /\ u.records = [v.records EXCEPT ![s].reason["kAmend"] = "kNone"]
      /\ u.last_error = v.last_error /\ u.count = v.count
      /\ v.records \in [SeqId -> LifecycleRecord]
  BY <1>1 DEF Moved, Tracker
<1>4. \A r \in SeqId : u.records[r].state = v.records[r].state
  BY <1>3 DEF LifecycleRecord
<1>5. u \in Tracker
  BY <1>2, MarkAmendAcceptedSound DEF Sound
<1> HIDE DEF u
<1>6. Moved(t, u, s, "kExchangeAccepted", {"amends_accepted"})
  BY <1>1, <1>3, <1>4, <1>5 DEF Moved, StateOf, Ok
<1> QED BY <1>2, <1>6

\* An amendment once pending is settled either way.
LEMMA AmendSettledEffect ==
  ASSUME NEW t \in Tracker, NEW s \in SeqId,
         StateOf(t, s) = "kExchangeAccepted",
         NEW reason \in RejectReason \ {"kNone"}
  PROVE  LET u == MarkAmendPending(t, s)
         IN  /\ Moved(t, MarkAmendAccepted(u, s), s, "kExchangeAccepted",
                      {"amend_requests", "amends_accepted"})
             /\ Moved(t, MarkAmendRejected(u, s, reason), s,
                      "kExchangeAccepted",
                      {"amend_requests", "amends_rejected"})
<1> DEFINE u == MarkAmendPending(t, s)
<1>1. Moved(t, u, s, "kAmendPending", {"amend_requests"})
  BY PendingEffect
<1> HIDE DEF u
<1>2. u \in Tracker /\ StateOf(u, s) = "kAmendPending"
  BY <1>1 DEF Moved
<1>3. Moved(u, MarkAmendAccepted(u, s), s, "kExchangeAccepted",
            {"amends_accepted"})
  BY <1>2, MarkAmendAcceptedEffect
<1>4. Moved(u, MarkAmendRejected(u, s, reason), s, "kExchangeAccepted",
            {"amends_rejected"})
  BY <1>2, MarkRejectedEffect, StateTypes DEF MarkAmendRejected
<1>5. /\ Moved(t, MarkAmendAccepted(u, s), s, "kExchangeAccepted",
               {"amend_requests", "amends_accepted"})
      /\ Moved(t, MarkAmendRejected(u, s, reason), s, "kExchangeAccepted",
               {"amend_requests", "amends_rejected"})
  BY <1>1, <1>3, <1>4, MovedTwice
<1> QED BY <1>5 DEF u

----------------------------------------------------------------------------
(* What the methods write to the journal. *)

\* k is the journal j with one more report, the last of its order's reports.
Appends(j, k, report) ==
  LET n == Len(j.reports)
  IN  /\ n \in Nat /\ Len(k.reports) = n + 1
      /\ \A i \in 1..n : k.reports[i] = j.reports[i]
      /\ k.reports[n + 1] = report
      /\ \A r \in SeqId :
           /\ ReportsFor(j, r) \subseteq 1..n
           /\ ReportsFor(k, r) = IF r = report.sequence_id
                                 THEN ReportsFor(j, r) \cup {n + 1}
                                 ELSE ReportsFor(j, r)

\* Recording appends one report.
LEMMA RecordAppends ==
  ASSUME NEW j \in Journal, NEW s \in SeqId, NEW type, NEW source, NEW text
  PROVE  Appends(j, Record(j, s, type, source, text),
                 [event_index |-> j.next_event_index, sequence_id |-> s,
                  type |-> type, reject_source |-> source,
                  reject_reason |-> text])
<1> DEFINE k == Record(j, s, type, source, text)
           n == Len(j.reports)
           report == [event_index |-> j.next_event_index, sequence_id |-> s,
                      type |-> type, reject_source |-> source,
                      reject_reason |-> text]
<1>1. j.reports \in Seq(Report)
  BY DEF Journal
<1>2. k.reports = Append(j.reports, report)
  BY DEF Record
<1>3. /\ n \in Nat /\ Len(k.reports) = n + 1
      /\ \A i \in 1..n : k.reports[i] = j.reports[i]
      /\ k.reports[n + 1] = report
  BY <1>1, <1>2
<1>4. report.sequence_id = s
  OBVIOUS
<1> HIDE DEF k, report
<1>5. \A r \in SeqId :
        /\ ReportsFor(j, r) = {i \in 1..n : j.reports[i].sequence_id = r}
        /\ ReportsFor(k, r) = {i \in 1..(n + 1) :
                                 k.reports[i].sequence_id = r}
  BY <1>3 DEF ReportsFor
<1> HIDE DEF n
<1>6. \A i : i \in 1..(n + 1) <=> i \in 1..n \/ i = n + 1
  BY <1>3
<1>7. \A r \in SeqId :
        /\ ReportsFor(j, r) \subseteq 1..n
        /\ ReportsFor(k, r) = IF r = s THEN ReportsFor(j, r) \cup {n + 1}
                                       ELSE ReportsFor(j, r)
  <2> SUFFICES ASSUME NEW r \in SeqId
               PROVE  /\ ReportsFor(j, r) \subseteq 1..n
                      /\ r = s => ReportsFor(k, r)
                                    = ReportsFor(j, r) \cup {n + 1}
                      /\ r # s => ReportsFor(k, r) = ReportsFor(j, r)
    OBVIOUS
  <2>1. ReportsFor(k, r) = {i \in 1..n : k.reports[i].sequence_id = r}
                             \cup {i \in {n + 1} :
                                     k.reports[i].sequence_id = r}
    BY <1>5, <1>6
  <2>2. {i \in 1..n : k.reports[i].sequence_id = r} = ReportsFor(j, r)
    BY <1>3, <1>5
  <2> QED BY <1>3, <1>4, <1>5, <2>1, <2>2
<1>8. Appends(j, k, report)
  BY <1>3, <1>4, <1>7 DEF Appends, n
<1> QED BY <1>8 DEF k, report

\* What a method that moves an order writes.
LEMMA MarkStateWrites ==
  ASSUME NEW t \in Tracker, NEW s \in SeqId,
         NEW expected \in OrderLifecycleState,
         NEW next \in OrderLifecycleState, StateOf(t, s) = expected,
         NEW counter, NEW type \in ExecutionReportType
  PROVE  LET u == MarkState(t, s, expected, next, counter, type)
         IN  /\ u.records = [t.records EXCEPT ![s].state = next]
             /\ u.attached = t.attached
             /\ u.journal = IF t.attached THEN RecordState(t.journal, s, type)
                                          ELSE t.journal
<1> DEFINE v == Transition(t, s, expected, next)
           u == MarkState(t, s, expected, next, counter, type)
<1>1. /\ v \in Tracker /\ Ok(v) /\ v.journal \in Journal
      /\ v.journal = t.journal /\ v.attached = t.attached
      /\ v.records = [t.records EXCEPT ![s].state = next]
  BY TransitionMoves
<1>2. u = Succeed(v, counter, RecordState(v.journal, s, type))
  BY <1>1 DEF MarkState
<1> HIDE DEF u, v
<1>3. RecordState(v.journal, s, type) \in Journal
  BY <1>1, RecordStateType
<1>4. /\ u.records = v.records /\ u.attached = v.attached
      /\ u.journal = IF v.attached THEN RecordState(v.journal, s, type)
                                   ELSE v.journal
  BY <1>1, <1>2, <1>3, SucceedFields
<1>5. /\ u.records = [t.records EXCEPT ![s].state = next]
      /\ u.attached = t.attached
      /\ u.journal = IF t.attached THEN RecordState(t.journal, s, type)
                                   ELSE t.journal
  BY <1>1, <1>4
<1> QED BY <1>5 DEF u

\* What a method that moves an order because of a rejection writes.
LEMMA MarkRejectedWrites ==
  ASSUME NEW t \in Tracker, NEW s \in SeqId,
         NEW expected \in OrderLifecycleState,
         NEW next \in OrderLifecycleState, StateOf(t, s) = expected,
         NEW counter, NEW source \in RejectSource,
         NEW reason \in RejectReason \ {"kNone"}
  PROVE  LET u == MarkRejected(t, s, expected, next, counter, source, reason)
         IN  /\ u.records = [t.records EXCEPT
                               ![s] = [state |-> next,
                                       reason |-> [t.records[s].reason EXCEPT
                                                     ![source] = reason]]]
             /\ u.attached = t.attached
             /\ u.journal = IF t.attached
                            THEN RecordRejected(t.journal, s, source, reason)
                            ELSE t.journal
<1> DEFINE v == Transition(t, s, expected, next)
           w == [v EXCEPT !.records[s].reason[source] = reason]
           j == RecordRejected(v.journal, s, source, reason)
           u == MarkRejected(t, s, expected, next, counter, source, reason)
           rec == [state |-> next,
                   reason |-> [t.records[s].reason EXCEPT ![source] = reason]]
<1>1. /\ v \in Tracker /\ Ok(v) /\ v.journal \in Journal
      /\ v.journal = t.journal /\ v.attached = t.attached
      /\ v.records = [t.records EXCEPT ![s].state = next]
  BY TransitionMoves
<1>2. u = Succeed(w, counter, j)
  BY <1>1 DEF MarkRejected
<1> HIDE DEF u, v
<1>3. /\ w.records = [v.records EXCEPT ![s].reason[source] = reason]
      /\ w.journal = v.journal /\ w.attached = v.attached
      /\ w = [v EXCEPT !.records = w.records]
  BY <1>1 DEF Tracker
<1>4. t.records \in [SeqId -> LifecycleRecord]
  BY DEF Tracker
<1>5. w.records = [t.records EXCEPT ![s] = rec]
  <2>1. /\ v.records[s] = [t.records[s] EXCEPT !.state = next]
        /\ \A r \in SeqId \ {s} : v.records[r] = t.records[r]
        /\ v.records \in [SeqId -> LifecycleRecord]
    BY <1>1, <1>4 DEF Tracker
  <2>2. t.records[s] \in LifecycleRecord
    BY <1>4
  <2>3. [v.records[s] EXCEPT !.reason[source] = reason] = rec
    <3>1. v.records[s] = [state |-> next, reason |-> t.records[s].reason]
      BY <2>1, <2>2 DEF LifecycleRecord
    <3> QED BY <3>1
  <2>4. w.records = [v.records EXCEPT
                       ![s] = [v.records[s] EXCEPT !.reason[source] = reason]]
    BY <1>3
  <2> HIDE DEF w, rec
  <2> QED BY <1>4, <2>1, <2>3, <2>4
<1>6. rec \in LifecycleRecord
  <2>1. t.records[s] \in LifecycleRecord
    BY <1>4
  <2> QED BY <2>1 DEF LifecycleRecord
<1> HIDE DEF w, rec, j
<1>7. w \in Tracker
  BY <1>1, <1>3, <1>4, <1>5, <1>6 DEF Tracker
<1>8. j \in Journal
  BY <1>1, RecordRejectedType DEF j
<1>9. /\ u.records = w.records /\ u.attached = w.attached
      /\ u.journal = IF w.attached THEN j ELSE w.journal
  BY <1>2, <1>7, <1>8, SucceedFields
<1>10. /\ u.records = [t.records EXCEPT ![s] = rec]
       /\ u.attached = t.attached
       /\ u.journal = IF t.attached
                      THEN RecordRejected(t.journal, s, source, reason)
                      ELSE t.journal
  BY <1>1, <1>3, <1>5, <1>9 DEF j
<1> QED BY <1>10 DEF u, rec

\* The reports of the risk manager's rejections.
RiskReports(j) ==
  {i \in 1..Len(j.reports) : j.reports[i].type = "kRiskRejected"}

\* The call from t to u reported no rejection by the risk manager.
Quiet(t, u) ==
  /\ u.attached = t.attached
  /\ RiskReports(u.journal) = RiskReports(t.journal)
  /\ \A i \in RiskReports(t.journal) :
       u.journal.reports[i] = t.journal.reports[i]

\* Two quiet calls in a row are quiet.
LEMMA QuietTwice ==
  ASSUME NEW t, NEW u, NEW v, Quiet(t, u), Quiet(u, v)
  PROVE  Quiet(t, v)
BY DEF Quiet

\* A refused call reports nothing.
LEMMA RefusedIsQuiet ==
  ASSUME NEW t, NEW u, Refused(t, u)
  PROVE  Quiet(t, u)
BY DEF Refused, Quiet

\* Any other report is quiet, and so is no report.
LEMMA RecordIsQuiet ==
  ASSUME NEW t \in Tracker, NEW u, NEW s \in SeqId,
         NEW type, type # "kRiskRejected", NEW source, NEW text,
         u.attached = t.attached,
         u.journal = IF t.attached THEN Record(t.journal, s, type, source, text)
                                   ELSE t.journal
  PROVE  Quiet(t, u)
<1> DEFINE j == t.journal
           k == Record(j, s, type, source, text)
           report == [event_index |-> j.next_event_index, sequence_id |-> s,
                      type |-> type, reject_source |-> source,
                      reject_reason |-> text]
           n == Len(j.reports)
<1>1. CASE ~t.attached
  BY <1>1 DEF Quiet
<1>2. CASE t.attached
  <2>1. j \in Journal
    BY DEF Tracker
  <2>2. Appends(j, k, report) /\ report.type # "kRiskRejected"
    BY <2>1, RecordAppends
  <2> HIDE DEF j, k, report
  <2>3. /\ n \in Nat /\ Len(k.reports) = n + 1
        /\ \A i \in 1..n : k.reports[i] = j.reports[i]
        /\ k.reports[n + 1].type # "kRiskRejected"
    BY <2>2 DEF Appends
  <2> HIDE DEF n
  <2>4. \A i : i \in 1..(n + 1) <=> i \in 1..n \/ i = n + 1
    BY <2>3
  <2>5. /\ RiskReports(j) = {i \in 1..n : j.reports[i].type = "kRiskRejected"}
        /\ RiskReports(k) = {i \in 1..(n + 1) :
                               k.reports[i].type = "kRiskRejected"}
    BY <2>3 DEF RiskReports, n
  <2>6. /\ RiskReports(k) = RiskReports(j)
        /\ \A i \in RiskReports(j) : k.reports[i] = j.reports[i]
    BY <2>3, <2>4, <2>5
  <2> QED BY <1>2, <2>6 DEF Quiet, j, k
<1> QED BY <1>1, <1>2

\* A method that moves an order and rejects nothing is quiet.
LEMMA MarkStateQuiet ==
  ASSUME NEW t \in Tracker, NEW s \in SeqId,
         NEW expected \in OrderLifecycleState,
         NEW next \in OrderLifecycleState, NEW counter,
         NEW type \in ExecutionReportType \ {"kRiskRejected"}
  PROVE  LET u == MarkState(t, s, expected, next, counter, type)
         IN  u \in Tracker /\ Quiet(t, u)
<1> DEFINE u == MarkState(t, s, expected, next, counter, type)
<1>1. IF StateOf(t, s) = expected THEN Moved(t, u, s, next, {counter})
                                  ELSE Refused(t, u)
  BY MarkStateEffect
<1>2. CASE StateOf(t, s) = expected
  <2>1. /\ u.attached = t.attached
        /\ u.journal = IF t.attached
                       THEN Record(t.journal, s, type, "kNone", "none")
                       ELSE t.journal
    <3>1. /\ u.records = [t.records EXCEPT ![s].state = next]
          /\ u.attached = t.attached
          /\ u.journal = IF t.attached THEN RecordState(t.journal, s, type)
                                       ELSE t.journal
      BY <1>2, MarkStateWrites
    <3> HIDE DEF u
    <3> QED BY <3>1 DEF RecordState
  <2> HIDE DEF u
  <2> QED BY <1>1, <1>2, <2>1, RecordIsQuiet DEF Moved, u
<1>3. CASE StateOf(t, s) # expected
  BY <1>1, <1>3, RefusedIsQuiet DEF Refused
<1> QED BY <1>2, <1>3

\* So is a rejection by anyone else.
LEMMA MarkRejectedQuiet ==
  ASSUME NEW t \in Tracker, NEW s \in SeqId,
         NEW expected \in OrderLifecycleState,
         NEW next \in OrderLifecycleState, NEW counter,
         NEW source \in RejectSource \ {"kRisk"},
         NEW reason \in RejectReason \ {"kNone"}
  PROVE  LET u == MarkRejected(t, s, expected, next, counter, source, reason)
         IN  u \in Tracker /\ Quiet(t, u)
<1> DEFINE u == MarkRejected(t, s, expected, next, counter, source, reason)
           type == [kRisk |-> "kRiskRejected",
                    kExchange |-> "kExchangeRejected",
                    kCancel |-> "kCancelRejected",
                    kAmend |-> "kAmendRejected"][source]
<1>1. IF StateOf(t, s) = expected THEN Moved(t, u, s, next, {counter})
                                  ELSE Refused(t, u)
  BY MarkRejectedEffect
<1>2. CASE StateOf(t, s) = expected
  <2>1. /\ u.attached = t.attached
        /\ u.journal = IF t.attached
                       THEN Record(t.journal, s, type, source,
                                   ReasonString[source][reason])
                       ELSE t.journal
    <3>1. /\ u.records = [t.records EXCEPT
                            ![s] = [state |-> next,
                                    reason |-> [t.records[s].reason EXCEPT
                                                  ![source] = reason]]]
          /\ u.attached = t.attached
          /\ u.journal = IF t.attached
                         THEN RecordRejected(t.journal, s, source, reason)
                         ELSE t.journal
      BY <1>2, MarkRejectedWrites
    <3> HIDE DEF u
    <3> QED BY <3>1 DEF RecordRejected
  <2>2. type # "kRiskRejected"
    BY DEF RejectSource
  <2> HIDE DEF u, type
  <2>3. Quiet(t, u)
    BY <2>1, <2>2, RecordIsQuiet
  <2> QED BY <1>1, <1>2, <2>3 DEF Moved, u
<1>3. CASE StateOf(t, s) # expected
  BY <1>1, <1>3, RefusedIsQuiet DEF Refused
<1> QED BY <1>2, <1>3

\* Registration is quiet...
LEMMA RegisterQueuedQuiet ==
  ASSUME NEW t \in Tracker, NEW s \in SeqId
  PROVE  Quiet(t, RegisterQueued(t, s))
<1> DEFINE u == RegisterCreated(t, s)
           v == MarkQueued(u, s)
<1>1. u \in Tracker /\ Quiet(t, u)
  <2>1. CASE Contains(t, s)
    <3>1. Refused(t, u)
      BY <2>1, RegisterCreatedEffect
    <3> HIDE DEF u
    <3> QED BY <3>1, RefusedIsQuiet DEF Refused
  <2>2. CASE ~Contains(t, s)
    <3>1. /\ u \in Tracker /\ u.attached = t.attached
          /\ u.journal = IF t.attached
                         THEN Record(t.journal, s, "kCreated", "kNone", "none")
                         ELSE t.journal
      BY <2>2, RegisterCreatedEffect DEF Moved, RecordState
    <3> HIDE DEF u
    <3> QED BY <3>1, RecordIsQuiet
  <2> QED BY <2>1, <2>2
<1> HIDE DEF u
<1>2. Quiet(u, v)
  BY <1>1, MarkStateQuiet, StateTypes DEF MarkQueued
<1>3. RegisterQueued(t, s) = IF Ok(u) THEN v ELSE u
  BY DEF RegisterQueued, u
<1> QED BY <1>1, <1>2, <1>3, QuietTwice

\* ... and so is every other method that the pipeline and the gateway call.
LEMMA CallsAreQuiet ==
  ASSUME NEW t \in Tracker, NEW s \in SeqId,
         NEW reason \in RejectReason \ {"kNone"},
         NEW u \in {MarkSent(t, s), MarkExchangeAccepted(t, s),
                    MarkExchangeRejected(t, s, reason),
                    MarkCancelPending(t, s), MarkCancelled(t, s),
                    MarkCancelRejected(t, s, reason),
                    MarkAmendPending(t, s), MarkAmendAccepted(t, s),
                    MarkAmendRejected(t, s, reason)}
  PROVE  u \in Tracker /\ Quiet(t, u)
<1> DEFINE QuietCall(w) == w \in Tracker /\ Quiet(t, w)
<1>0. "kCancelled" \in OrderLifecycleState
  BY StateTypes
<1>1. /\ QuietCall(MarkSent(t, s)) /\ QuietCall(MarkExchangeAccepted(t, s))
      /\ QuietCall(MarkCancelPending(t, s)) /\ QuietCall(MarkCancelled(t, s))
      /\ QuietCall(MarkAmendPending(t, s))
  BY <1>0, MarkStateQuiet, StateTypes
  DEF MarkSent, MarkExchangeAccepted, MarkCancelPending, MarkCancelled,
      MarkAmendPending
<1>2. /\ QuietCall(MarkExchangeRejected(t, s, reason))
      /\ QuietCall(MarkCancelRejected(t, s, reason))
      /\ QuietCall(MarkAmendRejected(t, s, reason))
  BY MarkRejectedQuiet, StateTypes
  DEF MarkExchangeRejected, MarkCancelRejected, MarkAmendRejected
<1>3. QuietCall(MarkAmendAccepted(t, s))
  <2> DEFINE v == MarkState(t, s, "kAmendPending", "kExchangeAccepted",
                            "amends_accepted", "kAmendAccepted")
             w == MarkAmendAccepted(t, s)
  <2>1. v \in Tracker /\ Quiet(t, v)
    BY MarkStateQuiet, StateTypes
  <2>2. w = IF Ok(v) THEN [v EXCEPT !.records[s].reason["kAmend"] = "kNone"]
                     ELSE v
    BY DEF MarkAmendAccepted
  <2> HIDE DEF v
  <2>3. w.journal = v.journal /\ w.attached = v.attached
    BY <2>1, <2>2 DEF Tracker
  <2>4. w \in Tracker
    BY MarkAmendAcceptedSound DEF Sound
  <2> HIDE DEF w
  <2>5. QuietCall(w)
    BY <2>1, <2>3, <2>4 DEF Quiet
  <2> QED BY <2>5 DEF w
<1> HIDE DEF QuietCall
<1>4. QuietCall(u)
  BY <1>1, <1>2, <1>3
<1> QED BY <1>4 DEF QuietCall

============================================================================
