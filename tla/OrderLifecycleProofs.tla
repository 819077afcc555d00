------------------------ MODULE OrderLifecycleProofs ------------------------
(***************************************************************************)
(* Proofs about the order lifecycle tracker, its counters and its journal, *)
(* for every set of sequence ids and every sequence of calls: every call   *)
(* has a legal effect, replaying the journal gives the records, an order's *)
(* reports are a path of its state machine, reports are numbered, and the  *)
(* stages balance.                                                         *)
(***************************************************************************)
EXTENDS ReportText, OrderLifecycleLemmas, FiniteSetTheorems,
        WellFoundedInduction

----------------------------------------------------------------------------
(* The specification. *)

\* Every call, legal or not, is sound.
LEMMA NextSound == TypeOK /\ Next => Sound(tracker, tracker')
<1> SUFFICES ASSUME TypeOK, NEW s \in SeqId,
                    \/ CallRegister(s) \/ CallDispatch(s)
                    \/ CallCancel(s) \/ CallAmend(s)
             PROVE  Sound(tracker, tracker')
  BY DEF Next
<1>0. tracker \in Tracker
  BY DEF TypeOK
<1>1. \A source \in RejectSource : \A r \in Reasons[source] :
        r \in RejectReason
  BY ReasonsAssumption
<1>2. CASE CallRegister(s)
  BY <1>0, <1>2, RegisterCreatedSound, RegisterQueuedSound, MarkQueuedSound
  DEF CallRegister
<1>3. CASE CallDispatch(s)
  <2>1. ASSUME NEW r \in Reasons["kRisk"],
               tracker' = MarkRiskRejected(tracker, s, r)
        PROVE  Sound(tracker, tracker')
    BY <1>0, <1>1, <2>1, MarkRejectedSound, StateTypes DEF MarkRiskRejected
  <2>2. ASSUME NEW r \in Reasons["kExchange"],
               tracker' = MarkExchangeRejected(tracker, s, r)
        PROVE  Sound(tracker, tracker')
    BY <1>0, <1>1, <2>2, MarkRejectedSound, StateTypes
    DEF MarkExchangeRejected
  <2>3. CASE tracker' = MarkSent(tracker, s)
    BY <1>0, <2>3, MarkStateSound, StateTypes DEF MarkSent
  <2>4. CASE tracker' = MarkExchangeAccepted(tracker, s)
    BY <1>0, <2>4, MarkStateSound, StateTypes DEF MarkExchangeAccepted
  <2> QED BY <1>3, <2>1, <2>2, <2>3, <2>4 DEF CallDispatch
<1>4. CASE CallCancel(s)
  <2>1. ASSUME NEW r \in Reasons["kCancel"],
               tracker' = MarkCancelRejected(tracker, s, r)
        PROVE  Sound(tracker, tracker')
    BY <1>0, <1>1, <2>1, MarkRejectedSound, StateTypes DEF MarkCancelRejected
  <2>2. CASE tracker' = MarkCancelPending(tracker, s)
    BY <1>0, <2>2, MarkStateSound, StateTypes DEF MarkCancelPending
  <2>3. CASE tracker' = MarkCancelled(tracker, s)
    BY <1>0, <2>3, MarkStateSound, StateTypes DEF MarkCancelled
  <2> QED BY <1>4, <2>1, <2>2, <2>3 DEF CallCancel
<1>5. CASE CallAmend(s)
  <2>1. ASSUME NEW r \in Reasons["kAmend"],
               tracker' = MarkAmendRejected(tracker, s, r)
        PROVE  Sound(tracker, tracker')
    BY <1>0, <1>1, <2>1, MarkRejectedSound, StateTypes DEF MarkAmendRejected
  <2>2. CASE tracker' = MarkAmendPending(tracker, s)
    BY <1>0, <2>2, MarkStateSound, StateTypes DEF MarkAmendPending
  <2>3. CASE tracker' = MarkAmendAccepted(tracker, s)
    BY <1>0, <2>3, MarkAmendAcceptedSound
  <2> QED BY <1>5, <2>1, <2>2, <2>3 DEF CallAmend
<1> QED BY <1>2, <1>3, <1>4, <1>5

\* A new tracker has its types and no reason recorded.
LEMMA InitSound == Init => TypeOK /\ ReasonIffRejected
<1> SUFFICES ASSUME NEW attached \in BOOLEAN, tracker = NewTracker(attached)
             PROVE  TypeOK /\ ReasonIffRejected
  BY DEF Init
<1>1. NoRecord \in LifecycleRecord
  BY DEF NoRecord, LifecycleRecord, Absent, RejectReason, RiskRejectReason
<1>2. NewJournal \in Journal
  BY DEF NewJournal, Journal
<1>3. tracker \in Tracker
  BY <1>1, <1>2 DEF NewTracker, Tracker, LifecycleError
<1>4. \A s \in SeqId : tracker.records[s] = NoRecord
  BY DEF NewTracker
<1>5. /\ NoRecord.state = "absent"
      /\ NoRecord.reason["kRisk"] = "kNone"
      /\ NoRecord.reason["kExchange"] = "kNone"
  BY StateTypes DEF NoRecord, Absent
<1> QED BY <1>3, <1>4, <1>5 DEF TypeOK, ReasonIffRejected

\* The tracker's types hold whatever the client calls.
THEOREM TrackerTypes == Spec => []TypeOK
<1>1. TypeOK /\ [Next]_tracker => TypeOK'
  BY NextSound DEF TypeOK, Sound
<1> QED BY <1>1, InitSound, PTL DEF Spec

\* A risk (exchange) reject reason is recorded exactly for the orders the
\* risk manager (the exchange) rejected, whatever the client calls.
THEOREM ReasonsMatchStates == Spec => []ReasonIffRejected
<1>1. TypeOK /\ ReasonIffRejected /\ [Next]_tracker
        => TypeOK' /\ ReasonIffRejected'
  BY NextSound DEF TypeOK, Sound, ReasonIffRejected, ReasonOK
<1> QED BY <1>1, InitSound, PTL DEF Spec

\* A refused call changes no record and reports nothing, and a terminal
\* order's record is final.
THEOREM CallsHaveLegalEffects == Spec => OnlyLegalEffects
<1> DEFINE Legal == /\ ~Ok(tracker') => /\ tracker'.records = tracker.records
                                        /\ tracker'.journal = tracker.journal
                    /\ \A s \in SeqId : StateOf(tracker, s) \in Terminal =>
                         tracker'.records[s] = tracker.records[s]
<1>1. TypeOK /\ [Next]_tracker => [Legal]_tracker
  BY NextSound DEF Sound, LegalEffect
<1> QED BY <1>1, TrackerTypes, PTL DEF Spec, OnlyLegalEffects

----------------------------------------------------------------------------
(* What a call reports. *)

\* The source whose reject reason a report sets or clears.
Concerns(source, reject_source, type) ==
  reject_source = source \/ (source = "kAmend" /\ type = "kAmendAccepted")

\* The type of the report of a rejection, by its source.
RejectedType == [kRisk |-> "kRiskRejected", kExchange |-> "kExchangeRejected",
                 kCancel |-> "kCancelRejected", kAmend |-> "kAmendRejected"]

\* A report of that type names the source and gives a reason, and any other
\* report does neither.
TellsRejection(type, reject_source, text) ==
  \/ /\ reject_source = "kNone" /\ text = "none"
     /\ \A source \in RejectSource : type # RejectedType[source]
  \/ /\ reject_source \in RejectSource /\ text # "none"
     /\ type = RejectedType[reject_source]

\* The call from t to u moved order s as the report it made says.
Reported(t, u, s, type, reject_source, text) ==
  /\ TellsRejection(type, reject_source, text)
  /\ type \in LegalNext[StateOf(t, s)]
  /\ \A r \in SeqId \ {s} : u.records[r] = t.records[r]
  /\ u.records[s].state = StateAfter[type]
  /\ \A source \in RejectSource :
       IF Concerns(source, reject_source, type)
       THEN ReasonString[source][u.records[s].reason[source]] = text
       ELSE u.records[s].reason[source] = t.records[s].reason[source]
  /\ u.attached = t.attached
  /\ u.journal = IF t.attached
                 THEN Record(t.journal, s, type, reject_source, text)
                 ELSE t.journal

\* Every move there is: from, to, and the counter it bumps.
Moves ==
  {<<"absent", "kCreated", "orders_registered">>,
   <<"kCreated", "kQueued", "orders_queued">>,
   <<"kQueued", "kRiskRejected", "orders_risk_rejected">>,
   <<"kQueued", "kSent", "orders_sent">>,
   <<"kSent", "kExchangeAccepted", "orders_exchange_accepted">>,
   <<"kSent", "kExchangeRejected", "orders_exchange_rejected">>,
   <<"kExchangeAccepted", "kCancelPending", "cancel_requests">>,
   <<"kCancelPending", "kCancelled", "cancels_accepted">>,
   <<"kCancelPending", "kExchangeAccepted", "cancels_rejected">>,
   <<"kExchangeAccepted", "kAmendPending", "amend_requests">>,
   <<"kAmendPending", "kExchangeAccepted", "amends_accepted">>,
   <<"kAmendPending", "kExchangeAccepted", "amends_rejected">>}

\* The call from t to u made the move from -> next and reported it.
Made(t, u, s, from, next, counter) ==
  /\ StateOf(t, s) = from
  /\ Moved(t, u, s, next, {counter})
  /\ \E type \in ExecutionReportType,
        reject_source \in RejectSource \cup {"kNone"}, text \in ReasonText :
       Reported(t, u, s, type, reject_source, text)

\* A call is refused, or makes one of the moves.
OneStep(t, u) ==
  \/ Refused(t, u)
  \/ \E s \in SeqId, m \in Moves : Made(t, u, s, m[1], m[2], m[3])

\* What the report types, the moves and the states are, for the provers that
\* need their elements.
LEMMA MoveTypes ==
  /\ \A m \in Moves : /\ m[3] \in CallCounter
                      /\ m[2] \in OrderLifecycleState
                      /\ m[1] \in OrderLifecycleState \/ m[1] = Absent
  /\ \A type \in ExecutionReportType : StateAfter[type] # Absent
<1>1. \A m \in Moves : m[3] \in CallCounter
  BY DEF Moves, CallCounter, TrackerCounter
<1>2. \A m \in Moves : m[2] \in OrderLifecycleState
  BY DEF Moves, OrderLifecycleState
<1>3. \A m \in Moves : m[1] \in OrderLifecycleState \/ m[1] = Absent
  BY DEF Moves, OrderLifecycleState, Absent
<1>4. \A type \in ExecutionReportType : StateAfter[type] # Absent
  BY DEF ExecutionReportType, StateAfter, Absent
<1> QED BY <1>1, <1>2, <1>3, <1>4

\* What each switch has cases for.
LEMMA Conversions ==
  /\ DOMAIN Conversion["kRisk"] = RiskRejectReason
  /\ DOMAIN Conversion["kExchange"] = OrderRejectReason
  /\ DOMAIN Conversion["kCancel"] = CancelRejectReason
  /\ DOMAIN Conversion["kAmend"] = AmendRejectReason
  /\ \A source \in RejectSource :
       /\ DOMAIN Conversion[source] \subseteq RejectReason
       /\ "kNone" \in DOMAIN Conversion[source]
       /\ Conversion[source]["kNone"] = "none"
BY DEF Conversion, RiskReasonString, OrderReasonString, CancelReasonString,
       AmendReasonString, RejectSource, RejectReason, RiskRejectReason,
       OrderRejectReason, CancelRejectReason, AmendRejectReason

\* A reason is told by its text.
LEMMA ReasonIsTold ==
  \A source \in RejectSource, r \in RejectReason \ {"kNone"} :
    ReasonString[source][r] # "none"
<1> SUFFICES ASSUME NEW source \in RejectSource,
                    NEW r \in RejectReason \ {"kNone"}
             PROVE  ReasonString[source][r] # "none"
  OBVIOUS
<1>1. CASE r \notin DOMAIN Conversion[source]
  BY <1>1 DEF ReasonString
<1>2. CASE r \in DOMAIN Conversion[source]
  <2>1. ReasonString[source][r] = Conversion[source][r]
    BY <1>2 DEF ReasonString
  <2>2. Conversion[source][r] # "none"
    BY <1>2, Conversions
       DEF Conversion, RiskReasonString, OrderReasonString,
           CancelReasonString, AmendReasonString, RejectSource,
           RiskRejectReason, OrderRejectReason, CancelRejectReason,
           AmendRejectReason
  <2> QED BY <2>1, <2>2
<1> QED BY <1>1, <1>2

\* The four switches agree on what they share and tell the rest apart.
LEMMA SwitchesAgree ==
  \A a, b \in RejectSource :
    \A x \in DOMAIN Conversion[a], y \in DOMAIN Conversion[b] :
      ReasonString[a][x] = ReasonString[b][y] <=> x = y
<1>1. \A a \in RejectSource, x \in RejectReason :
        x \in DOMAIN Conversion[a] =>
          ReasonString[a][x] =
            [kNone |-> "none", kInvalidSymbol |-> "invalid_symbol",
             kInvalidPrice |-> "invalid_price",
             kInvalidQuantity |-> "invalid_quantity",
             kQuantityLimit |-> "quantity_limit",
             kNotionalLimit |-> "notional_limit",
             kSymbolNotAllowed |-> "symbol_not_allowed",
             kDuplicateSequence |-> "duplicate_sequence",
             kUnknownOrder |-> "unknown_order",
             kInvalidState |-> "invalid_state"][x]
  <2> SUFFICES ASSUME NEW a \in RejectSource, NEW x \in RejectReason,
                      x \in DOMAIN Conversion[a]
               PROVE  Conversion[a][x] =
            [kNone |-> "none", kInvalidSymbol |-> "invalid_symbol",
             kInvalidPrice |-> "invalid_price",
             kInvalidQuantity |-> "invalid_quantity",
             kQuantityLimit |-> "quantity_limit",
             kNotionalLimit |-> "notional_limit",
             kSymbolNotAllowed |-> "symbol_not_allowed",
             kDuplicateSequence |-> "duplicate_sequence",
             kUnknownOrder |-> "unknown_order",
             kInvalidState |-> "invalid_state"][x]
    BY DEF ReasonString
  <2> QED BY Conversions
          DEF Conversion, RiskReasonString, OrderReasonString,
              CancelReasonString, AmendReasonString, RejectSource,
              RiskRejectReason, OrderRejectReason, CancelRejectReason,
              AmendRejectReason
<1>2. \A a \in RejectSource : DOMAIN Conversion[a] \subseteq RejectReason
  BY Conversions
<1> QED BY <1>1, <1>2
        DEF RejectReason, RiskRejectReason, OrderRejectReason,
            CancelRejectReason, AmendRejectReason

\* The reports of what is not a rejection.
LEMMA PlainTypes ==
  \A type \in {"kCreated", "kQueued", "kSent", "kExchangeAccepted",
               "kCancelPending", "kCancelled", "kAmendPending",
               "kAmendAccepted"} :
    TellsRejection(type, "kNone", "none")
BY DEF TellsRejection, RejectSource, RejectedType

\* The report of a plain transition concerns no reject reason.
LEMMA NothingRejected ==
  /\ "none" \in ReasonText /\ "kNone" \in RejectSource \cup {"kNone"}
  /\ \A source \in RejectSource : ReasonString[source]["kNone"] = "none"
  /\ "kNone" \in RejectReason
  /\ \A source \in RejectSource : \A type :
       type # "kAmendAccepted" => ~Concerns(source, "kNone", type)
<1>1. "kNone" \notin RejectSource
  BY DEF RejectSource
<1>2. /\ "kNone" \in RejectReason
      /\ \A source \in RejectSource : ReasonString[source]["kNone"] = "none"
  <2>1. "kNone" \in RejectReason
    BY DEF RejectReason, RiskRejectReason
  <2> QED BY <2>1, Conversions DEF ReasonString
<1> QED BY <1>1, <1>2, ReasonTextType DEF Concerns

\* A step named by its move, not by a member of Moves.
LEMMA MadeIsOneStep ==
  ASSUME NEW t, NEW u, NEW s \in SeqId, NEW from, NEW next, NEW counter,
         <<from, next, counter>> \in Moves, Made(t, u, s, from, next, counter)
  PROVE  OneStep(t, u)
<1> DEFINE m == <<from, next, counter>>
<1>1. m \in Moves /\ m[1] = from /\ m[2] = next /\ m[3] = counter
  OBVIOUS
<1> HIDE DEF m
<1> QED BY <1>1 DEF OneStep

\* A method that moves an order and rejects nothing makes one step.
LEMMA MarkStateStep ==
  ASSUME NEW t \in Tracker, NEW s \in SeqId,
         NEW expected \in OrderLifecycleState,
         NEW next \in OrderLifecycleState, NEW counter,
         NEW type \in ExecutionReportType,
         <<expected, next, counter>> \in Moves,
         type \in LegalNext[expected], next = StateAfter[type],
         type # "kAmendAccepted", TellsRejection(type, "kNone", "none")
  PROVE  OneStep(t, MarkState(t, s, expected, next, counter, type))
<1> DEFINE u == MarkState(t, s, expected, next, counter, type)
<1>1. IF StateOf(t, s) = expected THEN Moved(t, u, s, next, {counter})
                                  ELSE Refused(t, u)
  BY MarkStateEffect
<1>2. CASE StateOf(t, s) # expected
  BY <1>1, <1>2 DEF OneStep
<1>3. CASE StateOf(t, s) = expected
  <2>1. /\ u.records = [t.records EXCEPT ![s].state = next]
        /\ u.attached = t.attached
        /\ u.journal = IF t.attached THEN RecordState(t.journal, s, type)
                                     ELSE t.journal
    BY <1>3, MarkStateWrites
  <2> HIDE DEF u
  <2>2. t.records \in [SeqId -> LifecycleRecord]
    BY DEF Tracker
  <2>3. /\ \A r \in SeqId \ {s} : u.records[r] = t.records[r]
        /\ u.records[s] = [t.records[s] EXCEPT !.state = next]
    BY <2>1, <2>2
  <2>4. u.records[s].state = next /\ u.records[s].reason = t.records[s].reason
    BY <2>2, <2>3 DEF LifecycleRecord
  <2>5. Reported(t, u, s, type, "kNone", "none")
    BY <1>3, <2>1, <2>3, <2>4, NothingRejected DEF Reported, RecordState
  <2>6. Made(t, u, s, expected, next, counter)
    BY <1>1, <1>3, <2>5, NothingRejected DEF Made
  <2> QED BY <2>6, MadeIsOneStep DEF u
<1> QED BY <1>2, <1>3

\* So does a method that moves an order because of a rejection.
LEMMA MarkRejectedStep ==
  ASSUME NEW t \in Tracker, NEW s \in SeqId,
         NEW expected \in OrderLifecycleState,
         NEW next \in OrderLifecycleState, NEW counter,
         NEW source \in RejectSource, NEW reason \in RejectReason,
         NEW type,
         type = [kRisk |-> "kRiskRejected", kExchange |-> "kExchangeRejected",
                 kCancel |-> "kCancelRejected",
                 kAmend |-> "kAmendRejected"][source],
         <<expected, next, counter>> \in Moves,
         type \in LegalNext[expected], next = StateAfter[type]
  PROVE  OneStep(t, MarkRejected(t, s, expected, next, counter, source,
                                 reason))
<1> DEFINE u == MarkRejected(t, s, expected, next, counter, source, reason)
<1>0. CASE reason = "kNone"
  <2>1. "kInvalidTransition" \in LifecycleError \ {"kNone"}
    BY DEF LifecycleError
  <2> QED BY <1>0, <2>1, FailRefuses DEF MarkRejected, OneStep
<1>1. ASSUME reason # "kNone"
      PROVE  IF StateOf(t, s) = expected THEN Moved(t, u, s, next, {counter})
                                         ELSE Refused(t, u)
  BY <1>1, MarkRejectedEffect
<1>2. CASE reason # "kNone" /\ StateOf(t, s) # expected
  BY <1>1, <1>2 DEF OneStep
<1>3. CASE reason # "kNone" /\ StateOf(t, s) = expected
  <2> DEFINE rec == [state |-> next,
                     reason |-> [t.records[s].reason EXCEPT ![source] = reason]]
  <2>0. Moved(t, u, s, next, {counter})
    BY <1>1, <1>3
  <2>1. /\ u.records = [t.records EXCEPT ![s] = rec]
        /\ u.attached = t.attached
        /\ u.journal = IF t.attached
                       THEN RecordRejected(t.journal, s, source, reason)
                       ELSE t.journal
    BY <1>3, MarkRejectedWrites
  <2>2. t.records \in [SeqId -> LifecycleRecord]
    BY DEF Tracker
  <2>3. t.records[s].reason \in [RejectSource -> RejectReason]
    BY <2>2 DEF LifecycleRecord
  <2>4. /\ type \in ExecutionReportType /\ type # "kAmendAccepted"
        /\ RecordRejected(t.journal, s, source, reason)
             = Record(t.journal, s, type, source, ReasonString[source][reason])
    BY DEF RejectSource, ExecutionReportType, RecordRejected
  <2> HIDE DEF u, rec
  <2>5. /\ \A r \in SeqId \ {s} : u.records[r] = t.records[r]
        /\ u.records[s] = rec
    BY <2>1, <2>2
  <2>6. /\ rec.state = next /\ rec.reason[source] = reason
        /\ \A o \in RejectSource \ {source} :
             rec.reason[o] = t.records[s].reason[o]
    BY <2>3 DEF rec
  <2>7. \A o \in RejectSource : Concerns(o, source, type) <=> o = source
    BY <2>4 DEF Concerns
  <2>r. TellsRejection(type, source, ReasonString[source][reason])
    BY <1>3, ReasonIsTold DEF TellsRejection, RejectedType
  <2>8. Reported(t, u, s, type, source, ReasonString[source][reason])
    BY <1>3, <2>1, <2>4, <2>5, <2>6, <2>7, <2>r DEF Reported
  <2>9. Made(t, u, s, expected, next, counter)
    BY <1>3, <2>0, <2>4, <2>8, ReasonTextType DEF Made
  <2> QED BY <2>9, MadeIsOneStep DEF u
<1> QED BY <1>0, <1>2, <1>3

\* An id that was never used has an empty record.
NewIfAbsent(t) ==
  \A s \in SeqId : StateOf(t, s) = Absent => t.records[s] = NoRecord

\* Registration makes one step from a tracker whose absent records are empty.
LEMMA RegisterCreatedStep ==
  ASSUME NEW t \in Tracker, NewIfAbsent(t), NEW s \in SeqId
  PROVE  OneStep(t, RegisterCreated(t, s))
<1> DEFINE u == RegisterCreated(t, s)
           rec == [NoRecord EXCEPT !.state = "kCreated"]
<1>1. CASE Contains(t, s)
  BY <1>1, RegisterCreatedEffect DEF OneStep
<1>2. CASE ~Contains(t, s)
  <2>1. /\ Moved(t, u, s, "kCreated", {"orders_registered"})
        /\ u.records = [t.records EXCEPT ![s] = rec]
        /\ u.attached = t.attached
        /\ u.journal = IF t.attached THEN RecordState(t.journal, s, "kCreated")
                                     ELSE t.journal
    BY <1>2, RegisterCreatedEffect
  <2> HIDE DEF u
  <2>2. rec.state = "kCreated" /\ rec.reason = NoRecord.reason
    BY DEF NoRecord
  <2> HIDE DEF rec
  <2>3. t.records \in [SeqId -> LifecycleRecord] /\ t.records[s] = NoRecord
        /\ StateOf(t, s) = Absent
    BY <1>2 DEF Tracker, NewIfAbsent, Contains, StateOf
  <2>4. /\ \A r \in SeqId \ {s} : u.records[r] = t.records[r]
        /\ u.records[s].state = "kCreated"
        /\ u.records[s].reason = t.records[s].reason
    BY <2>1, <2>2, <2>3
  <2>5. /\ "kCreated" \in LegalNext[Absent]
        /\ "kCreated" = StateAfter["kCreated"]
        /\ "kCreated" \in ExecutionReportType
        /\ <<Absent, "kCreated", "orders_registered">> \in Moves
    BY DEF LegalNext, Absent, StateAfter, ExecutionReportType, Moves
  <2>6. Reported(t, u, s, "kCreated", "kNone", "none")
    BY <2>1, <2>3, <2>4, <2>5, NothingRejected, PlainTypes
    DEF Reported, RecordState
  <2>7. Made(t, u, s, Absent, "kCreated", "orders_registered")
    BY <2>1, <2>3, <2>5, <2>6, NothingRejected DEF Made
  <2> QED BY <2>5, <2>7, MadeIsOneStep DEF u
<1> QED BY <1>1, <1>2

\* An accepted amendment is one step, which also clears a reject reason.
LEMMA MarkAmendAcceptedStep ==
  ASSUME NEW t \in Tracker, NEW s \in SeqId
  PROVE  OneStep(t, MarkAmendAccepted(t, s))
<1> DEFINE v == MarkState(t, s, "kAmendPending", "kExchangeAccepted",
                          "amends_accepted", "kAmendAccepted")
           u == [v EXCEPT !.records[s].reason["kAmend"] = "kNone"]
<1>1. /\ {"kAmendPending", "kExchangeAccepted"} \subseteq OrderLifecycleState
      /\ "kAmendAccepted" \in ExecutionReportType
      /\ "kAmendAccepted" \in LegalNext["kAmendPending"]
      /\ StateAfter["kAmendAccepted"] = "kExchangeAccepted"
      /\ <<"kAmendPending", "kExchangeAccepted", "amends_accepted">> \in Moves
  BY DEF OrderLifecycleState, ExecutionReportType, LegalNext, StateAfter, Moves
<1>2. IF StateOf(t, s) = "kAmendPending"
      THEN Moved(t, v, s, "kExchangeAccepted", {"amends_accepted"})
      ELSE Refused(t, v)
  BY <1>1, MarkStateEffect
<1>3. CASE StateOf(t, s) # "kAmendPending"
  BY <1>2, <1>3 DEF MarkAmendAccepted, OneStep, Refused
<1>4. CASE StateOf(t, s) = "kAmendPending"
  <2>1. /\ v.records = [t.records EXCEPT ![s].state = "kExchangeAccepted"]
        /\ v.attached = t.attached
        /\ v.journal = IF t.attached
                       THEN RecordState(t.journal, s, "kAmendAccepted")
                       ELSE t.journal
    BY <1>1, <1>4, MarkStateWrites
  <2>2. MarkAmendAccepted(t, s) = u
    BY <1>2, <1>4 DEF MarkAmendAccepted, Moved
  <2>3. v \in Tracker
    BY <1>2, <1>4 DEF Moved
  <2> HIDE DEF v
  <2>4. /\ u.records = [v.records EXCEPT ![s].reason["kAmend"] = "kNone"]
        /\ u.journal = v.journal /\ u.attached = v.attached
    BY <2>3 DEF Tracker
  <2>5. /\ t.records \in [SeqId -> LifecycleRecord]
        /\ v.records \in [SeqId -> LifecycleRecord]
    BY <2>3 DEF Tracker
  <2>6. v.records[s] = [state |-> "kExchangeAccepted",
                        reason |-> t.records[s].reason]
    <3>1. v.records[s] = [t.records[s] EXCEPT !.state = "kExchangeAccepted"]
      BY <2>1, <2>5
    <3>2. t.records[s] \in LifecycleRecord
      BY <2>5
    <3> QED BY <3>1, <3>2 DEF LifecycleRecord
  <2>7. u.records[s] = [state |-> "kExchangeAccepted",
                        reason |-> [t.records[s].reason EXCEPT
                                      !["kAmend"] = "kNone"]]
    <3>1. u.records[s] = [v.records[s] EXCEPT !.reason["kAmend"] = "kNone"]
      BY <2>4, <2>5
    <3> QED BY <2>6, <3>1
  <2>8. t.records[s].reason \in [RejectSource -> RejectReason]
    BY <2>5 DEF LifecycleRecord
  <2>9. /\ \A r \in SeqId \ {s} : u.records[r] = t.records[r]
        /\ u.records[s].state = "kExchangeAccepted"
        /\ u.records[s].reason["kAmend"] = "kNone"
        /\ \A o \in RejectSource \ {"kAmend"} :
             u.records[s].reason[o] = t.records[s].reason[o]
    <3>1. \A r \in SeqId \ {s} : /\ u.records[r] = v.records[r]
                                 /\ v.records[r] = t.records[r]
      BY <2>1, <2>4, <2>5
    <3>2. "kAmend" \in RejectSource
      BY DEF RejectSource
    <3> HIDE DEF u
    <3> QED BY <2>7, <2>8, <3>1, <3>2
  <2>10. Moved(t, u, s, "kExchangeAccepted", {"amends_accepted"})
    BY <1>4, <2>2, MarkAmendAcceptedEffect
  <2> HIDE DEF u
  <2>11. \A o \in RejectSource :
           Concerns(o, "kNone", "kAmendAccepted") <=> o = "kAmend"
    BY DEF Concerns, RejectSource
  <2>12. Reported(t, u, s, "kAmendAccepted", "kNone", "none")
    BY <1>1, <1>4, <2>1, <2>4, <2>9, <2>11, NothingRejected, PlainTypes
    DEF Reported, RecordState
  <2>13. Made(t, u, s, "kAmendPending", "kExchangeAccepted",
              "amends_accepted")
    BY <1>1, <1>4, <2>10, <2>12, NothingRejected DEF Made
  <2> QED BY <1>1, <2>2, <2>13, MadeIsOneStep
<1> QED BY <1>3, <1>4

\* Every call makes one step, or - RegisterQueued - two.
LEMMA NextSteps ==
  ASSUME TypeOK, NewIfAbsent(tracker), Next
  PROVE  \/ OneStep(tracker, tracker')
         \/ \E mid \in Tracker :
              OneStep(tracker, mid) /\ OneStep(mid, tracker')
<1> DEFINE Goal == \/ OneStep(tracker, tracker')
                   \/ \E mid \in Tracker :
                        OneStep(tracker, mid) /\ OneStep(mid, tracker')
<1>0. tracker \in Tracker
  BY DEF TypeOK
<1> SUFFICES ASSUME NEW s \in SeqId,
                    \/ CallRegister(s) \/ CallDispatch(s)
                    \/ CallCancel(s) \/ CallAmend(s)
             PROVE  Goal
  BY DEF Next
<1>1. \A source \in RejectSource : \A r \in Reasons[source] :
        r \in RejectReason
  BY ReasonsAssumption
<1>m. \A t \in Tracker : OneStep(t, MarkQueued(t, s))
  <2>1. /\ <<"kCreated", "kQueued", "orders_queued">> \in Moves
        /\ "kQueued" \in LegalNext["kCreated"] \cap ExecutionReportType
        /\ StateAfter["kQueued"] = "kQueued"
    BY DEF Moves, LegalNext, ExecutionReportType, StateAfter
  <2> QED BY <2>1, MarkStateStep, StateTypes, PlainTypes
          DEF MarkQueued
<1>2. CASE CallRegister(s)
  <2>1. CASE tracker' = RegisterCreated(tracker, s)
    BY <1>0, <2>1, RegisterCreatedStep
  <2>2. CASE tracker' = MarkQueued(tracker, s)
    BY <1>0, <1>m, <2>2
  <2>3. CASE tracker' = RegisterQueued(tracker, s)
    <3> DEFINE mid == RegisterCreated(tracker, s)
    <3>1. mid \in Tracker
      BY <1>0, RegisterCreatedSound DEF Sound
    <3>2. OneStep(tracker, mid)
      BY <1>0, RegisterCreatedStep
    <3>3. tracker' = IF Ok(mid) THEN MarkQueued(mid, s) ELSE mid
      BY <2>3 DEF RegisterQueued
    <3> HIDE DEF mid
    <3>4. OneStep(mid, MarkQueued(mid, s))
      BY <1>m, <3>1
    <3> QED BY <3>1, <3>2, <3>3, <3>4
  <2> QED BY <1>2, <2>1, <2>2, <2>3 DEF CallRegister
<1>3. CASE CallDispatch(s)
  <2>1. ASSUME NEW r \in Reasons["kRisk"],
               tracker' = MarkRiskRejected(tracker, s, r)
        PROVE  Goal
    <3>1. /\ <<"kQueued", "kRiskRejected", "orders_risk_rejected">> \in Moves
          /\ "kRiskRejected" \in LegalNext["kQueued"]
          /\ StateAfter["kRiskRejected"] = "kRiskRejected"
      BY DEF Moves, LegalNext, StateAfter
    <3> QED BY <1>0, <1>1, <2>1, <3>1, MarkRejectedStep, StateTypes
            DEF MarkRiskRejected
  <2>2. ASSUME NEW r \in Reasons["kExchange"],
               tracker' = MarkExchangeRejected(tracker, s, r)
        PROVE  Goal
    <3>1. /\ <<"kSent", "kExchangeRejected", "orders_exchange_rejected">>
               \in Moves
          /\ "kExchangeRejected" \in LegalNext["kSent"]
          /\ StateAfter["kExchangeRejected"] = "kExchangeRejected"
      BY DEF Moves, LegalNext, StateAfter
    <3> QED BY <1>0, <1>1, <2>2, <3>1, MarkRejectedStep, StateTypes
            DEF MarkExchangeRejected
  <2>3. CASE tracker' = MarkSent(tracker, s)
    <3>1. /\ <<"kQueued", "kSent", "orders_sent">> \in Moves
          /\ "kSent" \in LegalNext["kQueued"] \cap ExecutionReportType
          /\ StateAfter["kSent"] = "kSent"
      BY DEF Moves, LegalNext, ExecutionReportType, StateAfter
    <3> QED BY <1>0, <2>3, <3>1, MarkStateStep, StateTypes, PlainTypes
            DEF MarkSent
  <2>4. CASE tracker' = MarkExchangeAccepted(tracker, s)
    <3>1. /\ <<"kSent", "kExchangeAccepted", "orders_exchange_accepted">>
               \in Moves
          /\ "kExchangeAccepted" \in LegalNext["kSent"] \cap ExecutionReportType
          /\ StateAfter["kExchangeAccepted"] = "kExchangeAccepted"
      BY DEF Moves, LegalNext, ExecutionReportType, StateAfter
    <3> QED BY <1>0, <2>4, <3>1, MarkStateStep, StateTypes, PlainTypes
            DEF MarkExchangeAccepted
  <2> QED BY <1>3, <2>1, <2>2, <2>3, <2>4 DEF CallDispatch
<1>4. CASE CallCancel(s)
  <2>1. ASSUME NEW r \in Reasons["kCancel"],
               tracker' = MarkCancelRejected(tracker, s, r)
        PROVE  Goal
    <3>1. /\ <<"kCancelPending", "kExchangeAccepted", "cancels_rejected">>
               \in Moves
          /\ "kCancelRejected" \in LegalNext["kCancelPending"]
          /\ StateAfter["kCancelRejected"] = "kExchangeAccepted"
      BY DEF Moves, LegalNext, StateAfter
    <3> QED BY <1>0, <1>1, <2>1, <3>1, MarkRejectedStep, StateTypes
            DEF MarkCancelRejected
  <2>2. CASE tracker' = MarkCancelPending(tracker, s)
    <3>1. /\ <<"kExchangeAccepted", "kCancelPending", "cancel_requests">>
               \in Moves
          /\ "kCancelPending"
               \in LegalNext["kExchangeAccepted"] \cap ExecutionReportType
          /\ StateAfter["kCancelPending"] = "kCancelPending"
      BY DEF Moves, LegalNext, ExecutionReportType, StateAfter
    <3> QED BY <1>0, <2>2, <3>1, MarkStateStep, StateTypes, PlainTypes
            DEF MarkCancelPending
  <2>3. CASE tracker' = MarkCancelled(tracker, s)
    <3>1. /\ <<"kCancelPending", "kCancelled", "cancels_accepted">> \in Moves
          /\ "kCancelled"
               \in LegalNext["kCancelPending"] \cap ExecutionReportType
          /\ StateAfter["kCancelled"] = "kCancelled"
      BY DEF Moves, LegalNext, ExecutionReportType, StateAfter
    <3> QED BY <1>0, <2>3, <3>1, MarkStateStep, StateTypes, PlainTypes
            DEF MarkCancelled
  <2> QED BY <1>4, <2>1, <2>2, <2>3 DEF CallCancel
<1>5. CASE CallAmend(s)
  <2>1. ASSUME NEW r \in Reasons["kAmend"],
               tracker' = MarkAmendRejected(tracker, s, r)
        PROVE  Goal
    <3>1. /\ <<"kAmendPending", "kExchangeAccepted", "amends_rejected">>
               \in Moves
          /\ "kAmendRejected" \in LegalNext["kAmendPending"]
          /\ StateAfter["kAmendRejected"] = "kExchangeAccepted"
      BY DEF Moves, LegalNext, StateAfter
    <3> QED BY <1>0, <1>1, <2>1, <3>1, MarkRejectedStep, StateTypes
            DEF MarkAmendRejected
  <2>2. CASE tracker' = MarkAmendPending(tracker, s)
    <3>1. /\ <<"kExchangeAccepted", "kAmendPending", "amend_requests">>
               \in Moves
          /\ "kAmendPending"
               \in LegalNext["kExchangeAccepted"] \cap ExecutionReportType
          /\ StateAfter["kAmendPending"] = "kAmendPending"
      BY DEF Moves, LegalNext, ExecutionReportType, StateAfter
    <3> QED BY <1>0, <2>2, <3>1, MarkStateStep, StateTypes, PlainTypes
            DEF MarkAmendPending
  <2>3. CASE tracker' = MarkAmendAccepted(tracker, s)
    BY <1>0, <2>3, MarkAmendAcceptedStep
  <2> QED BY <1>5, <2>1, <2>2, <2>3 DEF CallAmend
<1> QED BY <1>2, <1>3, <1>4, <1>5

----------------------------------------------------------------------------
(* What a report does to the journal. *)

\* A report made later than all of R is the last of them.
LEMMA LastAdded ==
  ASSUME NEW n \in Nat, NEW R \in SUBSET (1..n)
  PROVE  \A i : IsLast(i, R \cup {n + 1}) <=> i = n + 1
<1>1. ASSUME NEW i, IsLast(i, R \cup {n + 1})
      PROVE  i = n + 1
  <2>1. (i \in 1..n \/ i = n + 1) /\ n + 1 <= i
    BY <1>1 DEF IsLast
  <2> QED BY <2>1
<1>2. IsLast(n + 1, R \cup {n + 1})
  BY DEF IsLast
<1> QED BY <1>1, <1>2

\* What holds of a tracker whose journal has been attached from the start.
Journalled(t) ==
  t.attached =>
    /\ \A s \in SeqId : StateOf(t, s) = Absent => ReportsFor(t.journal, s) = {}
    /\ ReplayGivesState(t)
    /\ ReplayGivesReasons(t)
    /\ ReplayIsLegal(t)

\* A report keeps the journal a replay of the records.
LEMMA ReportKeepsJournalled ==
  ASSUME NEW t \in Tracker, NEW u \in Tracker, NEW s \in SeqId,
         NEW type \in ExecutionReportType,
         NEW reject_source \in RejectSource \cup {"kNone"},
         NEW text \in ReasonText,
         Reported(t, u, s, type, reject_source, text),
         Journalled(t), t.attached
  PROVE  Journalled(u)
<1> DEFINE j == t.journal
           k == u.journal
           n == Len(j.reports)
<1>0. j \in Journal
  BY DEF Tracker
<1>1. /\ type \in LegalNext[StateOf(t, s)]
      /\ \A r \in SeqId \ {s} : u.records[r] = t.records[r]
      /\ u.records[s].state = StateAfter[type]
      /\ \A source \in RejectSource :
           IF Concerns(source, reject_source, type)
           THEN ReasonString[source][u.records[s].reason[source]] = text
           ELSE u.records[s].reason[source] = t.records[s].reason[source]
      /\ u.attached
      /\ k = Record(j, s, type, reject_source, text)
  BY DEF Reported
<1>2. /\ \A r \in SeqId : StateOf(t, r) = Absent => ReportsFor(j, r) = {}
      /\ ReplayGivesState(t) /\ ReplayGivesReasons(t) /\ ReplayIsLegal(t)
  BY DEF Journalled
<1> DEFINE report == [event_index |-> j.next_event_index, sequence_id |-> s,
                      type |-> type, reject_source |-> reject_source,
                      reject_reason |-> text]
<1>3. /\ n \in Nat /\ Len(k.reports) = n + 1
      /\ \A i \in 1..n : k.reports[i] = j.reports[i]
      /\ k.reports[n + 1] = report
      /\ \A r \in SeqId :
           /\ ReportsFor(j, r) \subseteq 1..n
           /\ ReportsFor(k, r) = IF r = s THEN ReportsFor(j, r) \cup {n + 1}
                                          ELSE ReportsFor(j, r)
  <2>1. Appends(j, Record(j, s, type, reject_source, text), report)
    BY <1>0, RecordAppends
  <2>2. Appends(j, k, report) /\ report.sequence_id = s
    BY <1>1, <2>1
  <2> HIDE DEF j, k, report
  <2> QED BY <2>2 DEF Appends
<1>4. /\ report.type = type /\ report.reject_source = reject_source
      /\ report.reject_reason = text
  OBVIOUS
<1> HIDE DEF j, k, n, report
<1>5. /\ n + 1 \notin 1..n
      /\ \A R \in SUBSET (1..n) : \A i : IsLast(i, R \cup {n + 1}) <=> i = n + 1
  <2>1. ASSUME NEW R \in SUBSET (1..n)
        PROVE  \A i : IsLast(i, R \cup {n + 1}) <=> i = n + 1
    BY <1>3, LastAdded
  <2>2. n + 1 \notin 1..n
    BY <1>3
  <2> QED BY <2>1, <2>2
<1>6. \A r \in SeqId : StateOf(u, r) = Absent => ReportsFor(k, r) = {}
  BY <1>1, <1>2, <1>3, MoveTypes DEF StateOf
<1>7. ReplayGivesState(u)
  <2> SUFFICES ASSUME NEW r \in SeqId
               PROVE  /\ ReportsFor(k, r) = {} => u.records[r].state = Absent
                      /\ \A i \in ReportsFor(k, r) : IsLast(i, ReportsFor(k, r))
                           => u.records[r].state = StateAfter[k.reports[i].type]
    BY DEF ReplayGivesState, k
  <2>1. CASE r = s
    <3>1. ReportsFor(k, r) = ReportsFor(j, r) \cup {n + 1}
      BY <1>3, <2>1
    <3>2. \A i \in ReportsFor(k, r) :
            IsLast(i, ReportsFor(k, r)) => i = n + 1
      BY <1>3, <1>5, <3>1
    <3>3. u.records[r].state = StateAfter[type] /\ k.reports[n + 1].type = type
      BY <1>1, <1>3, <1>4, <2>1
    <3> QED BY <3>1, <3>2, <3>3
  <2>2. CASE r # s
    <3>1. /\ u.records[r] = t.records[r] /\ ReportsFor(k, r) = ReportsFor(j, r)
          /\ \A i \in ReportsFor(j, r) : k.reports[i] = j.reports[i]
      BY <1>1, <1>3, <2>2
    <3>2. /\ ReportsFor(j, r) = {} => t.records[r].state = Absent
          /\ \A i \in ReportsFor(j, r) : IsLast(i, ReportsFor(j, r)) =>
               t.records[r].state = StateAfter[j.reports[i].type]
      BY <1>2 DEF ReplayGivesState, j
    <3> QED BY <3>1, <3>2
  <2> QED BY <2>1, <2>2
<1>8. ReplayGivesReasons(u)
  <2> SUFFICES ASSUME NEW r \in SeqId, NEW source \in RejectSource
               PROVE  LET R == ReasonReports(u, r, source)
                          new == ReasonString[source][u.records[r].reason[source]]
                      IN  /\ R = {} => new = "none"
                          /\ \A i \in R : IsLast(i, R) =>
                               new = k.reports[i].reject_reason
    BY DEF ReplayGivesReasons, k
  <2> DEFINE Q == ReasonReports(t, r, source)
             R == ReasonReports(u, r, source)
             old == ReasonString[source][t.records[r].reason[source]]
             new == ReasonString[source][u.records[r].reason[source]]
  <2>1. /\ Q = {i \in ReportsFor(j, r) :
                  Concerns(source, j.reports[i].reject_source,
                           j.reports[i].type)}
        /\ R = {i \in ReportsFor(k, r) :
                  Concerns(source, k.reports[i].reject_source,
                           k.reports[i].type)}
    <3>1. \A i : Concerns(source, j.reports[i].reject_source, j.reports[i].type)
                   <=> \/ j.reports[i].reject_source = source
                       \/ /\ source = "kAmend"
                          /\ j.reports[i].type = "kAmendAccepted"
      BY DEF Concerns
    <3>2. \A i : Concerns(source, k.reports[i].reject_source, k.reports[i].type)
                   <=> \/ k.reports[i].reject_source = source
                       \/ /\ source = "kAmend"
                          /\ k.reports[i].type = "kAmendAccepted"
      BY DEF Concerns
    <3> QED BY <3>1, <3>2 DEF ReasonReports, j, k
  <2>2. /\ Q = {} => old = "none"
        /\ \A i \in Q : IsLast(i, Q) => old = j.reports[i].reject_reason
    BY <1>2 DEF ReplayGivesReasons, j
  <2>3. /\ Q \in SUBSET (1..n)
        /\ \A i \in 1..n : k.reports[i] = j.reports[i]
    BY <1>3, <2>1
  <2>4. CASE r = s /\ Concerns(source, reject_source, type)
    <3>1. R = Q \cup {n + 1}
      BY <1>3, <1>4, <2>1, <2>4
    <3>2. new = text
      BY <1>1, <2>4
    <3> HIDE DEF R, Q, new
    <3>3. \A i \in R : IsLast(i, R) => i = n + 1
      BY <1>5, <2>3, <3>1
    <3>4. /\ R = {} => new = "none"
          /\ \A i \in R : IsLast(i, R) => new = k.reports[i].reject_reason
      BY <1>3, <1>4, <3>1, <3>2, <3>3
    <3> QED BY <3>4 DEF R, new
  <2>5. CASE r # s \/ ~Concerns(source, reject_source, type)
    <3>1. R = Q
      BY <1>3, <1>4, <1>5, <2>1, <2>5
    <3>2. new = old
      BY <1>1, <2>5
    <3> HIDE DEF R, Q, new, old
    <3>3. /\ R = {} => new = "none"
          /\ \A i \in R : IsLast(i, R) => new = k.reports[i].reject_reason
      BY <2>2, <2>3, <3>1, <3>2
    <3> QED BY <3>3 DEF R, new
  <2> QED BY <2>4, <2>5
<1>9. ReplayIsLegal(u)
  <2> SUFFICES ASSUME NEW r \in SeqId, NEW m \in ReportsFor(k, r)
               PROVE  LET before == {i \in ReportsFor(k, r) : i < m}
                      IN  /\ before = {} =>
                               k.reports[m].type \in LegalNext[Absent]
                          /\ \A i \in before : IsLast(i, before) =>
                               k.reports[m].type
                                 \in LegalNext[StateAfter[k.reports[i].type]]
    BY DEF ReplayIsLegal, k
  <2> DEFINE before == {i \in ReportsFor(k, r) : i < m}
             was    == {i \in ReportsFor(j, r) : i < m}
  <2>1. CASE m \in ReportsFor(j, r)
    <3>1. m \in 1..n
      BY <1>3, <2>1
    <3>2. before = was /\ was \subseteq 1..n
      BY <1>3, <3>1
    <3>3. /\ was = {} => j.reports[m].type \in LegalNext[Absent]
          /\ \A i \in was : IsLast(i, was) =>
               j.reports[m].type \in LegalNext[StateAfter[j.reports[i].type]]
      BY <1>2, <2>1 DEF ReplayIsLegal, j
    <3>4. \A i \in 1..n : k.reports[i] = j.reports[i]
      BY <1>3
    <3> HIDE DEF before, was
    <3>5. /\ before = {} => k.reports[m].type \in LegalNext[Absent]
          /\ \A i \in before : IsLast(i, before) =>
               k.reports[m].type \in LegalNext[StateAfter[k.reports[i].type]]
      BY <3>1, <3>2, <3>3, <3>4
    <3> QED BY <3>5 DEF before
  <2>2. CASE m \notin ReportsFor(j, r)
    <3>1. r = s /\ m = n + 1
      BY <1>3, <2>2
    <3>2. before = ReportsFor(j, s) /\ ReportsFor(j, s) \subseteq 1..n
      BY <1>3, <3>1
    <3>3. /\ ReportsFor(j, s) = {} => StateOf(t, s) = Absent
          /\ \A i \in ReportsFor(j, s) : IsLast(i, ReportsFor(j, s)) =>
               StateOf(t, s) = StateAfter[j.reports[i].type]
      BY <1>2 DEF ReplayGivesState, StateOf, j
    <3>4. /\ k.reports[m].type = type
          /\ \A i \in 1..n : k.reports[i] = j.reports[i]
      BY <1>3, <1>4, <3>1
    <3> HIDE DEF before
    <3>5. /\ before = {} => k.reports[m].type \in LegalNext[Absent]
          /\ \A i \in before : IsLast(i, before) =>
               k.reports[m].type \in LegalNext[StateAfter[k.reports[i].type]]
      BY <1>1, <3>2, <3>3, <3>4
    <3> QED BY <3>5 DEF before
  <2> QED BY <2>1, <2>2
<1> QED BY <1>6, <1>7, <1>8, <1>9 DEF Journalled, k

\* A report keeps the journal's numbers and totals right.
LEMMA RecordKeepsSound ==
  ASSUME NEW j \in Journal, JournalIsSound(j), NEW s \in SeqId,
         NEW type, NEW source, NEW text
  PROVE  JournalIsSound(Record(j, s, type, source, text))
<1> DEFINE k == Record(j, s, type, source, text)
           n == Len(j.reports)
           report == [event_index |-> j.next_event_index, sequence_id |-> s,
                      type |-> type, reject_source |-> source,
                      reject_reason |-> text]
           names == {"reports_recorded",
                     IF IsActionReport(type) THEN "action_reports"
                                             ELSE "order_reports"}
                    \cup (IF source # "kNone" THEN {"rejection_reports"}
                                              ELSE {})
           Actions(q, m)    == {i \in 1..m : IsActionReport(q.reports[i].type)}
           Rejections(q, m) == {i \in 1..m :
                                  q.reports[i].reject_source # "kNone"}
           acts == Actions(j, n)
           rejs == Rejections(j, n)
<1>1. Appends(j, k, report)
  BY RecordAppends
<1>2. /\ k.next_event_index = j.next_event_index + 1
      /\ k.count = Bump(j.count, names)
  BY DEF Record
<1>3. /\ report.event_index = j.next_event_index /\ report.type = type
      /\ report.reject_source = source
  OBVIOUS
<1>4. j.count \in [JournalCounter -> Nat]
  BY DEF Journal
<1> HIDE DEF k, report
<1>5. /\ n \in Nat /\ Len(k.reports) = n + 1 /\ k.reports[n + 1] = report
      /\ \A i \in 1..n : k.reports[i] = j.reports[i]
  BY <1>1 DEF Appends
<1>6. /\ \A i \in 1..n : j.reports[i].event_index = i
      /\ j.next_event_index = n + 1
      /\ j.count["reports_recorded"] = n
      /\ j.count["order_reports"] + j.count["action_reports"] = n
      /\ j.count["action_reports"] = Cardinality(acts)
      /\ j.count["rejection_reports"] = Cardinality(rejs)
  BY DEF JournalIsSound
<1> HIDE DEF n
<1>7. \A i : i \in 1..(n + 1) <=> i \in 1..n \/ i = n + 1
  BY <1>5
<1>8. n + 1 \notin 1..n
  BY <1>5
<1>9. /\ IsFiniteSet(acts) /\ IsFiniteSet(rejs)
      /\ n + 1 \notin acts /\ n + 1 \notin rejs
  <2>1. IsFiniteSet(1..n)
    BY <1>5, FS_Interval
  <2>2. acts \in SUBSET (1..n) /\ rejs \in SUBSET (1..n)
    OBVIOUS
  <2> HIDE DEF acts, rejs
  <2> QED BY <1>8, <2>1, <2>2, FS_Subset
<1>10. Cardinality(Actions(k, n + 1)) =
         IF IsActionReport(type) THEN Cardinality(acts) + 1
                                 ELSE Cardinality(acts)
  <2>1. Actions(k, n + 1) = IF IsActionReport(type) THEN acts \cup {n + 1}
                                                    ELSE acts
    BY <1>3, <1>5, <1>7
  <2> HIDE DEF acts, Actions
  <2> QED BY <1>9, <2>1, FS_AddElement
<1>11. Cardinality(Rejections(k, n + 1)) =
         IF source # "kNone" THEN Cardinality(rejs) + 1 ELSE Cardinality(rejs)
  <2>1. Rejections(k, n + 1) = IF source # "kNone" THEN rejs \cup {n + 1}
                                                   ELSE rejs
    BY <1>3, <1>5, <1>7
  <2> HIDE DEF rejs, Rejections
  <2> QED BY <1>9, <2>1, FS_AddElement
<1>12. /\ k.count["reports_recorded"] = j.count["reports_recorded"] + 1
       /\ k.count["rejection_reports"] =
            IF source # "kNone" THEN j.count["rejection_reports"] + 1
                                ELSE j.count["rejection_reports"]
       /\ k.count["action_reports"] =
            IF IsActionReport(type) THEN j.count["action_reports"] + 1
                                    ELSE j.count["action_reports"]
       /\ k.count["order_reports"] =
            IF IsActionReport(type) THEN j.count["order_reports"]
                                    ELSE j.count["order_reports"] + 1
  <2>1. \A c \in JournalCounter :
          k.count[c] = IF c \in names THEN j.count[c] + 1 ELSE j.count[c]
    BY <1>2, <1>4, BumpValue
  <2> QED BY <2>1 DEF JournalCounter
<1>13. /\ j.count["order_reports"] \in Nat /\ j.count["action_reports"] \in Nat
       /\ j.count["rejection_reports"] \in Nat
  BY <1>4 DEF JournalCounter
<1>14. \A i \in 1..(n + 1) : k.reports[i].event_index = i
  BY <1>3, <1>5, <1>6, <1>7
<1> DEFINE a == Cardinality(Actions(k, n + 1))
           b == Cardinality(Rejections(k, n + 1))
<1>15. /\ a = Cardinality(Actions(k, n + 1))
       /\ b = Cardinality(Rejections(k, n + 1))
  OBVIOUS
<1> HIDE DEF a, b, acts, rejs, names
<1> DEFINE x == j.count["order_reports"]
           y == j.count["action_reports"]
<1>16. /\ k.next_event_index = Len(k.reports) + 1
       /\ k.count["reports_recorded"] = Len(k.reports)
       /\ k.count["order_reports"] + k.count["action_reports"]
            = Len(k.reports)
  <2>0. /\ x \in Nat /\ y \in Nat /\ x + y = n
        /\ k.count["reports_recorded"] = n + 1
        /\ k.next_event_index = n + 1 + 1
    BY <1>2, <1>6, <1>12, <1>13
  <2>1. CASE IsActionReport(type)
    <3>1. k.count["action_reports"] = y + 1 /\ k.count["order_reports"] = x
      BY <1>12, <2>1
    <3> HIDE DEF x, y
    <3> QED BY <1>5, <2>0, <3>1
  <2>2. CASE ~IsActionReport(type)
    <3>1. k.count["action_reports"] = y /\ k.count["order_reports"] = x + 1
      BY <1>12, <2>2
    <3> HIDE DEF x, y
    <3> QED BY <1>5, <2>0, <3>1
  <2> QED BY <2>1, <2>2
<1>17. k.count["action_reports"] = a /\ k.count["rejection_reports"] = b
  BY <1>6, <1>10, <1>11, <1>12, <1>15
<1>18. JournalIsSound(k)
  BY <1>5, <1>14, <1>15, <1>16, <1>17 DEF JournalIsSound
<1> QED BY <1>18 DEF k

----------------------------------------------------------------------------
(* The stages. *)

\* Only finitely many orders are in a state (all of them were registered).
StagesFinite(t) ==
  \A state \in OrderLifecycleState : IsFiniteSet(InState(t, state))

Held(t, state) == Cardinality(InState(t, state))

\* The move m changes the number of orders in two states, and one counter.
Counted(t, u, m) ==
  /\ \A c \in CallCounter : /\ t.count[c] \in Nat
                            /\ u.count[c] = IF c = m[3] THEN t.count[c] + 1
                                                        ELSE t.count[c]
  /\ \A state \in OrderLifecycleState :
       /\ Held(t, state) \in Nat
       /\ Held(u, state) = IF state = m[2] THEN Held(t, state) + 1
                           ELSE IF state = m[1] THEN Held(t, state) - 1
                           ELSE Held(t, state)

\* Every move that was made is counted so.
LEMMA MadeCounts ==
  ASSUME NEW t \in Tracker, NEW u, NEW s \in SeqId, NEW m \in Moves,
         Made(t, u, s, m[1], m[2], m[3]), StagesFinite(t)
  PROVE  StagesFinite(u) /\ Counted(t, u, m)
<1>1. Moved(t, u, s, m[2], {m[3]}) /\ StateOf(t, s) = m[1]
  BY DEF Made
<1>2. \A c \in CallCounter : /\ t.count[c] \in Nat
                             /\ u.count[c] = IF c = m[3] THEN t.count[c] + 1
                                                         ELSE t.count[c]
  <2>1. /\ t.count \in [TrackerCounter -> Nat]
        /\ CallCounter \subseteq TrackerCounter
    BY DEF Tracker, CallCounter
  <2>2. u.count = Bump(t.count, {m[3]})
    BY <1>1 DEF Moved
  <2> QED BY <2>1, <2>2, BumpValue
<1>3. m[1] # m[2]
  BY DEF Moves, Absent
<1>4. ASSUME NEW state \in OrderLifecycleState
      PROVE  /\ IsFiniteSet(InState(u, state)) /\ Held(t, state) \in Nat
             /\ Held(u, state) = IF state = m[2] THEN Held(t, state) + 1
                                 ELSE IF state = m[1] THEN Held(t, state) - 1
                                 ELSE Held(t, state)
  <2> DEFINE S == InState(t, state)
  <2>1. IsFiniteSet(S) /\ Cardinality(S) \in Nat
    BY FS_CardinalityType DEF StagesFinite
  <2>2. s \in S <=> state = m[1]
    BY <1>1 DEF InState, StateOf
  <2>3. InState(u, state) = IF state = m[2] THEN S \cup {s} ELSE S \ {s}
    BY <1>1, MovedInState
  <2> HIDE DEF S
  <2>4. CASE state = m[2]
    <3>1. s \notin S /\ InState(u, state) = S \cup {s}
      BY <1>3, <2>2, <2>3, <2>4
    <3>2. /\ IsFiniteSet(S \cup {s})
          /\ Cardinality(S \cup {s}) = Cardinality(S) + 1
      BY <2>1, <3>1, FS_AddElement
    <3> QED BY <2>1, <2>4, <3>1, <3>2 DEF Held, S
  <2>5. CASE state # m[2]
    <3>1. InState(u, state) = S \ {s}
      BY <2>3, <2>5
    <3>2. /\ IsFiniteSet(S \ {s})
          /\ Cardinality(S \ {s}) = IF s \in S THEN Cardinality(S) - 1
                                               ELSE Cardinality(S)
      BY <2>1, FS_RemoveElement
    <3> QED BY <2>1, <2>2, <2>5, <3>1, <3>2 DEF Held, S
  <2> QED BY <2>4, <2>5
<1> QED BY <1>2, <1>4 DEF StagesFinite, Counted

\* The counters and states that StagesBalance is about.
LEMMA StageNames ==
  /\ {"orders_registered", "orders_queued", "orders_risk_rejected",
      "orders_sent", "orders_exchange_accepted", "orders_exchange_rejected",
      "cancel_requests", "cancels_accepted", "cancels_rejected",
      "amend_requests", "amends_accepted", "amends_rejected"}
       \subseteq CallCounter
  /\ {"kCreated", "kQueued", "kSent", "kCancelPending", "kAmendPending"}
       \subseteq OrderLifecycleState
BY DEF CallCounter, TrackerCounter, OrderLifecycleState

\* A move keeps every stage balanced.
LEMMA MadeKeepsBalance ==
  ASSUME NEW t \in Tracker, NEW u, NEW s \in SeqId, NEW m \in Moves,
         Made(t, u, s, m[1], m[2], m[3]), StagesFinite(t), StagesBalance(t)
  PROVE  StagesBalance(u)
<1> DEFINE n == t.count
           k == u.count
           g(state) == Held(t, state)
           h(state) == Held(u, state)
<1>1. /\ \A c \in CallCounter :
           n[c] \in Nat /\ k[c] = IF c = m[3] THEN n[c] + 1 ELSE n[c]
      /\ \A state \in OrderLifecycleState :
           /\ g(state) \in Nat
           /\ h(state) = IF state = m[2] THEN g(state) + 1
                         ELSE IF state = m[1] THEN g(state) - 1
                         ELSE g(state)
  <2>1. Counted(t, u, m)
    BY MadeCounts
  <2> QED BY <2>1 DEF Counted
<1>2. /\ n["orders_registered"] = n["orders_queued"] + g("kCreated")
      /\ n["orders_queued"] = n["orders_risk_rejected"] + n["orders_sent"]
           + g("kQueued")
      /\ n["orders_sent"] = n["orders_exchange_accepted"]
           + n["orders_exchange_rejected"] + g("kSent")
      /\ n["cancel_requests"] = n["cancels_accepted"] + n["cancels_rejected"]
           + g("kCancelPending")
      /\ n["amend_requests"] = n["amends_accepted"] + n["amends_rejected"]
           + g("kAmendPending")
  BY DEF StagesBalance, Held
<1>3. m \in {<<"absent", "kCreated", "orders_registered">>,
             <<"kCreated", "kQueued", "orders_queued">>,
             <<"kQueued", "kRiskRejected", "orders_risk_rejected">>,
             <<"kQueued", "kSent", "orders_sent">>,
             <<"kSent", "kExchangeAccepted", "orders_exchange_accepted">>,
             <<"kSent", "kExchangeRejected", "orders_exchange_rejected">>,
             <<"kExchangeAccepted", "kCancelPending", "cancel_requests">>,
             <<"kCancelPending", "kCancelled", "cancels_accepted">>,
             <<"kCancelPending", "kExchangeAccepted", "cancels_rejected">>,
             <<"kExchangeAccepted", "kAmendPending", "amend_requests">>,
             <<"kAmendPending", "kExchangeAccepted", "amends_accepted">>,
             <<"kAmendPending", "kExchangeAccepted", "amends_rejected">>}
  BY DEF Moves
<1> HIDE DEF n, k, g, h
<1>a. ASSUME NEW A \in CallCounter, NEW B \in CallCounter, A # B,
             NEW state \in OrderLifecycleState,
             m[2] = state <=> m[3] = A, m[1] = state <=> m[3] = B,
             n[A] = n[B] + g(state)
      PROVE  k[A] = k[B] + h(state)
  <2>1. n[A] \in Nat /\ n[B] \in Nat /\ g(state) \in Nat
    BY <1>1
  <2>2. CASE m[3] = A
    <3>1. k[A] = n[A] + 1 /\ k[B] = n[B] /\ h(state) = g(state) + 1
      BY <1>1, <1>a, <2>2
    <3> QED BY <1>a, <2>1, <3>1
  <2>3. CASE m[3] = B
    <3>1. k[A] = n[A] /\ k[B] = n[B] + 1 /\ h(state) = g(state) - 1
      BY <1>1, <1>a, <2>3
    <3> QED BY <1>a, <2>1, <3>1
  <2>4. CASE m[3] # A /\ m[3] # B
    <3>1. k[A] = n[A] /\ k[B] = n[B] /\ h(state) = g(state)
      BY <1>1, <1>a, <2>4
    <3> QED BY <1>a, <3>1
  <2> QED BY <2>2, <2>3, <2>4
<1>b. ASSUME NEW A \in CallCounter, NEW B \in CallCounter,
             NEW C \in CallCounter, A # B, A # C, B # C,
             NEW state \in OrderLifecycleState,
             m[2] = state <=> m[3] = A,
             m[1] = state <=> m[3] = B \/ m[3] = C,
             n[A] = n[B] + n[C] + g(state)
      PROVE  k[A] = k[B] + k[C] + h(state)
  <2>1. n[A] \in Nat /\ n[B] \in Nat /\ n[C] \in Nat /\ g(state) \in Nat
    BY <1>1
  <2>2. CASE m[3] = A
    <3>1. /\ k[A] = n[A] + 1 /\ k[B] = n[B] /\ k[C] = n[C]
          /\ h(state) = g(state) + 1
      BY <1>1, <1>b, <2>2
    <3> QED BY <1>b, <2>1, <3>1
  <2>3. CASE m[3] = B
    <3>1. /\ k[A] = n[A] /\ k[B] = n[B] + 1 /\ k[C] = n[C]
          /\ h(state) = g(state) - 1
      BY <1>1, <1>b, <2>3
    <3> QED BY <1>b, <2>1, <3>1
  <2>4. CASE m[3] = C
    <3>1. /\ k[A] = n[A] /\ k[B] = n[B] /\ k[C] = n[C] + 1
          /\ h(state) = g(state) - 1
      BY <1>1, <1>b, <2>4
    <3> QED BY <1>b, <2>1, <3>1
  <2>5. CASE m[3] \notin {A, B, C}
    <3>1. k[A] = n[A] /\ k[B] = n[B] /\ k[C] = n[C] /\ h(state) = g(state)
      BY <1>1, <1>b, <2>5
    <3> QED BY <1>b, <3>1
  <2> QED BY <2>2, <2>3, <2>4, <2>5
<1>4. k["orders_registered"] = k["orders_queued"] + h("kCreated")
  <2>1. /\ m[2] = "kCreated" <=> m[3] = "orders_registered"
        /\ m[1] = "kCreated" <=> m[3] = "orders_queued"
    BY <1>3
  <2> QED BY <1>2, <1>a, <2>1, StageNames
<1>5. k["orders_queued"] = k["orders_risk_rejected"] + k["orders_sent"]
        + h("kQueued")
  <2>1. /\ m[2] = "kQueued" <=> m[3] = "orders_queued"
        /\ m[1] = "kQueued" <=> \/ m[3] = "orders_risk_rejected"
                                \/ m[3] = "orders_sent"
    BY <1>3
  <2> QED BY <1>2, <1>b, <2>1, StageNames
<1>6. k["orders_sent"] = k["orders_exchange_accepted"]
        + k["orders_exchange_rejected"] + h("kSent")
  <2>1. /\ m[2] = "kSent" <=> m[3] = "orders_sent"
        /\ m[1] = "kSent" <=> \/ m[3] = "orders_exchange_accepted"
                              \/ m[3] = "orders_exchange_rejected"
    BY <1>3
  <2> QED BY <1>2, <1>b, <2>1, StageNames
<1>7. k["cancel_requests"] = k["cancels_accepted"] + k["cancels_rejected"]
        + h("kCancelPending")
  <2>1. /\ m[2] = "kCancelPending" <=> m[3] = "cancel_requests"
        /\ m[1] = "kCancelPending" <=> \/ m[3] = "cancels_accepted"
                                       \/ m[3] = "cancels_rejected"
    BY <1>3
  <2> QED BY <1>2, <1>b, <2>1, StageNames
<1>8. k["amend_requests"] = k["amends_accepted"] + k["amends_rejected"]
        + h("kAmendPending")
  <2>1. /\ m[2] = "kAmendPending" <=> m[3] = "amend_requests"
        /\ m[1] = "kAmendPending" <=> \/ m[3] = "amends_accepted"
                                      \/ m[3] = "amends_rejected"
    BY <1>3
  <2> QED BY <1>2, <1>b, <2>1, StageNames
<1> QED BY <1>4, <1>5, <1>6, <1>7, <1>8 DEF StagesBalance, Held, k, h

----------------------------------------------------------------------------
(* The inductive invariant: the properties, and what they rest on.         *)

\* Every report tells whether it is that of a rejection.
RejectionsTold(j) ==
  \A i \in 1..Len(j.reports) :
    TellsRejection(j.reports[i].type, j.reports[i].reject_source,
                   j.reports[i].reject_reason)

JournalInv(t) ==
  /\ t \in Tracker
  /\ NewIfAbsent(t)
  /\ Journalled(t)
  /\ JournalIsSound(t.journal)
  /\ RejectionsTold(t.journal)
  /\ StagesFinite(t)
  /\ StagesBalance(t)

\* A refused call changes nothing the invariant is about.
LEMMA RefusedKeepsInv ==
  ASSUME NEW t, NEW u, JournalInv(t), Refused(t, u)
  PROVE  JournalInv(u)
<1>1. /\ u \in Tracker /\ u.records = t.records
      /\ u.journal = t.journal /\ u.attached = t.attached
      /\ \A c \in CallCounter : u.count[c] = t.count[c]
  BY DEF Refused
<1>2. NewIfAbsent(u)
  BY <1>1 DEF JournalInv, NewIfAbsent, StateOf
<1>3. Journalled(u)
  <2>1. /\ \A s \in SeqId : StateOf(u, s) = StateOf(t, s)
        /\ ReplayGivesState(t) => ReplayGivesState(u)
        /\ ReplayIsLegal(t) => ReplayIsLegal(u)
    BY <1>1 DEF StateOf, ReplayGivesState, ReplayIsLegal
  <2>2. ReplayGivesReasons(t) => ReplayGivesReasons(u)
    BY <1>1 DEF ReplayGivesReasons, ReasonReports
  <2> QED BY <1>1, <2>1, <2>2 DEF JournalInv, Journalled
<1>4. \A state : InState(u, state) = InState(t, state)
  BY <1>1 DEF InState
<1>5. StagesFinite(u)
  BY <1>4 DEF JournalInv, StagesFinite
<1>6. StagesBalance(u)
  <2>1. StagesBalance(t)
    BY DEF JournalInv
  <2> QED BY <1>1, <1>4, <2>1, StageNames DEF StagesBalance
<1> QED BY <1>1, <1>2, <1>3, <1>5, <1>6 DEF JournalInv

\* A move keeps it too.
LEMMA MadeKeepsInv ==
  ASSUME NEW t, NEW u, NEW s \in SeqId, NEW m \in Moves,
         JournalInv(t), Made(t, u, s, m[1], m[2], m[3])
  PROVE  JournalInv(u)
<1>0. /\ t \in Tracker /\ NewIfAbsent(t) /\ Journalled(t)
      /\ JournalIsSound(t.journal) /\ StagesFinite(t) /\ StagesBalance(t)
      /\ u \in Tracker
  BY DEF JournalInv, Made, Moved
<1>1. PICK type \in ExecutionReportType,
           reject_source \in RejectSource \cup {"kNone"},
           text \in ReasonText :
        Reported(t, u, s, type, reject_source, text)
  BY DEF Made
<1>2. NewIfAbsent(u)
  BY <1>0, <1>1, MoveTypes DEF NewIfAbsent, Reported, StateOf
<1>3. Journalled(u)
  <2>1. CASE t.attached
    BY <1>0, <1>1, <2>1, ReportKeepsJournalled
  <2>2. CASE ~t.attached
    BY <1>1, <2>2 DEF Reported, Journalled
  <2> QED BY <2>1, <2>2
<1>4. JournalIsSound(u.journal) /\ RejectionsTold(u.journal)
  <2> DEFINE j == t.journal
             k == Record(j, s, type, reject_source, text)
  <2>1. j \in Journal /\ JournalIsSound(j) /\ RejectionsTold(j)
    BY <1>0 DEF Tracker, JournalInv
  <2>2. u.journal = j \/ u.journal = k
    BY <1>1 DEF Reported
  <2>3. JournalIsSound(k)
    BY <2>1, RecordKeepsSound
  <2>4. TellsRejection(type, reject_source, text)
    BY <1>1 DEF Reported
  <2>5. RejectionsTold(k)
    <3> DEFINE report == [event_index |-> j.next_event_index,
                          sequence_id |-> s, type |-> type,
                          reject_source |-> reject_source,
                          reject_reason |-> text]
    <3>1. Appends(j, k, report)
      BY <2>1, RecordAppends
    <3>2. /\ report.type = type /\ report.reject_source = reject_source
          /\ report.reject_reason = text
      OBVIOUS
    <3> HIDE DEF j, k, report
    <3>3. /\ Len(j.reports) \in Nat /\ Len(k.reports) = Len(j.reports) + 1
          /\ \A i \in 1..Len(j.reports) : k.reports[i] = j.reports[i]
          /\ k.reports[Len(j.reports) + 1] = report
      BY <3>1 DEF Appends
    <3> SUFFICES ASSUME NEW i \in 1..Len(k.reports)
                 PROVE  TellsRejection(k.reports[i].type,
                                       k.reports[i].reject_source,
                                       k.reports[i].reject_reason)
      BY DEF RejectionsTold
    <3>4. CASE i = Len(j.reports) + 1
      BY <2>4, <3>2, <3>3, <3>4
    <3>5. CASE i \in 1..Len(j.reports)
      BY <2>1, <3>3, <3>5 DEF RejectionsTold
    <3> QED BY <3>3, <3>4, <3>5
  <2> QED BY <2>1, <2>2, <2>3, <2>5
<1>5. StagesFinite(u)
  BY <1>0, MadeCounts
<1>6. StagesBalance(u)
  BY <1>0, MadeKeepsBalance
<1> QED BY <1>0, <1>2, <1>3, <1>4, <1>5, <1>6 DEF JournalInv

\* A new tracker has no record and an empty journal.
LEMMA InitJournalInv == Init => JournalInv(tracker)
<1> SUFFICES ASSUME NEW attached \in BOOLEAN, tracker = NewTracker(attached)
             PROVE  JournalInv(tracker)
  BY DEF Init
<1>1. tracker \in Tracker
  BY InitSound DEF Init, TypeOK
<1>2. /\ \A s \in SeqId : tracker.records[s] = NoRecord
      /\ tracker.journal = NewJournal
      /\ \A c \in TrackerCounter : tracker.count[c] = 0
  BY DEF NewTracker
<1>3. /\ NoRecord.state = Absent
      /\ \A source \in RejectSource : NoRecord.reason[source] = "kNone"
  BY DEF NoRecord
<1>4. NewIfAbsent(tracker)
  BY <1>2 DEF NewIfAbsent
<1>5. /\ NewJournal.reports = << >> /\ Len(NewJournal.reports) = 0
      /\ NewJournal.next_event_index = 1
      /\ \A c \in JournalCounter : NewJournal.count[c] = 0
  BY DEF NewJournal
<1>6. 1..0 = {}
  OBVIOUS
<1>7. \A s \in SeqId : ReportsFor(tracker.journal, s) = {}
  BY <1>2, <1>5, <1>6 DEF ReportsFor
<1>8. Journalled(tracker)
  <2>1. ReplayGivesState(tracker)
    BY <1>2, <1>3, <1>7 DEF ReplayGivesState
  <2>2. ReplayGivesReasons(tracker)
    BY <1>2, <1>3, <1>7, NothingRejected
    DEF ReplayGivesReasons, ReasonReports
  <2>3. ReplayIsLegal(tracker)
    BY <1>7 DEF ReplayIsLegal
  <2> QED BY <1>7, <2>1, <2>2, <2>3 DEF Journalled
<1>9. JournalIsSound(tracker.journal)
  <2> DEFINE j == NewJournal
  <2>1. /\ {i \in 1..Len(j.reports) : IsActionReport(j.reports[i].type)} = {}
        /\ {i \in 1..Len(j.reports) : j.reports[i].reject_source # "kNone"}
             = {}
        /\ \A i \in 1..Len(j.reports) : j.reports[i].event_index = i
    BY <1>5, <1>6
  <2>2. /\ j.count["reports_recorded"] = 0 /\ j.count["order_reports"] = 0
        /\ j.count["action_reports"] = 0 /\ j.count["rejection_reports"] = 0
    BY <1>5 DEF JournalCounter
  <2> HIDE DEF j
  <2>3. Len(j.reports) = 0 /\ j.next_event_index = 1
    BY <1>5 DEF j
  <2>4. JournalIsSound(j)
    BY <2>1, <2>2, <2>3, FS_EmptySet DEF JournalIsSound
  <2> QED BY <1>2, <2>4 DEF j
<1>r. RejectionsTold(tracker.journal)
  BY <1>2, <1>5, <1>6 DEF RejectionsTold
<1>10. \A state \in OrderLifecycleState : InState(tracker, state) = {}
  BY <1>2, <1>3 DEF InState, OrderLifecycleState, Absent
<1>11. StagesFinite(tracker)
  BY <1>10, FS_EmptySet DEF StagesFinite
<1>12. StagesBalance(tracker)
  <2>1. \A c \in CallCounter : tracker.count[c] = 0
    BY <1>2 DEF CallCounter
  <2>2. \A state \in OrderLifecycleState :
          Cardinality(InState(tracker, state)) = 0
    BY <1>10, FS_EmptySet
  <2> QED BY <2>1, <2>2, StageNames DEF StagesBalance
<1> QED BY <1>1, <1>4, <1>8, <1>9, <1>r, <1>11, <1>12 DEF JournalInv

\* The invariant holds whatever the client calls.
LEMMA JournalInvariant == Spec => []JournalInv(tracker)
<1>1. ASSUME NEW t, NEW u, JournalInv(t), OneStep(t, u)
      PROVE  JournalInv(u)
  BY <1>1, RefusedKeepsInv, MadeKeepsInv DEF OneStep
<1>2. JournalInv(tracker) /\ [Next]_tracker => JournalInv(tracker)'
  <2>1. CASE JournalInv(tracker) /\ Next
    <3>1. \/ OneStep(tracker, tracker')
          \/ \E mid \in Tracker :
               OneStep(tracker, mid) /\ OneStep(mid, tracker')
      BY <2>1, NextSteps DEF JournalInv, TypeOK
    <3>2. JournalInv(tracker')
      BY <1>1, <2>1, <3>1
    <3> QED BY <3>2
  <2>2. CASE JournalInv(tracker) /\ UNCHANGED tracker
    BY <2>2
  <2> QED BY <2>1, <2>2
<1> QED BY <1>2, InitJournalInv, PTL DEF Spec

\* Replaying the journal reconstructs the state and the reject reasons of
\* every order, however many there are and whatever was called.
THEOREM JournalReplays == Spec => []JournalReconstructsRecords
<1>1. JournalInv(tracker) => JournalReconstructsRecords
  BY DEF JournalInv, Journalled, JournalReconstructsRecords
<1> QED BY <1>1, JournalInvariant, PTL

\* The reports of each order are a path of the documented state machine.
THEOREM ReportsAreLegal == Spec => []HistoriesAreLegal
<1>1. JournalInv(tracker) => HistoriesAreLegal
  BY DEF JournalInv, Journalled, HistoriesAreLegal
<1> QED BY <1>1, JournalInvariant, PTL

\* The journal numbers its reports from 1 and its totals are exact.
THEOREM ReportsAreNumbered == Spec => []JournalNumbersReports
<1>1. JournalInv(tracker) => JournalNumbersReports
  BY DEF JournalInv, JournalNumbersReports
<1> QED BY <1>1, JournalInvariant, PTL

\* Every order that entered a stage has left it or is in it: what a request
\* counter counted is settled or still pending, and no order is in between.
THEOREM StagesAreBalanced == Spec => []CountersBalance
<1>1. JournalInv(tracker) => CountersBalance
  BY DEF JournalInv, CountersBalance
<1> QED BY <1>1, JournalInvariant, PTL

----------------------------------------------------------------------------
(* What is printed. *)

\* Some element of a set of positions is the last.
LEMMA LastExists ==
  ASSUME NEW n \in Nat, NEW R \in SUBSET (1..n), R # {}
  PROVE  \E i : IsLast(i, R)
<1> DEFINE T == {n - i : i \in R}
<1>1. T \subseteq Nat /\ T # {}
  OBVIOUS
<1>2. PICK x \in T : \A y \in T : <<y, x>> \notin OpToRel(<, Nat)
  <2> HIDE DEF T
  <2> QED BY <1>1, NatLessThanWellFounded, WFMin
<1>3. PICK i \in R : x = n - i
  OBVIOUS
<1>4. ASSUME NEW k \in R PROVE k <= i
  <2> DEFINE y == n - k
  <2>1. y \in T /\ y \in Nat /\ x \in Nat
    BY <1>1
  <2> HIDE DEF T
  <2>2. ASSUME y < x PROVE FALSE
    <3>1. <<y, x>> \in Nat \X Nat /\ <<y, x>>[1] < <<y, x>>[2]
      BY <2>1, <2>2
    <3>2. <<y, x>> \in OpToRel(<, Nat)
      BY <3>1 DEF OpToRel
    <3> QED BY <1>2, <2>1, <3>2
  <2>3. i \in 1..n /\ k \in 1..n
    OBVIOUS
  <2> QED BY <1>3, <2>2, <2>3
<1> QED BY <1>4 DEF IsLast

\* The line of a report, read as a state, is the tracker's name of the state
\* after the report.
LEMMA StateIsRead ==
  ASSUME NEW type \in ExecutionReportType
  PROVE  StateRead(TypeString[type]) = StateString[StateAfter[type]]
<1>1. CASE type \in {"kCreated", "kQueued", "kRiskRejected", "kSent",
                    "kExchangeAccepted", "kExchangeRejected"}
  BY <1>1 DEF StateRead, TypeString, StateString, StateAfter
<1>2. CASE type \in {"kCancelPending", "kCancelled", "kCancelRejected",
                    "kAmendPending", "kAmendAccepted", "kAmendRejected"}
  BY <1>2 DEF StateRead, TypeString, StateString, StateAfter
<1> QED BY <1>1, <1>2 DEF ExecutionReportType

\* A report that tells a rejection is printed as one.
LEMMA RejectionIsPrinted ==
  ASSUME NEW type \in ExecutionReportType, NEW source, NEW text,
         TellsRejection(type, source, text)
  PROVE  /\ SourceString[source] # "none" <=> text # "none"
         /\ SourceString[source] \in {"none"} \cup DOMAIN RejectionType
         /\ \A name \in DOMAIN RejectionType :
              SourceString[source] = name <=>
                TypeString[type] = RejectionType[name]
<1>1. CASE source = "kNone"
  <2>1. text = "none" /\ SourceString[source] = "none"
    BY <1>1 DEF TellsRejection, SourceString, RejectSource
  <2>2. type \in {"kCreated", "kQueued", "kSent", "kExchangeAccepted",
                 "kCancelPending", "kCancelled", "kAmendPending",
                 "kAmendAccepted"}
    BY <1>1 DEF TellsRejection, RejectSource, RejectedType,
                ExecutionReportType
  <2>3. \A name \in DOMAIN RejectionType :
          TypeString[type] # RejectionType[name] /\ name # "none"
    BY <2>2 DEF TypeString, RejectionType
  <2> QED BY <2>1, <2>3
<1>2. CASE source \in RejectSource
  <2>1. source # "kNone" /\ text # "none" /\ type = RejectedType[source]
    BY <1>2 DEF TellsRejection, RejectSource
  <2>2. CASE source = "kRisk"
    BY <2>1, <2>2 DEF RejectedType, SourceString, TypeString, RejectionType
  <2>3. CASE source = "kExchange"
    BY <2>1, <2>3 DEF RejectedType, SourceString, TypeString, RejectionType
  <2>4. CASE source = "kCancel"
    BY <2>1, <2>4 DEF RejectedType, SourceString, TypeString, RejectionType
  <2>5. CASE source = "kAmend"
    BY <2>1, <2>5 DEF RejectedType, SourceString, TypeString, RejectionType
  <2> QED BY <1>2, <2>2, <2>3, <2>4, <2>5 DEF RejectSource
<1> QED BY <1>1, <1>2 DEF TellsRejection

\* The last line of an order is the line of its last report.
LEMMA LastLineIsLastReport ==
  ASSUME JournalIsSound(tracker.journal), tracker \in Tracker,
         NEW s \in SeqId, NEW m, IsLast(m, ReportsFor(tracker.journal, s))
  PROVE  LastLine(s) = FormatExecutionReport(tracker.journal.reports[m])
<1> DEFINE reports == tracker.journal.reports
           line(i) == FormatExecutionReport(reports[i])
           own == {l \in Lines : l.sequence_id = s}
           Last(l) == \A other \in own : other.event <= l.event
<1>1. /\ \A i \in 1..Len(reports) : line(i).event = i
      /\ \A i \in 1..Len(reports) :
           line(i).sequence_id = s <=> i \in ReportsFor(tracker.journal, s)
      /\ Lines = {line(i) : i \in 1..Len(reports)}
      /\ Len(reports) \in Nat
  BY DEF JournalIsSound, FormatExecutionReport, ReportsFor, Lines,
         Tracker, Journal
<1>2. /\ m \in 1..Len(reports) /\ m \in ReportsFor(tracker.journal, s)
      /\ \A k \in ReportsFor(tracker.journal, s) : k <= m
  BY DEF IsLast, ReportsFor
<1>3. LastLine(s) = CHOOSE l \in own : Last(l)
  BY DEF LastLine
<1> HIDE DEF line, reports
<1>4. line(m) \in own /\ Last(line(m))
  <2>1. ASSUME NEW other \in Lines, other.sequence_id = s
        PROVE  other.event <= line(m).event
    <3>1. PICK i \in 1..Len(reports) : other = line(i)
      BY <1>1
    <3>2. i <= m
      BY <1>1, <1>2, <2>1, <3>1
    <3> QED BY <1>1, <1>2, <3>1, <3>2
  <2> QED BY <1>1, <1>2, <2>1
<1>5. ASSUME NEW l \in own, Last(l)
      PROVE  l = line(m)
  <2>1. PICK i \in 1..Len(reports) : l = line(i)
    BY <1>1
  <2>2. i <= m
    BY <1>1, <1>2, <1>5, <2>1
  <2>3. m <= i
    BY <1>1, <1>2, <1>4, <1>5, <2>1
  <2>4. i = m
    BY <1>1, <1>2, <2>1, <2>2, <2>3
  <2> QED BY <2>1, <2>4
<1> HIDE DEF Last, own
<1> QED BY <1>3, <1>4, <1>5 DEF line, reports

\* A reader of the printed journal knows the state of every order, under the
\* tracker's own name for it, which lines are rejections, by whom, and which
\* orders were last rejected for the same reason.
THEOREM JournalIsReadable == Spec => []PrintedReportsTellTheState
<1>1. JournalInv(tracker) => PrintedReportsTellTheState
  <2> SUFFICES ASSUME JournalInv(tracker), tracker.attached
               PROVE  PrintedReportsTellTheState
    BY DEF PrintedReportsTellTheState
  <2> DEFINE j == tracker.journal
  <2>1. /\ tracker \in Tracker /\ JournalIsSound(j) /\ RejectionsTold(j)
        /\ ReplayGivesState(tracker) /\ ReplayGivesReasons(tracker)
        /\ Len(j.reports) \in Nat
        /\ \A i \in 1..Len(j.reports) :
             /\ j.reports[i].type \in ExecutionReportType
             /\ j.reports[i].reject_source \in RejectSource \cup {"kNone"}
    <3>1. j.reports \in Seq(Report)
      BY DEF JournalInv, Tracker, Journal
    <3> HIDE DEF j
    <3>2. /\ Len(j.reports) \in Nat
          /\ \A i \in 1..Len(j.reports) : j.reports[i] \in Report
      BY <3>1
    <3> QED BY <3>2 DEF JournalInv, Journalled, Report, j
  <2>2. ASSUME NEW s \in SeqId, Contains(tracker, s)
        PROVE  StateRead(LastLine(s).type) = StateString[StateOf(tracker, s)]
    <3>1. /\ ReportsFor(j, s) # {}
          /\ ReportsFor(j, s) \in SUBSET (1..Len(j.reports))
      BY <2>1, <2>2 DEF ReplayGivesState, Contains, ReportsFor
    <3>2. PICK m : IsLast(m, ReportsFor(j, s))
      BY <2>1, <3>1, LastExists
    <3>3. m \in 1..Len(j.reports) /\ m \in ReportsFor(j, s)
      BY <3>1, <3>2 DEF IsLast
    <3>4. StateOf(tracker, s) = StateAfter[j.reports[m].type]
      BY <2>1, <3>2, <3>3 DEF ReplayGivesState, StateOf
    <3>5. LastLine(s).type = TypeString[j.reports[m].type]
      BY <2>1, <3>2, LastLineIsLastReport DEF FormatExecutionReport
    <3> QED BY <2>1, <3>3, <3>4, <3>5, StateIsRead
  <2>3. ASSUME NEW line \in Lines
        PROVE  /\ line.reject_source # "none" <=> line.reject_reason # "none"
               /\ line.reject_source \in {"none"} \cup DOMAIN RejectionType
               /\ \A source \in DOMAIN RejectionType :
                    line.reject_source = source <=>
                      line.type = RejectionType[source]
    <3>1. PICK i \in 1..Len(j.reports) :
            line = FormatExecutionReport(j.reports[i])
      BY DEF Lines
    <3>2. /\ line.type = TypeString[j.reports[i].type]
          /\ line.reject_source = SourceString[j.reports[i].reject_source]
          /\ line.reject_reason = j.reports[i].reject_reason
      BY <3>1 DEF FormatExecutionReport
    <3>3. TellsRejection(j.reports[i].type, j.reports[i].reject_source,
                         j.reports[i].reject_reason)
      BY <2>1 DEF RejectionsTold
    <3> QED BY <2>1, <3>2, <3>3, RejectionIsPrinted
  <2>4. ASSUME NEW x \in LastLines, NEW a \in Rejecter(x)
        PROVE  x.reject_reason = ReasonString[a][ReasonKept(x, a)]
    <3>1. PICK s \in SeqId : Contains(tracker, s) /\ x = LastLine(s)
      BY DEF LastLines
    <3>2. /\ ReportsFor(j, s) # {}
          /\ ReportsFor(j, s) \in SUBSET (1..Len(j.reports))
      BY <2>1, <3>1 DEF ReplayGivesState, Contains, ReportsFor
    <3>3. PICK m : IsLast(m, ReportsFor(j, s))
      BY <2>1, <3>2, LastExists
    <3>4. m \in ReportsFor(j, s) /\ \A i \in ReportsFor(j, s) : i <= m
      BY <3>3 DEF IsLast
    <3>5. /\ x.sequence_id = s
          /\ x.reject_source = SourceString[j.reports[m].reject_source]
          /\ x.reject_reason = j.reports[m].reject_reason
      <4>1. x = FormatExecutionReport(j.reports[m])
        BY <2>1, <3>1, <3>3, LastLineIsLastReport
      <4>2. j.reports[m].sequence_id = s
        BY <3>4 DEF ReportsFor
      <4> QED BY <4>1, <4>2 DEF FormatExecutionReport
    <3>6. a \in RejectSource /\ j.reports[m].reject_source = a
      <4>1. j.reports[m].reject_source \in RejectSource \cup {"kNone"}
        BY <2>1, <3>2, <3>4
      <4>2. /\ a \in RejectSource
            /\ SourceString[a] = SourceString[j.reports[m].reject_source]
        BY <3>5 DEF Rejecter
      <4> QED BY <4>1, <4>2 DEF RejectSource, SourceString
    <3>7. IsLast(m, ReasonReports(tracker, s, a))
      BY <3>4, <3>6 DEF IsLast, ReasonReports, j
    <3>8. ReasonString[a][ReasonKept(x, a)] = j.reports[m].reject_reason
      BY <2>1, <3>5, <3>6, <3>7
         DEF ReplayGivesReasons, ReasonKept, IsLast, j
    <3> QED BY <3>5, <3>8
  <2>5. ASSUME NEW x \in LastLines, NEW y \in LastLines,
               NEW a \in Rejecter(x), NEW b \in Rejecter(y),
               ReasonKept(x, a) \in DOMAIN Conversion[a],
               ReasonKept(y, b) \in DOMAIN Conversion[b]
        PROVE  x.reject_reason = y.reject_reason
                 <=> ReasonKept(x, a) = ReasonKept(y, b)
    <3>1. a \in RejectSource /\ b \in RejectSource
      BY DEF Rejecter
    <3> QED BY <2>4, <2>5, <3>1, SwitchesAgree
  <2> QED BY <2>2, <2>3, <2>5 DEF PrintedReportsTellTheState
<1> QED BY <1>1, JournalInvariant, PTL

============================================================================
