-------------------------- MODULE RingBufferProofs --------------------------
(***************************************************************************)
(* RingBuffer implements BoundedFifo, for every capacity and value set.    *)
(***************************************************************************)
EXTENDS RingBuffer, SequenceTheorems, TLAPS

\* Below two laps, the modulus of NextIndex subtracts at most one capacity.
LEMMA ModLap ==
  ASSUME NEW x \in 0..(2 * Capacity - 1)
  PROVE  x % Capacity = IF x < Capacity THEN x ELSE x - Capacity
<1>1. CASE x < Capacity
  BY <1>1, CapacityAssumption, SMT
<1>2. CASE x >= Capacity
  BY <1>2, CapacityAssumption, SMT
<1> QED BY <1>1, <1>2, CapacityAssumption

\* NextIndex, without the modulus.
LEMMA NextIndexValue ==
  ASSUME NEW i \in Index
  PROVE  /\ NextIndex(i) \in Index
         /\ NextIndex(i) = IF i = Capacity - 1 THEN 0 ELSE i + 1
<1>1. i + 1 \in 0..(2 * Capacity - 1)
  BY CapacityAssumption DEF Index
<1> QED BY <1>1, ModLap, CapacityAssumption DEF Index, NextIndex

\* The slot n places after slot h, without the modulus.
LEMMA SlotValue ==
  ASSUME NEW h \in Index, NEW n \in 0..Capacity
  PROVE  /\ (h + n) % Capacity \in Index
         /\ (h + n) % Capacity
              = IF h + n < Capacity THEN h + n ELSE h + n - Capacity
<1> DEFINE x == h + n
<1>1. x \in 0..(2 * Capacity - 1)
  BY CapacityAssumption DEF Index
<1>2. x % Capacity = IF x < Capacity THEN x ELSE x - Capacity
  <2> HIDE DEF x
  <2> QED BY <1>1, ModLap, Zenon
<1> QED BY <1>1, <1>2, CapacityAssumption DEF Index

\* The strengthening that is inductive: types, and the agreement of the
\* three fields.
IInv == TypeOK /\ FieldsAgree

\* tail_, without the modulus.
LEMMA TailValue ==
  ASSUME IInv
  PROVE  tail_ = IF head_ + size_ < Capacity THEN head_ + size_
                 ELSE head_ + size_ - Capacity
  BY SlotValue DEF IInv, TypeOK, FieldsAgree

\* A new buffer satisfies the inductive invariant.
LEMMA InitIInv == Init => IInv
<1>1. 0 % Capacity = 0
  BY ModLap, CapacityAssumption
<1> QED
  BY <1>1, CapacityAssumption, DefaultAssumption
  DEF Init, IInv, TypeOK, FieldsAgree, Index

\* Push and Pop, stored, taken or refused, preserve it.
LEMMA NextIInv == IInv /\ [Next]_vars => IInv'
<1> SUFFICES ASSUME IInv, [Next]_vars PROVE IInv'
  OBVIOUS
<1>0. head_ \in Index /\ tail_ \in Index /\ size_ \in 0..Capacity
  BY DEF IInv, TypeOK
<1>a. Capacity \in Nat \ {0}
  BY CapacityAssumption
<1>1. ASSUME NEW v \in Value, PushStored(v)
      PROVE  IInv'
  <2>1. size_' \in 0..Capacity /\ head_' \in Index
    BY <1>0, <1>1, <1>a DEF PushStored, Full
  <2>2. tail_' \in Index
    BY <1>0, <1>1, NextIndexValue DEF PushStored
  <2>3. TypeOK'
    BY <1>1, <2>1, <2>2 DEF PushStored, IInv, TypeOK
  <2>4. tail_' = IF tail_ = Capacity - 1 THEN 0 ELSE tail_ + 1
    BY <1>0, <1>1, NextIndexValue DEF PushStored
  <2>5. tail_' = IF head_' + size_' < Capacity THEN head_' + size_'
                 ELSE head_' + size_' - Capacity
    BY <1>0, <1>1, <1>a, <2>4, TailValue DEF PushStored, Full, Index
  <2>6. FieldsAgree'
    BY <2>1, <2>5, SlotValue DEF FieldsAgree
  <2> QED BY <2>3, <2>6 DEF IInv
<1>2. ASSUME PopTaken
      PROVE  IInv'
  <2>1. size_' \in 0..Capacity /\ tail_' \in Index
    BY <1>0, <1>2, <1>a DEF PopTaken, Empty
  <2>2. head_' \in Index
    BY <1>0, <1>2, NextIndexValue DEF PopTaken
  <2>3. TypeOK'
    BY <1>2, <2>1, <2>2 DEF PopTaken, IInv, TypeOK
  <2>4. head_' = IF head_ = Capacity - 1 THEN 0 ELSE head_ + 1
    BY <1>0, <1>2, NextIndexValue DEF PopTaken
  <2>5. tail_' = IF head_' + size_' < Capacity THEN head_' + size_'
                 ELSE head_' + size_' - Capacity
    BY <1>0, <1>2, <1>a, <2>4, TailValue DEF PopTaken, Empty, Index
  <2>6. FieldsAgree'
    BY <2>1, <2>2, <2>5, SlotValue DEF FieldsAgree
  <2> QED BY <2>3, <2>6 DEF IInv
<1>3. CASE PushRefused
  BY <1>3 DEF PushRefused, IInv, TypeOK, FieldsAgree
<1>4. CASE PopRefused
  BY <1>4 DEF PopRefused, IInv, TypeOK, FieldsAgree
<1>5. CASE UNCHANGED vars
  BY <1>5 DEF vars, IInv, TypeOK, FieldsAgree
<1> QED BY <1>1, <1>2, <1>3, <1>4, <1>5 DEF Next, Push, Pop

\* The fields stay in range and head_, tail_ and size_ agree, in every
\* reachable state and for every capacity.
THEOREM SpecInvariant == Spec => [](TypeOK /\ FieldsAgree)
<1>1. Spec => []IInv
  BY InitIInv, NextIInv, PTL DEF Spec
<1> QED BY <1>1, PTL DEF IInv

\* The indexes never leave the array and size_ never leaves 0..Capacity, so
\* that no push or pop touches anything but a slot.
THEOREM IndexesStayInRange == Spec => []TypeOK
BY SpecInvariant, PTL

----------------------------------------------------------------------------
(* The refinement. *)

\* Contents is a sequence of size_ values.
ContentsShape ==
  /\ Contents \in Seq(Value)
  /\ Len(Contents) = size_
  /\ \A i \in 1..size_ :
       Contents[i] = storage_[(head_ + (i - 1)) % Capacity]

\* Where the fields agree, the contents are a sequence of size_ values.
LEMMA ContentsSeq == IInv => ContentsShape
<1> SUFFICES ASSUME IInv PROVE ContentsShape
  OBVIOUS
<1>1. ASSUME NEW i \in 1..size_
      PROVE  storage_[(head_ + (i - 1)) % Capacity] \in Value
  <2>1. i - 1 \in 0..Capacity
    BY CapacityAssumption DEF IInv, TypeOK
  <2>2. (head_ + (i - 1)) % Capacity \in Index
    BY <2>1, SlotValue DEF IInv, TypeOK
  <2> QED BY <2>2 DEF IInv, TypeOK
<1>2. Contents \in [1..size_ -> Value]
  BY <1>1 DEF Contents
<1>3. size_ \in Nat
  BY CapacityAssumption DEF IInv, TypeOK
<1> QED BY <1>2, <1>3 DEF Contents, ContentsShape

\* A stored value is appended to the contents: the slot it takes is none of
\* the size_ slots in use.
LEMMA PushAppends ==
  ASSUME IInv, IInv', NEW v \in Value, PushStored(v)
  PROVE  Contents' = Append(Contents, v)
<1>1. /\ Capacity \in Nat \ {0}
      /\ head_ \in Index /\ tail_ \in Index /\ size_ \in 0..(Capacity - 1)
      /\ storage_ \in [Index -> Value]
      /\ head_' = head_ /\ size_' = size_ + 1
      /\ storage_' = [storage_ EXCEPT ![tail_] = v]
  BY CapacityAssumption DEF IInv, TypeOK, PushStored, Full
<1>2. ContentsShape /\ ContentsShape'
  BY ContentsSeq, PTL
<1>3. ASSUME NEW i \in 1..(size_ + 1)
      PROVE  Contents'[i] = Append(Contents, v)[i]
  <2> DEFINE slot == (head_ + (i - 1)) % Capacity
  <2>1. Contents'[i] = storage_'[slot]
    BY <1>1, <1>2 DEF ContentsShape
  <2>2. i - 1 \in 0..Capacity
    BY <1>1
  <2>3. /\ slot \in Index
        /\ slot = IF head_ + (i - 1) < Capacity THEN head_ + (i - 1)
                  ELSE head_ + (i - 1) - Capacity
    BY <1>1, <2>2, SlotValue
  <2>4. CASE i = size_ + 1
    <3>1. slot = tail_
      BY <1>1, <2>4 DEF IInv, FieldsAgree
    <3>2. Contents'[i] = v
      BY <1>1, <2>1, <3>1
    <3>3. Append(Contents, v)[i] = v
      BY <1>1, <1>2, <2>4 DEF ContentsShape
    <3> QED BY <3>2, <3>3
  <2>5. CASE i \in 1..size_
    <3>1. tail_ = IF head_ + size_ < Capacity THEN head_ + size_
                  ELSE head_ + size_ - Capacity
      BY TailValue
    <3>2. slot # tail_
      <4> HIDE DEF slot
      <4> QED BY <1>1, <2>3, <2>5, <3>1 DEF Index
    <3>3. Contents'[i] = Contents[i]
      <4>1. Contents[i] = storage_[slot]
        BY <2>5, <1>2 DEF ContentsShape
      <4> HIDE DEF slot
      <4> QED BY <1>1, <2>1, <2>3, <3>2, <4>1
    <3>4. Append(Contents, v)[i] = Contents[i]
      BY <1>1, <1>2, <2>5 DEF ContentsShape
    <3> QED BY <3>3, <3>4
  <2>6. i = size_ + 1 \/ i \in 1..size_
    BY <1>1
  <2> QED BY <2>4, <2>5, <2>6
<1>4. /\ Append(Contents, v) \in Seq(Value)
      /\ Len(Append(Contents, v)) = size_ + 1
  BY <1>1, <1>2 DEF ContentsShape
<1>5. Contents' \in Seq(Value) /\ Len(Contents') = size_ + 1
  BY <1>1, <1>2 DEF ContentsShape
<1> QED BY <1>3, <1>4, <1>5, SeqEqual

\* A taken value was the first of the contents, and the others move up.
LEMMA PopTakesHead ==
  ASSUME IInv, IInv', PopTaken
  PROVE  /\ Contents # <<>>
         /\ Contents' = Tail(Contents)
         /\ result' = Head(Contents)
<1>1. /\ Capacity \in Nat \ {0}
      /\ head_ \in Index /\ size_ \in 1..Capacity
      /\ storage_ \in [Index -> Value]
      /\ head_' = NextIndex(head_) /\ size_' = size_ - 1
      /\ storage_' = storage_ /\ result' = storage_[head_]
  BY CapacityAssumption DEF IInv, TypeOK, PopTaken, Empty
<1>2. ContentsShape /\ ContentsShape'
  BY ContentsSeq, PTL
<1>3. Contents # <<>> /\ Head(Contents) = storage_[head_]
  <2>1. head_ % Capacity = head_
    BY <1>1, ModLap DEF Index
  <2>2. Contents[1] = storage_[head_ % Capacity]
    <3>1. Contents[1] = storage_[(head_ + (1 - 1)) % Capacity]
      BY <1>1, <1>2 DEF ContentsShape
    <3> QED BY <1>1, <3>1 DEF Index
  <2> QED BY <1>1, <1>2, <2>1, <2>2 DEF ContentsShape
<1>4. /\ Tail(Contents) \in Seq(Value)
      /\ Len(Tail(Contents)) = size_ - 1
      /\ \A i \in 1..(size_ - 1) : Tail(Contents)[i] = Contents[i + 1]
  BY <1>1, <1>2, <1>3 DEF ContentsShape
<1>5. ASSUME NEW i \in 1..(size_ - 1)
      PROVE  Contents'[i] = Tail(Contents)[i]
  <2> DEFINE from == (head_ + i) % Capacity
             to   == (head_' + (i - 1)) % Capacity
  <2>1. Contents'[i] = storage_[to]
    BY <1>1, <1>2 DEF ContentsShape
  <2>2. Contents[i + 1] = storage_[from]
    <3>1. Contents[i + 1] = storage_[(head_ + ((i + 1) - 1)) % Capacity]
      BY <1>1, <1>2 DEF ContentsShape
    <3> QED BY <1>1, <3>1 DEF Index
  <2>3. from = IF head_ + i < Capacity THEN head_ + i
               ELSE head_ + i - Capacity
    BY <1>1, SlotValue
  <2>4. /\ head_' \in Index
        /\ head_' = IF head_ = Capacity - 1 THEN 0 ELSE head_ + 1
    BY <1>1, NextIndexValue
  <2>5. to = IF head_' + (i - 1) < Capacity THEN head_' + (i - 1)
             ELSE head_' + (i - 1) - Capacity
    <3>1. i - 1 \in 0..Capacity
      BY <1>1
    <3> QED BY <2>4, <3>1, SlotValue
  <2>6. to = from
    <3> HIDE DEF to, from
    <3> QED BY <1>1, <2>3, <2>4, <2>5 DEF Index
  <2> QED BY <1>4, <2>1, <2>2, <2>6
<1>6. Contents' \in Seq(Value) /\ Len(Contents') = size_ - 1
  BY <1>1, <1>2 DEF ContentsShape
<1>7. Contents' = Tail(Contents)
  BY <1>4, <1>5, <1>6, SeqEqual
<1> QED BY <1>1, <1>3, <1>7

\* Each step of the ring buffer is the corresponding step of the queue.
LEMMA StepRefines ==
  ASSUME IInv, IInv', [Next]_vars
  PROVE  [Fifo!Next]_<<Contents, result>>
<1>0. ContentsShape /\ size_ \in 0..Capacity /\ Capacity \in Nat \ {0}
  BY ContentsSeq, CapacityAssumption DEF IInv, TypeOK
<1>1. ASSUME NEW v \in Value, PushStored(v) PROVE Fifo!PushOk(v)
  <2>1. Len(Contents) < Capacity
    BY <1>0, <1>1 DEF ContentsShape, PushStored, Full
  <2> QED BY <1>1, <2>1, PushAppends DEF PushStored, Fifo!PushOk
<1>2. CASE PushRefused
  BY <1>0, <1>2 DEF PushRefused, Full, ContentsShape, Contents,
                    Fifo!PushRefused, Fifo!Next
<1>3. CASE PopTaken
  BY <1>3, PopTakesHead DEF PopTaken, Fifo!PopOk, Fifo!Next
<1>4. CASE PopRefused
  BY <1>0, <1>4 DEF PopRefused, Empty, ContentsShape, Contents,
                    Fifo!PopRefused, Fifo!Next
<1>5. CASE UNCHANGED vars
  BY <1>5 DEF vars, Contents
<1> QED
  BY <1>1, <1>2, <1>3, <1>4, <1>5 DEF Next, Push, Pop, Fifo!Next

\* RingBuffer implements the bounded FIFO queue: for every capacity, values
\* leave in the order they entered, none is lost, duplicated or overwritten,
\* a push is refused exactly when Capacity values are held and a pop answers
\* nullopt exactly when none is.
THEOREM RingBufferImplementsFifo == Spec => ImplementsFifo
<1>1. Init => Fifo!Init
  <2> SUFFICES ASSUME Init PROVE Fifo!Init
    OBVIOUS
  <2>1. ContentsShape /\ size_ = 0 /\ result = nullopt
    BY InitIInv, ContentsSeq DEF Init
  <2> QED BY <2>1 DEF ContentsShape, Fifo!Init
<1>2. IInv /\ IInv' /\ [Next]_vars => [Fifo!Next]_<<Contents, result>>
  BY StepRefines
<1>3. Spec => []IInv
  BY InitIInv, NextIInv, PTL DEF Spec
<1> QED
  BY <1>1, <1>2, <1>3, PTL DEF Spec, ImplementsFifo, Fifo!Spec

============================================================================
