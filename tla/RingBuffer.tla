----------------------------- MODULE RingBuffer -----------------------------
(***************************************************************************)
(* RingBuffer<T, Capacity> (include/llgw/ring_buffer.hpp): a fixed array   *)
(* with a head index, a tail index and a separate element count.  A popped *)
(* slot keeps its old value until it is overwritten.                       *)
(***************************************************************************)
EXTENDS Integers, Sequences

CONSTANTS
  Value,      \* the values pushed
  Default,    \* a value-initialised T: the content of storage_{}
  Capacity,   \* the template parameter
  nullopt     \* std::nullopt

\* The static_assert of the class; a T is neither a bool nor nullopt.
ASSUME CapacityAssumption == Capacity \in Nat \ {0}
ASSUME DefaultAssumption == Default \in Value
ASSUME ResultAssumption == nullopt \notin Value

VARIABLES storage_, head_, tail_, size_,
          result      \* what the last call returned

vars == <<storage_, head_, tail_, size_, result>>

Index == 0..(Capacity - 1)

\* Mutants: no wrap, and a wrap one slot early.
NextIndexNoWrap(index) == index + 1

NextIndexShort(index) == (index + 1) % (Capacity - 1)

NextIndex(index) == (index + 1) % Capacity

Empty == size_ = 0

\* Mutant: one slot is kept free, as when there is no separate count.
FullOneShort == NextIndex(tail_) = head_

Full == size_ = Capacity

Init ==
  /\ storage_ = [i \in Index |-> Default]
  /\ head_ = 0 /\ tail_ = 0 /\ size_ = 0
  /\ result = nullopt

PushStored(v) ==
  /\ ~Full
  /\ storage_' = [storage_ EXCEPT ![tail_] = v]
  /\ tail_' = NextIndex(tail_)
  /\ size_' = size_ + 1
  /\ result' = TRUE
  /\ UNCHANGED head_

PushRefused ==
  /\ Full
  /\ result' = FALSE
  /\ UNCHANGED <<storage_, head_, tail_, size_>>

Push(v) == PushStored(v) \/ PushRefused

PopTaken ==
  /\ ~Empty
  /\ result' = storage_[head_]
  /\ head_' = NextIndex(head_)
  /\ size_' = size_ - 1
  /\ UNCHANGED <<storage_, tail_>>

PopRefused ==
  /\ Empty
  /\ result' = nullopt
  /\ UNCHANGED <<storage_, head_, tail_, size_>>

Pop == PopTaken \/ PopRefused

Next == (\E v \in Value : Push(v)) \/ Pop

Spec == Init /\ [][Next]_vars

----------------------------------------------------------------------------
(* Properties *)

\* The indexes stay inside the array and the count within its length.
TypeOK ==
  /\ storage_ \in [Index -> Value]
  /\ head_ \in Index
  /\ tail_ \in Index
  /\ size_ \in 0..Capacity
  /\ result \in Value \cup BOOLEAN \cup {nullopt}

\* The three independently updated fields agree: tail_ is size_ slots ahead
\* of head_.  This is why Empty and Full may look at size_ alone, although
\* head_ = tail_ both when the buffer is empty and when it is full.
FieldsAgree == tail_ = (head_ + size_) % Capacity

\* The values held, oldest first.
Contents == [i \in 1..size_ |-> storage_[(head_ + (i - 1)) % Capacity]]

Fifo == INSTANCE BoundedFifo WITH queue <- Contents

\* Through every wrap of the two indexes the buffer behaves as a bounded
\* first-in first-out queue: nothing lost, duplicated, reordered or
\* overwritten, refused exactly when full, nullopt exactly when empty.
ImplementsFifo == Fifo!Spec

============================================================================
