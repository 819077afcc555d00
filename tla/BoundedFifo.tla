----------------------------- MODULE BoundedFifo -----------------------------
(***************************************************************************)
(* What RingBuffer<T, Capacity> promises: a first-in first-out queue that  *)
(* refuses a value when it holds Capacity of them and answers nullopt when *)
(* it holds none.                                                          *)
(***************************************************************************)
EXTENDS Naturals, Sequences

CONSTANTS Value, Capacity, nullopt

VARIABLES
  queue,    \* the values held, oldest first
  result    \* what the last call returned

Init == queue = <<>> /\ result = nullopt

PushOk(v) ==
  /\ Len(queue) < Capacity
  /\ queue' = Append(queue, v)
  /\ result' = TRUE

PushRefused ==
  /\ Len(queue) = Capacity
  /\ result' = FALSE
  /\ UNCHANGED queue

PopOk ==
  /\ queue # <<>>
  /\ queue' = Tail(queue)
  /\ result' = Head(queue)

PopRefused ==
  /\ queue = <<>>
  /\ result' = nullopt
  /\ UNCHANGED queue

Next == (\E v \in Value : PushOk(v)) \/ PushRefused \/ PopOk \/ PopRefused

Spec == Init /\ [][Next]_<<queue, result>>

============================================================================
