-------------------------------- MODULE Fifo --------------------------------
(***************************************************************************)
(* What a queue of open/lib/queue.lua promises: a bounded first-in         *)
(* first-out sequence of values.                                           *)
(***************************************************************************)
EXTENDS Naturals, Sequences

CONSTANTS Capacity, Values

VARIABLES
  items,   \* the queued values, oldest first
  ret      \* what the last call returned

Init == items = << >> /\ ret = "ok"

(* A value is queued unless the queue is full.                             *)
Push(v) ==
  IF Len(items) < Capacity
    THEN items' = Append(items, v) /\ ret' = "ok"
    ELSE UNCHANGED items /\ ret' = "full"

(* The oldest value is taken.                                              *)
Pull ==
  IF items = << >>
    THEN UNCHANGED items /\ ret' = "empty"
    ELSE items' = Tail(items) /\ ret' = Head(items)

(* The k oldest values are destroyed: all of them unless a destructor      *)
(* failed.                                                                 *)
Free(k) ==
  /\ k <= Len(items)
  /\ items' = SubSeq(items, k + 1, Len(items))
  /\ ret' = "freed"

Next ==
  \/ \E v \in Values : Push(v)
  \/ Pull
  \/ \E k \in 0 .. Capacity : Free(k)

Spec == Init /\ [][Next]_<<items, ret>>
=============================================================================
