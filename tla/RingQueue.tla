----------------------------- MODULE RingQueue -----------------------------
(***************************************************************************)
(* The ring buffer of open/lib/queue.lua: a table indexed modulo           *)
(* _maxindex with a first and a last cursor and a counter.  It implements  *)
(* the bounded queue of module Fifo.                                       *)
(***************************************************************************)
EXTENDS Integers, Sequences

CONSTANTS
  Capacity,  \* _maxindex
  Values,    \* what callers store
  Nil        \* Lua's nil: an absent table entry

ASSUME CapacityAssumption == Capacity \in Nat \ {0}
ASSUME NilAssumption == Nil \notin Values

VARIABLES
  first,     \* _first: index of the oldest value
  last,      \* _last: index of the newest value
  counter,   \* _counter: number of values
  value,     \* _value
  ret        \* what the last call returned

vars == <<first, last, counter, value, ret>>

Slots == 0 .. Capacity - 1

Init ==
  /\ first = 0
  /\ last = -1
  /\ counter = 0
  /\ value = [s \in Slots |-> Nil]
  /\ ret = "ok"

(* Mutant of Push: the cursor moves after the write.                       *)
PushWritesFirst(v) ==
  \/ /\ counter >= Capacity
     /\ ret' = "full"
     /\ UNCHANGED <<first, last, counter, value>>
  \/ /\ counter < Capacity
     /\ value' = [value EXCEPT ![IF last = -1 THEN 0 ELSE last] = v]
     /\ last' = (last + 1) % Capacity
     /\ counter' = counter + 1
     /\ ret' = "ok"
     /\ UNCHANGED first

Push(v) ==
  \/ /\ counter >= Capacity
     /\ ret' = "full"
     /\ UNCHANGED <<first, last, counter, value>>
  \/ /\ counter < Capacity
     /\ last' = (last + 1) % Capacity
     /\ value' = [value EXCEPT ![last'] = v]
     /\ counter' = counter + 1
     /\ ret' = "ok"
     /\ UNCHANGED first

(* Mutant of Pull: the slot is not cleared.                                *)
PullKeepsValue ==
  \/ /\ counter = 0
     /\ ret' = "empty"
     /\ UNCHANGED <<first, last, counter, value>>
  \/ /\ counter # 0
     /\ ret' = value[first]
     /\ first' = (first + 1) % Capacity
     /\ counter' = counter - 1
     /\ UNCHANGED <<last, value>>

Pull ==
  \/ /\ counter = 0
     /\ ret' = "empty"
     /\ UNCHANGED <<first, last, counter, value>>
  \/ /\ counter # 0
     /\ ret' = value[first]
     /\ value' = [value EXCEPT ![first] = Nil]
     /\ first' = (first + 1) % Capacity
     /\ counter' = counter - 1
     /\ UNCHANGED last

(* free() clears slots from the front until the queue is empty, or until a *)
(* destructor fails on a value, which then stays: k slots are cleared.     *)
Free(k) ==
  /\ k <= counter
  /\ value' = [s \in Slots |-> IF \E i \in 0 .. k - 1 : s = (first + i) % Capacity
                                 THEN Nil ELSE value[s]]
  /\ first' = (first + k) % Capacity
  /\ counter' = counter - k
  /\ ret' = "freed"
  /\ UNCHANGED last

Next ==
  \/ \E v \in Values : Push(v)
  \/ Pull
  \/ \E k \in 0 .. Capacity : Free(k)

Spec == Init /\ [][Next]_vars

----------------------------------------------------------------------------
TypeOK ==
  /\ first \in Slots
  /\ last \in -1 .. Capacity - 1
  /\ counter \in 0 .. Capacity
  /\ value \in [Slots -> Values \union {Nil}]
  /\ ret \in Values \union {Nil, "ok", "full", "empty", "freed"}

(* The i-th oldest value, counting from 0, is in this slot.                *)
SlotOf(i) == (first + i) % Capacity

(* The next free slot follows the newest value: no wrap-around, and no     *)
(* draining of the queue, puts the cursors out of step with the counter.   *)
CursorsAgree == (last + 1) % Capacity = SlotOf(counter)

(* A slot holds a value exactly when it is in the window of the counter    *)
(* oldest ones: nothing queued is lost, nothing pulled stays referenced.   *)
WindowIsFull ==
  \A s \in Slots : value[s] # Nil <=> \E i \in 0 .. counter - 1 : s = SlotOf(i)

(* Refinement: the values in the window, oldest first, are the abstract    *)
(* queue.                                                                  *)
Contents == [i \in 1 .. counter |-> value[SlotOf(i - 1)]]

Queue == INSTANCE Fifo WITH items <- Contents

(* Every call does to the contents, and returns, what the abstract queue   *)
(* does.                                                                   *)
ImplementsFifo == Queue!Spec
============================================================================
