--------------------------- MODULE LuaDataProofs ---------------------------
(***************************************************************************)
(* Proofs about the libraries that keep or carry data: RingQueue, for      *)
(* every capacity, its type and index invariants and that it implements    *)
(* Fifo; HttpAsk, for every answer of a peer however it is cut up;         *)
(* BufferedStream, for every choice of timeouts, buffers and letters; and  *)
(* HashRing, which libconhash implements, for any nodes and hash values.   *)
(***************************************************************************)
EXTENDS RingQueue, HttpAsk, BufferedStream, SequenceTheorems, NaturalsInduction,
        WellFoundedInduction, TLAPS

USE CapacityAssumption, NilAssumption DEF CapacityAssumption, NilAssumption

(* An index is reduced modulo the capacity by at most one subtraction.     *)
LEMMA Wrap ==
  ASSUME NEW a \in 0 .. 2 * Capacity - 1
  PROVE  /\ a % Capacity = IF a < Capacity THEN a ELSE a - Capacity
         /\ a % Capacity \in Slots
  BY DEF Slots

(* Advancing a cursor by k and then by j advances it by k + j.             *)
LEMMA AdvanceTwice ==
  ASSUME NEW a \in Slots, NEW k \in 0 .. Capacity, NEW j \in 0 .. Capacity, k + j <= Capacity
  PROVE  (((a + k) % Capacity) + j) % Capacity = (a + k + j) % Capacity
<1>1. /\ a + k \in 0 .. 2 * Capacity - 1
      /\ a + k + j \in 0 .. 2 * Capacity - 1
  BY DEF Slots
<1>2. (a + k) % Capacity \in Slots
  BY <1>1, Wrap
<1>3. ((a + k) % Capacity) + j \in 0 .. 2 * Capacity - 1
  BY <1>2 DEF Slots
<1>4. QED
  BY <1>1, <1>2, <1>3, Wrap DEF Slots

(* Different offsets below the capacity are different slots.               *)
LEMMA SlotsDiffer ==
  ASSUME NEW a \in Slots, NEW i \in 0 .. Capacity - 1, NEW j \in 0 .. Capacity - 1,
         (a + i) % Capacity = (a + j) % Capacity
  PROVE  i = j
<1>1. a + i \in 0 .. 2 * Capacity - 1 /\ a + j \in 0 .. 2 * Capacity - 1
  BY DEF Slots
<1>2. QED
  BY <1>1, Wrap DEF Slots

(* Every variable keeps its type; in particular the counter never leaves   *)
(* 0 .. Capacity.                                                          *)
THEOREM TypeCorrect == Spec => []TypeOK
<1>1. Init => TypeOK
  BY DEF Init, TypeOK, Slots
<1>2. TypeOK /\ [Next]_vars => TypeOK'
  <2> SUFFICES ASSUME TypeOK, [Next]_vars
               PROVE  TypeOK'
    OBVIOUS
  <2>1. ASSUME NEW v \in Values, Push(v)
        PROVE  TypeOK'
    <3>1. CASE counter >= Capacity
      BY <2>1, <3>1 DEF Push, TypeOK
    <3>2. CASE counter < Capacity
      <4>1. last' \in Slots
        BY <2>1, <3>2, Wrap DEF Push, TypeOK
      <4>2. value' \in [Slots -> Values \union {Nil}]
        BY <2>1, <3>2, <4>1 DEF Push, TypeOK
      <4>3. QED
        BY <2>1, <3>2, <4>1, <4>2 DEF Push, TypeOK, Slots
    <3>3. QED
      BY <3>1, <3>2 DEF TypeOK
  <2>2. CASE Pull
    <3>1. CASE counter = 0
      BY <2>2, <3>1 DEF Pull, TypeOK
    <3>2. CASE counter # 0
      <4>1. first' \in Slots
        BY <2>2, <3>2, Wrap DEF Pull, TypeOK, Slots
      <4>2. QED
        BY <2>2, <3>2, <4>1 DEF Pull, TypeOK
    <3>3. QED
      BY <3>1, <3>2
  <2>3. ASSUME NEW k \in 0 .. Capacity, Free(k)
        PROVE  TypeOK'
    <3>1. first' \in Slots
      BY <2>3, Wrap DEF Free, TypeOK, Slots
    <3>2. QED
      BY <2>3, <3>1 DEF Free, TypeOK
  <2>4. CASE UNCHANGED vars
    BY <2>4 DEF vars, TypeOK
  <2>5. QED
    BY <2>1, <2>2, <2>3, <2>4 DEF Next
<1>3. QED
  BY <1>1, <1>2, PTL DEF Spec

(* The cursors and the counter, and the slots and the window, stay in step *)
(* through any sequence of calls, wrap-around included.                    *)
THEOREM WindowInvariance == Spec => [](CursorsAgree /\ WindowIsFull)
<1>1. Init => CursorsAgree /\ WindowIsFull
  <2>1. 0 % Capacity = 0
    BY Wrap
  <2>2. QED
    BY <2>1 DEF Init, CursorsAgree, WindowIsFull, SlotOf, Slots
<1>2. TypeOK /\ TypeOK' /\ CursorsAgree /\ WindowIsFull /\ [Next]_vars
        => CursorsAgree' /\ WindowIsFull'
  <2> SUFFICES ASSUME TypeOK, TypeOK', CursorsAgree, WindowIsFull, [Next]_vars
               PROVE  CursorsAgree' /\ WindowIsFull'
    OBVIOUS
  <2>1. ASSUME NEW v \in Values, Push(v)
        PROVE  CursorsAgree' /\ WindowIsFull'
    <3>1. CASE counter >= Capacity
      <4>1. UNCHANGED <<first, last, counter, value>>
        BY <2>1, <3>1 DEF Push, TypeOK
      <4>2. QED
        BY <4>1 DEF CursorsAgree, WindowIsFull, SlotOf
    <3>2. CASE counter < Capacity
      <4>1. /\ first' = first /\ counter' = counter + 1
            /\ last' = SlotOf(counter)
            /\ value' = [value EXCEPT ![last'] = v]
        BY <2>1, <3>2 DEF Push, TypeOK, CursorsAgree
      <4>2. last' \in Slots
        BY <4>1, Wrap DEF SlotOf, TypeOK, Slots
      <4>3. CursorsAgree'
        <5>1. (SlotOf(counter) + 1) % Capacity = (first + counter + 1) % Capacity
          BY <3>2, AdvanceTwice DEF SlotOf, TypeOK
        <5>2. QED
          BY <4>1, <5>1 DEF CursorsAgree, SlotOf, TypeOK, Slots
      <4>4. ASSUME NEW s \in Slots
            PROVE  value'[s] # Nil <=> \E i \in 0 .. counter' - 1 : s = SlotOf(i)'
        <5>1. CASE s = SlotOf(counter)
          <6>1. value'[s] = v
            BY <4>1, <5>1 DEF TypeOK
          <6>2. PICK c \in Nat : c = counter
            BY DEF TypeOK
          <6>3. c \in 0 .. counter' - 1 /\ s = SlotOf(c)'
            BY <4>1, <5>1, <6>2 DEF TypeOK, SlotOf
          <6>4. v # Nil
            OBVIOUS
          <6>5. QED
            BY <6>1, <6>3, <6>4
        <5>2. CASE s # SlotOf(counter)
          <6>1. value'[s] = value[s]
            BY <4>1, <5>2 DEF TypeOK
          <6>2. (\E i \in 0 .. counter' - 1 : s = SlotOf(i)')
                  <=> \E i \in 0 .. counter - 1 : s = SlotOf(i)
            BY <4>1, <5>2 DEF TypeOK, SlotOf
          <6>3. QED
            BY <6>1, <6>2 DEF WindowIsFull
        <5>3. QED
          BY <5>1, <5>2
      <4>5. QED
        BY <4>3, <4>4 DEF WindowIsFull
    <3>3. QED
      BY <3>1, <3>2 DEF TypeOK
  <2>2. CASE Pull
    <3>1. CASE counter = 0
      BY <2>2, <3>1 DEF Pull, TypeOK, CursorsAgree, WindowIsFull, SlotOf
    <3>2. CASE counter # 0
      <4>1. /\ last' = last /\ counter' = counter - 1
            /\ first' = SlotOf(1)
            /\ value' = [value EXCEPT ![first] = Nil]
        BY <2>2, <3>2 DEF Pull, SlotOf
      <4>2. \A i \in 0 .. counter - 1 : SlotOf(i)' = SlotOf(i + 1)
        <5> SUFFICES ASSUME NEW i \in 0 .. counter - 1
                     PROVE  SlotOf(i)' = SlotOf(i + 1)
          OBVIOUS
        <5>1. (((first + 1) % Capacity) + i) % Capacity = (first + 1 + i) % Capacity
          BY AdvanceTwice DEF TypeOK
        <5>2. QED
          BY <4>1, <5>1 DEF SlotOf, TypeOK, Slots
      <4>3. CursorsAgree'
        BY <3>2, <4>1, <4>2 DEF CursorsAgree, TypeOK
      <4>4. first = SlotOf(0)
        <5>1. first + 0 = first /\ first \in 0 .. 2 * Capacity - 1 /\ first < Capacity
          BY DEF TypeOK, Slots
        <5>2. QED
          BY <5>1, Wrap DEF SlotOf
      <4>5. ASSUME NEW s \in Slots
            PROVE  value'[s] # Nil <=> \E i \in 0 .. counter' - 1 : s = SlotOf(i)'
        <5>1. CASE s = first
          <6>1. value'[s] = Nil
            BY <4>1, <5>1 DEF TypeOK
          <6>2. ASSUME NEW i \in 0 .. counter' - 1, s = SlotOf(i)'
                PROVE  FALSE
            <7>1. SlotOf(i + 1) = SlotOf(0)
              BY <4>1, <4>2, <4>4, <5>1, <6>2 DEF TypeOK
            <7>2. i + 1 \in 0 .. Capacity - 1 /\ 0 \in 0 .. Capacity - 1
              BY <4>1 DEF TypeOK
            <7>3. i + 1 = 0
              BY <7>1, <7>2, SlotsDiffer DEF SlotOf, TypeOK
            <7>4. QED
              BY <7>3
          <6>3. QED
            BY <6>1, <6>2
        <5>2. CASE s # first
          <6>1. value'[s] = value[s]
            BY <4>1, <5>2 DEF TypeOK
          <6>2. ASSUME NEW i \in 0 .. counter - 1, s = SlotOf(i)
                PROVE  \E j \in 0 .. counter' - 1 : s = SlotOf(j)'
            <7>1. i # 0
              BY <4>4, <5>2, <6>2
            <7>2. i - 1 \in 0 .. counter' - 1 /\ i - 1 \in 0 .. counter - 1 /\ i - 1 + 1 = i
              BY <4>1, <7>1 DEF TypeOK
            <7>3. s = SlotOf(i - 1)'
              BY <4>2, <6>2, <7>2
            <7>4. QED
              BY <7>2, <7>3
          <6>3. ASSUME NEW i \in 0 .. counter' - 1, s = SlotOf(i)'
                PROVE  \E j \in 0 .. counter - 1 : s = SlotOf(j)
            <7>1. i \in 0 .. counter - 1 /\ i + 1 \in 0 .. counter - 1
              BY <4>1 DEF TypeOK
            <7>2. QED
              BY <4>2, <6>3, <7>1
          <6>4. QED
            BY <6>1, <6>2, <6>3 DEF WindowIsFull
        <5>3. QED
          BY <5>1, <5>2
      <4>6. QED
        BY <4>3, <4>5 DEF WindowIsFull
    <3>3. QED
      BY <3>1, <3>2
  <2>3. ASSUME NEW k \in 0 .. Capacity, Free(k)
        PROVE  CursorsAgree' /\ WindowIsFull'
    <3>1. /\ k \in 0 .. counter
          /\ last' = last /\ counter' = counter - k
          /\ first' = SlotOf(k)
          /\ value' = [s \in Slots |-> IF \E i \in 0 .. k - 1 : s = SlotOf(i)
                                          THEN Nil ELSE value[s]]
      BY <2>3 DEF Free, SlotOf, TypeOK
    <3>2. \A i \in 0 .. counter - k : SlotOf(i)' = SlotOf(k + i)
      <4> SUFFICES ASSUME NEW i \in 0 .. counter - k
                   PROVE  SlotOf(i)' = SlotOf(k + i)
        OBVIOUS
      <4>1. i \in 0 .. Capacity /\ k + i <= Capacity
        BY <3>1 DEF TypeOK
      <4>2. (((first + k) % Capacity) + i) % Capacity = (first + k + i) % Capacity
        BY <4>1, AdvanceTwice DEF TypeOK
      <4>3. QED
        BY <3>1, <4>1, <4>2 DEF SlotOf, TypeOK, Slots
    <3>3. CursorsAgree'
      <4>1. PICK c \in 0 .. counter - k : c = counter - k
        BY <3>1 DEF TypeOK
      <4>2. SlotOf(c)' = SlotOf(counter)
        <5>1. k + c = counter
          BY <3>1, <4>1 DEF TypeOK
        <5>2. QED
          BY <3>2, <5>1
      <4>3. QED
        BY <3>1, <4>1, <4>2 DEF CursorsAgree, SlotOf
    <3>4. ASSUME NEW s \in Slots
          PROVE  value'[s] # Nil <=> \E i \in 0 .. counter' - 1 : s = SlotOf(i)'
      <4>1. CASE \E i \in 0 .. k - 1 : s = SlotOf(i)
        <5>1. value'[s] = Nil
          BY <3>1, <4>1
        <5>2. PICK h \in 0 .. k - 1 : s = SlotOf(h)
          BY <4>1
        <5>3. ASSUME NEW i \in 0 .. counter' - 1, s = SlotOf(i)'
              PROVE  FALSE
          <6>1. SlotOf(k + i) = SlotOf(h)
            BY <3>1, <3>2, <5>2, <5>3 DEF TypeOK
          <6>2. k + i \in 0 .. Capacity - 1 /\ h \in 0 .. Capacity - 1 /\ k + i > h
            BY <3>1 DEF TypeOK
          <6>3. k + i = h
            BY <6>1, <6>2, SlotsDiffer DEF SlotOf, TypeOK
          <6>4. QED
            BY <6>2, <6>3
        <5>4. QED
          BY <5>1, <5>3
      <4>2. CASE ~ \E i \in 0 .. k - 1 : s = SlotOf(i)
        <5>1. value'[s] = value[s]
          BY <3>1, <4>2
        <5>2. ASSUME NEW i \in 0 .. counter - 1, s = SlotOf(i)
              PROVE  \E j \in 0 .. counter' - 1 : s = SlotOf(j)'
          <6>1. i >= k
            BY <3>1, <4>2, <5>2 DEF TypeOK
          <6>2. i - k \in 0 .. counter' - 1 /\ i - k \in 0 .. counter - k /\ k + (i - k) = i
            BY <3>1, <6>1 DEF TypeOK
          <6>3. s = SlotOf(i - k)'
            BY <3>2, <5>2, <6>2
          <6>4. QED
            BY <6>2, <6>3
        <5>3. ASSUME NEW i \in 0 .. counter' - 1, s = SlotOf(i)'
              PROVE  \E j \in 0 .. counter - 1 : s = SlotOf(j)
          <6>1. i \in 0 .. counter - k /\ k + i \in 0 .. counter - 1
            BY <3>1 DEF TypeOK
          <6>2. QED
            BY <3>2, <5>3, <6>1
        <5>4. QED
          BY <5>1, <5>2, <5>3 DEF WindowIsFull
      <4>3. QED
        BY <4>1, <4>2
    <3>5. QED
      BY <3>3, <3>4 DEF WindowIsFull
  <2>4. CASE UNCHANGED vars
    BY <2>4 DEF vars, CursorsAgree, WindowIsFull, SlotOf
  <2>5. QED
    BY <2>1, <2>2, <2>3, <2>4 DEF Next
<1>3. QED
  BY <1>1, <1>2, TypeCorrect, PTL DEF Spec

(* The window read as a sequence: its length is the counter and its        *)
(* elements are values, never nil.                                         *)
LEMMA ContentsIsSequence ==
  ASSUME TypeOK, WindowIsFull
  PROVE  /\ Contents \in Seq(Values)
         /\ Len(Contents) = counter
         /\ \A i \in 1 .. counter : Contents[i] = value[SlotOf(i - 1)]
<1>1. ASSUME NEW i \in 1 .. counter
      PROVE  value[SlotOf(i - 1)] \in Values
  <2>1. i - 1 \in 0 .. counter - 1 /\ first + (i - 1) \in 0 .. 2 * Capacity - 1
    BY DEF TypeOK, Slots
  <2>2. SlotOf(i - 1) \in Slots
    BY <2>1, Wrap DEF SlotOf
  <2>3. value[SlotOf(i - 1)] # Nil
    BY <2>1, <2>2 DEF WindowIsFull
  <2>4. QED
    BY <2>2, <2>3 DEF TypeOK
<1>2. counter \in Nat
  BY DEF TypeOK
<1>3. QED
  BY <1>1, <1>2 DEF Contents

(* queue.lua implements the bounded FIFO: Init maps to its Init, and every *)
(* call to the abstract call of the same name.                             *)
THEOREM Implementation == Spec => ImplementsFifo
<1> DEFINE abstractVars == <<Contents, ret>>
<1>1. Init => Queue!Init
  BY DEF Init, Queue!Init, Contents
<1>2. /\ TypeOK /\ TypeOK' /\ WindowIsFull /\ WindowIsFull' /\ CursorsAgree /\ [Next]_vars
      => [Queue!Next]_abstractVars
  <2> SUFFICES ASSUME TypeOK, TypeOK', WindowIsFull, WindowIsFull', CursorsAgree, [Next]_vars
               PROVE  [Queue!Next]_abstractVars
    OBVIOUS
  <2>0. /\ Contents \in Seq(Values)
        /\ Len(Contents) = counter
        /\ \A i \in 1 .. counter : Contents[i] = value[SlotOf(i - 1)]
    BY ContentsIsSequence
  <2>1. ASSUME NEW v \in Values, Push(v)
        PROVE  Queue!Push(v)
    <3>1. CASE counter >= Capacity
      BY <2>0, <2>1, <3>1 DEF Push, Queue!Push, Contents, SlotOf, TypeOK
    <3>2. CASE counter < Capacity
      <4>1. /\ first' = first /\ counter' = counter + 1 /\ ret' = "ok"
            /\ last' = SlotOf(counter)
            /\ value' = [value EXCEPT ![SlotOf(counter)] = v]
        BY <2>1, <3>2 DEF Push, CursorsAgree, TypeOK
      <4>2. \A i \in 0 .. counter : SlotOf(i)' = SlotOf(i) /\ SlotOf(i) \in Slots
        <5> SUFFICES ASSUME NEW i \in 0 .. counter
                     PROVE  SlotOf(i)' = SlotOf(i) /\ SlotOf(i) \in Slots
          OBVIOUS
        <5>1. first + i \in 0 .. 2 * Capacity - 1
          BY <3>2 DEF TypeOK, Slots
        <5>2. QED
          BY <4>1, <5>1, Wrap DEF SlotOf
      <4>3. Contents' = [i \in 1 .. counter + 1 |-> value'[SlotOf(i - 1)]]
        <5>1. \A i \in 1 .. counter + 1 : i - 1 \in 0 .. counter
          BY DEF TypeOK
        <5>2. Contents' = [i \in 1 .. counter + 1 |-> value'[SlotOf(i - 1)']]
          BY <4>1 DEF Contents
        <5>3. QED
          BY <4>2, <5>1, <5>2
      <4>4. ASSUME NEW i \in 1 .. counter
            PROVE  value'[SlotOf(i - 1)] = Contents[i]
        <5>1. i - 1 \in 0 .. Capacity - 1 /\ counter \in 0 .. Capacity - 1 /\ i - 1 # counter
              /\ i - 1 \in 0 .. counter
          BY <3>2 DEF TypeOK
        <5>2. SlotOf(i - 1) # SlotOf(counter)
          BY <5>1, SlotsDiffer DEF SlotOf, TypeOK
        <5>3. QED
          BY <2>0, <4>1, <4>2, <5>1, <5>2 DEF TypeOK
      <4>5. value'[SlotOf(counter)] = v
        BY <4>1, <4>2 DEF TypeOK
      <4>6. Contents' = Append(Contents, v)
        <5>1. \A i \in 1 .. counter + 1 :
                value'[SlotOf(i - 1)] = IF i <= counter THEN Contents[i] ELSE v
          <6> SUFFICES ASSUME NEW i \in 1 .. counter + 1
                       PROVE  value'[SlotOf(i - 1)] = IF i <= counter THEN Contents[i] ELSE v
            OBVIOUS
          <6>1. i \in 1 .. counter \/ i - 1 = counter
            BY DEF TypeOK
          <6>2. i \in 1 .. counter => i <= counter
            BY DEF TypeOK
          <6>3. i - 1 = counter => ~(i <= counter)
            BY DEF TypeOK
          <6>4. QED
            BY <4>4, <4>5, <6>1, <6>2, <6>3
        <5>2. Append(Contents, v)
                = [i \in 1 .. counter + 1 |-> IF i <= counter THEN Contents[i] ELSE v]
          <6>1. /\ Append(Contents, v) \in Seq(Values)
                /\ Len(Append(Contents, v)) = counter + 1
                /\ \A i \in 1 .. counter : Append(Contents, v)[i] = Contents[i]
                /\ Append(Contents, v)[counter + 1] = v
            BY <2>0, AppendProperties
          <6>2. Append(Contents, v) \in [1 .. counter + 1 -> Values]
            BY <6>1, LenProperties
          <6>3. \A i \in 1 .. counter + 1 : (i <= counter => i \in 1 .. counter)
                                         /\ (~(i <= counter) => i = counter + 1)
            BY DEF TypeOK
          <6>4. QED
            BY <6>1, <6>2, <6>3
        <5>3. QED
          BY <4>3, <5>1, <5>2
      <4>7. QED
        BY <2>0, <3>2, <4>1, <4>6 DEF Queue!Push
    <3>3. QED
      BY <3>1, <3>2 DEF TypeOK
  <2>2. ASSUME Pull
        PROVE  Queue!Pull
    <3>1. CASE counter = 0
      BY <2>0, <2>2, <3>1 DEF Pull, Queue!Pull, Contents, SlotOf
    <3>2. CASE counter # 0
      <4>1. /\ first' = (first + 1) % Capacity /\ counter' = counter - 1
            /\ ret' = value[first]
            /\ value' = [value EXCEPT ![first] = Nil]
        BY <2>2, <3>2 DEF Pull
      <4>2. first = SlotOf(0)
        <5>1. first + 0 = first /\ first \in 0 .. 2 * Capacity - 1 /\ first < Capacity
          BY DEF TypeOK, Slots
        <5>2. QED
          BY <5>1, Wrap DEF SlotOf
      <4>3. ret' = Head(Contents)
        BY <2>0, <3>2, <4>1, <4>2 DEF TypeOK
      <4>4. ASSUME NEW i \in 1 .. counter - 1
            PROVE  value'[SlotOf(i - 1)'] = Contents[i + 1]
        <5>1. (((first + 1) % Capacity) + (i - 1)) % Capacity = (first + 1 + (i - 1)) % Capacity
          BY AdvanceTwice DEF TypeOK
        <5>2. SlotOf(i - 1)' = SlotOf(i)
          BY <4>1, <5>1 DEF SlotOf, TypeOK, Slots
        <5>3. i \in 0 .. Capacity - 1 /\ 0 \in 0 .. Capacity - 1 /\ i # 0
          BY DEF TypeOK
        <5>4. SlotOf(i) # first
          BY <4>2, <5>3, SlotsDiffer DEF SlotOf, TypeOK
        <5>5. value'[SlotOf(i)] = value[SlotOf(i)]
          BY <4>1, <5>4 DEF TypeOK
        <5>6. i + 1 \in 1 .. counter /\ i + 1 - 1 = i
          BY DEF TypeOK
        <5>7. QED
          BY <2>0, <5>2, <5>5, <5>6
      <4>5. Contents' = Tail(Contents)
        <5>1. Contents' = [i \in 1 .. counter - 1 |-> value'[SlotOf(i - 1)']]
          BY <4>1 DEF Contents
        <5>2. Tail(Contents) = [i \in 1 .. counter - 1 |-> Contents[i + 1]]
          <6>1. Contents # << >> /\ Len(Contents) - 1 = counter - 1
            BY <2>0, <3>2 DEF TypeOK
          <6>2. /\ Tail(Contents) \in Seq(Values)
                /\ Len(Tail(Contents)) = counter - 1
                /\ \A i \in 1 .. Len(Tail(Contents)) : Tail(Contents)[i] = Contents[i + 1]
            BY <2>0, <6>1, HeadTailProperties
          <6>3. Tail(Contents) \in [1 .. counter - 1 -> Values]
            BY <6>2, LenProperties
          <6>4. QED
            BY <6>2, <6>3
        <5>3. QED
          BY <4>4, <5>1, <5>2
      <4>6. QED
        BY <2>0, <3>2, <4>3, <4>5 DEF Queue!Pull
    <3>3. QED
      BY <3>1, <3>2
  <2>3. ASSUME NEW k \in 0 .. Capacity, Free(k)
        PROVE  Queue!Free(k)
    <3>1. /\ k \in 0 .. counter
          /\ counter' = counter - k /\ ret' = "freed"
          /\ first' = (first + k) % Capacity
          /\ value' = [s \in Slots |-> IF \E i \in 0 .. k - 1 : s = SlotOf(i)
                                          THEN Nil ELSE value[s]]
      BY <2>3 DEF Free, SlotOf, TypeOK
    <3>2. ASSUME NEW i \in 1 .. counter - k
          PROVE  value'[SlotOf(i - 1)'] = Contents[k + i]
      <4>1. (((first + k) % Capacity) + (i - 1)) % Capacity = (first + k + (i - 1)) % Capacity
        <5>1. i - 1 \in 0 .. Capacity /\ k + (i - 1) <= Capacity /\ first \in Slots
          BY <3>1 DEF TypeOK
        <5>2. QED
          BY <5>1, AdvanceTwice
      <4>2. SlotOf(i - 1)' = SlotOf(k + (i - 1))
        BY <3>1, <4>1 DEF SlotOf, TypeOK, Slots
      <4>3. SlotOf(k + (i - 1)) \in Slots
        <5>1. first + (k + (i - 1)) \in 0 .. 2 * Capacity - 1
          BY <3>1 DEF TypeOK, Slots
        <5>2. QED
          BY <5>1, Wrap DEF SlotOf
      <4>4. ASSUME NEW h \in 0 .. k - 1, SlotOf(k + (i - 1)) = SlotOf(h)
            PROVE  FALSE
        <5>1. k + (i - 1) \in 0 .. Capacity - 1 /\ h \in 0 .. Capacity - 1 /\ k + (i - 1) > h
          BY <3>1 DEF TypeOK
        <5>2. k + (i - 1) = h
          BY <4>4, <5>1, SlotsDiffer DEF SlotOf, TypeOK
        <5>3. QED
          BY <5>1, <5>2
      <4>5. value'[SlotOf(k + (i - 1))] = value[SlotOf(k + (i - 1))]
        BY <3>1, <4>3, <4>4
      <4>6. k + i \in 1 .. counter /\ (k + i) - 1 = k + (i - 1)
        BY <3>1 DEF TypeOK
      <4>7. QED
        BY <2>0, <4>2, <4>5, <4>6
    <3>3. Contents' = SubSeq(Contents, k + 1, Len(Contents))
      <4>1. Contents' = [i \in 1 .. counter - k |-> value'[SlotOf(i - 1)']]
        BY <3>1 DEF Contents
      <4>2. SubSeq(Contents, k + 1, Len(Contents)) = [i \in 1 .. counter - k |-> Contents[k + i]]
        BY <2>0, <3>1 DEF TypeOK
      <4>3. QED
        BY <3>2, <4>1, <4>2
    <3>4. QED
      BY <2>0, <3>1, <3>3 DEF Queue!Free, TypeOK
  <2>4. CASE UNCHANGED vars
    BY <2>4 DEF vars, Contents, SlotOf
  <2>5. QED
    BY <2>1, <2>2, <2>3, <2>4 DEF Next, Queue!Next
<1>3. QED
  BY <1>1, <1>2, TypeCorrect, WindowInvariance, PTL DEF Spec, ImplementsFifo, Queue!Spec
-----------------------------------------------------------------------------
(* HttpAsk: the variables' types.                                          *)
AskTypeOK ==
  /\ at \in {"connect", "send", "recv", "done"}
  /\ addrs \in Nat /\ rule \in BOOLEAN /\ limit \in Nat /\ sock \in BOOLEAN
  /\ ioSize \in Nat /\ headSize \in Nat /\ bodySize \in Int
  /\ seen \in Nat /\ overread \in BOOLEAN
  /\ block \in Nat /\ maxSize \in Nat /\ heap \subseteq Nat
  /\ answer \in Answers /\ peerSent \in Nat
  /\ peerEnd \in {"open", "closed", "reset"}
  /\ result \in {"none", "ok", "unknow error", "connect failed", "send fail",
                 "no recv timeout", "no more memory", "time out"}

(* What the call holds at each step: no block before it receives, and then *)
(* every block that it has grown into.                                     *)
HoldsInv ==
  /\ at = "done" \/ result = "none"
  /\ sock <=> at \in {"send", "recv"}
  /\ at \in {"connect", "send"} => block = 0 /\ headSize = 0
  /\ at \in {"connect", "send", "recv"} => heap = 1 .. block
  /\ at = "connect" => ioSize = 0 /\ addrs > 0

(* What it knows of the head and the length: what the bytes that had come  *)
(* with the head tell, unless a search left the buffer.                    *)
SeenInv ==
  /\ headSize > 0 => rule
  /\ headSize = 0 => bodySize = 0
  /\ headSize > 0 /\ ~overread =>
       /\ headSize = answer.head /\ headSize <= seen /\ seen <= ioSize
       /\ bodySize \in BodyLength(answer, seen, FALSE)

(* All of the head is found as soon as it is there, and then the answer is *)
(* not complete while it goes on receiving.                                *)
HeadInv ==
  at = "recv" =>
    /\ rule /\ answer.head > 0 /\ ioSize >= answer.head => headSize > 0
    /\ ~Complete(ioSize, headSize, bodySize)

AskInv == AskTypeOK /\ HoldsInv /\ SeenInv /\ HeadInv /\ AskIsSound

LEMMA AnswerTypes ==
  ASSUME NEW a \in Answers
  PROVE  /\ a.head \in Nat /\ a.body \in Nat
         /\ \A f \in a.fields :
              /\ f.spelling \in Nat /\ f.name \in Nat /\ f.line \in Nat /\ f.number \in Nat
              /\ f.value \in Int /\ f.name <= f.line
         /\ \A f, g \in a.fields : f.name = g.name => f = g
BY AskAssumption DEF AskAssumption, Field

LEMMA StrayTypes == \A s \in Stray : s \in Int
BY AskAssumption DEF AskAssumption

(* What is read is 0, or read of an occurrence that is found, or, when a   *)
(* search runs on, from the memory behind the buffer.                      *)
LEMMA LengthIs ==
  ASSUME NEW a, NEW n, NEW full \in BOOLEAN, NEW b \in BodyLength(a, n, full)
  PROVE  (\E f \in Found(a, n) : b \in Reads(f, n)) \/ b = 0 \/ (full /\ b \in Stray)
<1> DEFINE U == UNION {Reads(f, n) : f \in Found(a, n)}
<1>1. b \in U => \E f \in Found(a, n) : b \in Reads(f, n)
  OBVIOUS
<1>2. BodyLength(a, n, full) =
        U \union (IF Found(a, n) = {} THEN {0} ELSE {})
          \union (IF full /\ RunsOn(a, n) THEN Stray ELSE {})
  BY DEF BodyLength
<1> HIDE DEF U
<1>3. QED
  BY <1>1, <1>2

LEMMA LengthTypes ==
  ASSUME NEW a \in Answers, NEW n \in Nat, NEW full \in BOOLEAN
  PROVE  HeadLength(a, n, full) \subseteq Nat /\ BodyLength(a, n, full) \subseteq Int
<1>1. HeadLength(a, n, full) \subseteq Nat
  <2>1. a.head \in Nat
    BY AnswerTypes
  <2>2. \A s \in Stray : s > 0 => n + s \in Nat
    BY StrayTypes
  <2>3. {n + k : k \in {s \in Stray : s > 0}} \subseteq Nat
    BY <2>2
  <2>4. QED
    BY <2>1, <2>3 DEF HeadLength
<1>2. ASSUME NEW f \in Found(a, n), NEW b \in Reads(f, n)
      PROVE  b \in Int
  <2>1. f \in a.fields
    BY DEF Found
  <2>2. f.value \in Int
    BY <2>1, AnswerTypes
  <2>3. b = 0 \/ b \in Stray \/ b = f.value
    BY DEF Reads
  <2>4. QED
    BY <2>2, <2>3, StrayTypes
<1>3. ASSUME NEW b \in BodyLength(a, n, full)
      PROVE  b \in Int
  <2>1. (\E f \in Found(a, n) : b \in Reads(f, n)) \/ b = 0 \/ b \in Stray
    BY LengthIs
  <2>2. QED
    BY <1>2, <2>1, StrayTypes
<1>4. QED
  BY <1>1, <1>3

(* A head that is there is found; otherwise nothing is, unless the search  *)
(* runs on.                                                                *)
LEMMA HeadIs ==
  ASSUME NEW a \in Answers, NEW n \in Nat, NEW full \in BOOLEAN, NEW h \in HeadLength(a, n, full)
  PROVE  /\ HeadIn(a, n) => h = a.head
         /\ h > 0 /\ (full => HeadIn(a, n)) => h = a.head /\ a.head <= n
<1>1. a.head \in Nat
  BY AnswerTypes
<1>2. HeadIn(a, n) => h = a.head
  BY DEF HeadLength
<1>3. ~HeadIn(a, n) /\ ~full => h = 0
  BY DEF HeadLength
<1>4. QED
  BY <1>1, <1>2, <1>3 DEF HeadIn

(* A length that the head declares is what is read, unless another was     *)
(* found before it.                                                        *)
LEMMA DeclaredIsRead ==
  ASSUME NEW a \in Answers, NEW n \in Nat, a.head <= n,
         NEW b \in BodyLength(a, n, FALSE), NEW f \in Declared(a),
         ~\E g \in a.fields : g.name <= n /\ Before(g, f)
  PROVE  b = f.value
<1>1. /\ f \in a.fields /\ f.number <= f.line /\ f.line <= a.head
      /\ f.name <= n /\ n >= f.line /\ n >= f.number
  <2>1. f \in a.fields /\ f.number <= f.line /\ f.line <= a.head
    BY DEF Declared
  <2>2. f.name \in Nat /\ f.line \in Nat /\ f.number \in Nat /\ f.name <= f.line /\ a.head \in Nat
    BY <2>1, AnswerTypes
  <2>3. QED
    BY <2>1, <2>2
<1>2. f \in Found(a, n)
  BY <1>1 DEF Found
<1>3. \A h \in Found(a, n) : h = f
  <2> SUFFICES ASSUME NEW h \in Found(a, n) PROVE h = f
    OBVIOUS
  <2>1. h \in a.fields /\ ~Before(h, f) /\ ~Before(f, h)
    BY <1>1 DEF Found
  <2>2. f.spelling \in Nat /\ h.spelling \in Nat /\ f.name \in Nat /\ h.name \in Nat
    BY <1>1, <2>1, AnswerTypes
  <2>3. h.name = f.name
    BY <2>1, <2>2 DEF Before
  <2>4. QED
    BY <1>1, <2>1, <2>3, AnswerTypes
<1>4. b \in Reads(f, n)
  BY <1>2, <1>3 DEF BodyLength
<1>5. f.line \in Nat /\ f.number \in Nat
  BY <1>1, AnswerTypes
<1>6. QED
  BY <1>1, <1>4, <1>5 DEF Reads

(* Where no length is found, none is read.                                 *)
LEMMA NoneIsZero ==
  ASSUME NEW a, NEW n, ~\E f \in a.fields : f.name <= n, NEW b \in BodyLength(a, n, FALSE)
  PROVE  b = 0
<1>1. ~\E f \in Found(a, n) : b \in Reads(f, n)
  BY DEF Found
<1>2. QED
  BY <1>1, LengthIs

LEMMA AskConstants ==
  /\ \A n \in 1 .. MaxAddrs : n \in Nat /\ n > 0
  /\ AskSize \in Nat /\ DEFAULT_RECV_SIZE \in Nat /\ Limits \subseteq Nat
BY AskAssumption DEF AskAssumption

(* The blocks that were grown into, without the last.                      *)
LEMMA LastBlock ==
  ASSUME NEW b \in Nat
  PROVE  /\ (1 .. b) \ {b} = 1 .. b - 1
         /\ 1 .. b = (1 .. b - 1) \union (IF b = 0 THEN {} ELSE {b})
         /\ (1 .. b) \union {b + 1} = 1 .. b + 1
         /\ 1 .. b \subseteq Nat /\ 1 .. b - 1 \subseteq Nat
  OBVIOUS

LEMMA NotYet ==
  \A a, b, c \in Nat : ~(a >= b + c) => a < b + c
  OBVIOUS

LEMMA AskInit0 == AskInit => AskInv
<1> SUFFICES ASSUME AskInit PROVE AskInv
  OBVIOUS
<1>1. AskTypeOK
  <2>1. at = "connect" /\ peerEnd = "open" /\ result = "none"
    BY DEF AskInit
  <2>2. addrs \in Nat /\ limit \in Nat /\ maxSize \in Nat
    BY AskConstants DEF AskInit
  <2>3. rule \in BOOLEAN /\ sock \in BOOLEAN
    BY DEF AskInit
  <2>4. /\ ioSize \in Nat /\ headSize \in Nat /\ bodySize \in Int /\ block \in Nat
        /\ seen \in Nat /\ heap \subseteq Nat /\ answer \in Answers /\ peerSent \in Nat
    BY DEF AskInit
  <2>5. overread \in BOOLEAN
    BY DEF AskInit
  <2>6. QED
    BY <2>1, <2>2, <2>3, <2>4, <2>5 DEF AskTypeOK
<1>2. HoldsInv /\ SeenInv /\ HeadInv
  BY AskConstants DEF AskInit, HoldsInv, SeenInv, HeadInv
<1>3. AskIsSound
  BY DEF AskInit, AskIsSound, AskedIsWhole, AskReleases
<1>4. QED
  BY <1>1, <1>2, <1>3 DEF AskInv

(* Every way the call fails, from a state in which it holds its blocks.    *)
LEMMA AskFailsKeeps ==
  ASSUME AskInv, at # "done",
         NEW err \in {"connect failed", "send fail", "no recv timeout",
                      "no more memory", "time out"},
         AskFails(err), UNCHANGED <<rule, block, answer, peerSent, peerEnd>>
  PROVE  /\ at' = "done" /\ result' = err /\ heap' \subseteq Nat
         /\ sock' = FALSE /\ HoldsInv' /\ AskReleases'
<1>1. heap = 1 .. block /\ block \in Nat /\ result = "none"
  BY DEF AskInv, AskTypeOK, HoldsInv
<1>2. /\ at' = "done" /\ result' = err /\ sock' = FALSE
      /\ heap' = heap \ {block} /\ block' = block
  BY DEF AskFails
<1>3. heap' = 1 .. block' - 1 /\ heap' \subseteq Nat
  BY <1>1, <1>2, LastBlock
<1>4. HoldsInv'
  BY <1>2 DEF HoldsInv
<1>5. AskReleases'
  <2>1. result' # "unknow error"
    BY <1>2
  <2>2. QED
    BY <1>2, <1>3, <2>1 DEF AskReleases
<1>6. QED
  BY <1>2, <1>3, <1>4, <1>5

LEMMA ConnectKeeps ==
  ASSUME AskInv, AskConnect
  PROVE  AskInv'
<1> USE DEF AskInv
<1>1. at = "connect" /\ addrs \in Nat /\ addrs > 0 /\ ioSize = 0 /\ block = 0 /\ heap = {}
      /\ headSize = 0
  <2>1. at = "connect"
    BY DEF AskConnect
  <2>2. addrs \in Nat /\ addrs > 0 /\ ioSize = 0 /\ block = 0 /\ heap = 1 .. block
        /\ headSize = 0
    BY <2>1 DEF AskTypeOK, HoldsInv
  <2>3. QED
    BY <2>1, <2>2
<1>2. UNCHANGED <<rule, limit, ioSize, headSize, bodySize, seen, overread, block, maxSize, answer,
                 peerSent, peerEnd>>
  BY DEF AskConnect, sizeVars, peerVars
<1>3. CASE at' = "send" /\ sock' = TRUE /\ UNCHANGED <<addrs, heap, result>>
  BY <1>1, <1>2, <1>3
  DEF AskTypeOK, HoldsInv, SeenInv, HeadInv, AskIsSound, AskedIsWhole, AskReleases
<1>4. CASE addrs' = addrs - 1 /\ addrs' # 0 /\ UNCHANGED <<at, sock, heap, result>>
  BY <1>1, <1>2, <1>4
  DEF AskTypeOK, HoldsInv, SeenInv, HeadInv, AskIsSound, AskedIsWhole, AskReleases
<1>5. CASE addrs' = addrs - 1 /\ addrs' = 0 /\ AskFails("connect failed")
  <2>1. /\ at' = "done" /\ result' = "connect failed" /\ heap' \subseteq Nat
        /\ sock' = FALSE /\ HoldsInv' /\ AskReleases'
    BY <1>1, <1>2, <1>5, AskFailsKeeps
  <2>2. QED
    BY <1>1, <1>2, <1>5, <2>1 DEF AskTypeOK, SeenInv, HeadInv, AskIsSound, AskedIsWhole
<1>6. QED
  BY <1>1, <1>3, <1>4, <1>5 DEF AskConnect

LEMMA SendKeeps ==
  ASSUME AskInv, AskSend
  PROVE  AskInv'
<1> USE DEF AskInv
<1>1. at = "send" /\ ioSize \in Nat /\ block = 0 /\ heap = {} /\ headSize = 0
  <2>1. at = "send"
    BY DEF AskSend
  <2>2. ioSize \in Nat /\ block = 0 /\ heap = 1 .. block /\ headSize = 0
    BY <2>1 DEF AskTypeOK, HoldsInv
  <2>3. QED
    BY <2>1, <2>2
<1>2. UNCHANGED <<addrs, rule, limit, headSize, bodySize, seen, overread, block, maxSize, answer,
                 peerSent, peerEnd>>
  BY DEF AskSend, sizeVars, peerVars
<1>3. ioSize' \in Nat
  <2>1. \/ \E k \in 1 .. AskSize - ioSize : ioSize' = ioSize + k
        \/ UNCHANGED ioSize \/ ioSize' = 0
    BY <1>1 DEF AskSend
  <2>2. QED
    BY <1>1, <2>1, AskConstants
<1>4. CASE UNCHANGED <<at, sock, heap, result>>
  BY <1>1, <1>2, <1>3, <1>4
  DEF AskTypeOK, HoldsInv, SeenInv, HeadInv, AskIsSound, AskedIsWhole, AskReleases
<1>5. CASE at' = "recv" /\ ioSize' = 0 /\ UNCHANGED <<sock, heap, result>>
  <2>1. answer.head \in Nat
    BY AnswerTypes DEF AskTypeOK
  <2>2. QED
    BY <1>1, <1>2, <1>5, <2>1
    DEF Complete, AskTypeOK, HoldsInv, SeenInv, HeadInv, AskIsSound, AskedIsWhole, AskReleases
<1>6. SeenInv'
  <2>1. ~(headSize' > 0)
    BY <1>1, <1>2
  <2>2. bodySize = 0
    BY <1>1, Zenon DEF SeenInv
  <2>3. QED
    BY <1>2, <2>1, <2>2 DEF SeenInv
<1>7. ASSUME NEW err \in {"send fail", "no recv timeout"}, AskFails(err)
      PROVE  AskInv'
  <2>1. /\ at' = "done" /\ result' = err /\ heap' \subseteq Nat
        /\ sock' = FALSE /\ HoldsInv' /\ AskReleases'
    BY <1>1, <1>2, <1>7, AskFailsKeeps
  <2>2. AskTypeOK'
    BY <1>1, <1>2, <1>3, <1>7, <2>1 DEF AskTypeOK
  <2>3. HeadInv'
    BY <2>1 DEF HeadInv
  <2>4. AskedIsWhole'
    BY <1>7, <2>1 DEF AskedIsWhole
  <2>5. QED
    BY <1>6, <2>1, <2>2, <2>3, <2>4 DEF AskIsSound
<1>8. QED
  BY <1>1, <1>4, <1>5, <1>7 DEF AskSend

(* The block of an answer, and what it leaves.                             *)
LEMMA AnsweredKeeps ==
  ASSUME AskInv, at = "recv", NEW size \in Nat, AskAnswered(size)
  PROVE  /\ at' = "done" /\ result' \in {"ok", "unknow error", "no more memory"}
         /\ block' \in Nat /\ heap' \subseteq Nat /\ sock' = FALSE
         /\ HoldsInv' /\ AskReleases'
<1>1. heap = 1 .. block /\ block \in Nat /\ at' = "done" /\ sock' = FALSE
  BY DEF AskInv, AskTypeOK, HoldsInv, AskAnswered, AskFails
<1>2. HoldsInv'
  BY <1>1 DEF HoldsInv
<1>3. CASE result' = "ok" /\ size > 0 /\ block' = (IF block = 0 THEN 1 ELSE block)
           /\ heap' = heap \ {block'}
  <2>1. heap' = 1 .. block' - 1 /\ block' \in Nat
    BY <1>1, <1>3, LastBlock
  <2>2. result' # "unknow error"
    BY <1>3
  <2>3. AskReleases'
    BY <1>1, <2>1, <2>2 DEF AskReleases
  <2>4. QED
    BY <1>1, <1>2, <1>3, <2>1, <2>3, LastBlock
<1>4. CASE result' = "unknow error" /\ block' = (IF block = 0 THEN 1 ELSE block)
           /\ heap' = heap \union {block'}
  <2>1. heap' = (1 .. block' - 1) \union {block'} /\ block' \in Nat
    <3>1. CASE block = 0
      <4>1. block' = 1
        BY <1>4, <3>1
      <4>2. heap' = (1 .. 0) \union {1}
        BY <1>1, <1>4, <3>1, <4>1
      <4>3. QED
        BY <4>1, <4>2
    <3>2. CASE block # 0
      <4>1. block' = block
        BY <1>4, <3>2
      <4>2. 1 .. block = (1 .. block - 1) \union {block}
        BY <1>1, <3>2, LastBlock
      <4>3. heap' = (1 .. block) \union {block}
        BY <1>1, <1>4, <4>1
      <4>4. QED
        BY <1>1, <4>1, <4>2, <4>3
    <3>3. QED
      BY <3>1, <3>2
  <2>2. AskReleases'
    BY <1>1, <1>4, <2>1 DEF AskReleases
  <2>3. QED
    BY <1>1, <1>2, <1>4, <2>1, <2>2, LastBlock
<1>5. CASE result' = "no more memory" /\ block = 0 /\ block' = 0 /\ heap' = heap \ {block}
  <2>1. heap' = {} /\ 1 .. block' - 1 = {}
    <3>1. 1 .. 0 = {} /\ 1 .. 0 - 1 = {}
      OBVIOUS
    <3>2. QED
      BY <1>1, <1>5, <3>1
  <2>2. AskReleases'
    BY <1>1, <1>5, <2>1 DEF AskReleases
  <2>3. QED
    BY <1>1, <1>2, <1>5, <2>1, <2>2
<1>6. QED
  BY <1>3, <1>4, <1>5 DEF AskAnswered, AskFails

(* One pass of the receiving loop: the head is known as soon as it is      *)
(* there, and the loop goes on only without a whole answer.                *)
LEMMA RecvKeeps ==
  ASSUME AskInv, NEW k \in 1 .. peerSent - ioSize, AskRecv(k)
  PROVE  AskInv'
<1> USE DEF AskInv
<1>1. /\ at = "recv" /\ heap = 1 .. block /\ result = "none" /\ sock = TRUE
      /\ ioSize \in Nat /\ headSize \in Nat /\ bodySize \in Int /\ block \in Nat
      /\ seen \in Nat /\ overread \in BOOLEAN
      /\ maxSize \in Nat /\ rule \in BOOLEAN /\ answer \in Answers /\ k \in Nat /\ k > 0
  <2>1. at = "recv"
    BY DEF AskRecv
  <2>2. peerSent \in Nat /\ ioSize \in Nat
    BY DEF AskTypeOK
  <2>3. k \in Nat /\ k > 0
    BY <2>2
  <2>4. QED
    BY <2>1, <2>3 DEF AskTypeOK, HoldsInv
<1>2. answer.head \in Nat
  BY <1>1, AnswerTypes
<1>3. PICK size \in Nat : size = ioSize + k /\ size >= ioSize
  BY <1>1
<1>4. /\ ioSize' = size /\ LookForHead(size)
      /\ \/ AskFails("no more memory") /\ UNCHANGED <<block, maxSize>>
         \/ /\ Complete(size, headSize', bodySize')
            /\ AskAnswered(size) /\ UNCHANGED maxSize
         \/ /\ ~Complete(size, headSize', bodySize')
            /\ GrowBlock \/ UNCHANGED <<at, sock, result, block, heap, maxSize>>
      /\ UNCHANGED <<addrs, rule, limit, answer, peerSent, peerEnd>>
  BY <1>1, <1>3 DEF AskRecv, peerVars
<1>5. /\ headSize' \in Nat /\ bodySize' \in Int /\ seen' \in Nat /\ overread' \in BOOLEAN
      /\ SeenInv'
      /\ rule /\ answer.head > 0 /\ size >= answer.head => headSize' > 0
  <2> DEFINE full == size = maxSize
  <2>1. CASE ~(rule /\ headSize = 0)
    <3>1. UNCHANGED <<headSize, bodySize, seen, overread>>
      BY <1>4, <2>1 DEF LookForHead, sizeVars
    <3>2. rule => headSize' > 0
      BY <1>1, <2>1, <3>1
    <3>3. SeenInv'
      <4>1. ASSUME headSize > 0, ~overread
            PROVE  /\ headSize = answer.head /\ headSize <= seen /\ seen <= size
                   /\ bodySize \in BodyLength(answer, seen, FALSE)
        <5>1. /\ headSize = answer.head /\ headSize <= seen /\ seen <= ioSize
              /\ bodySize \in BodyLength(answer, seen, FALSE)
          BY <4>1 DEF SeenInv
        <5>2. seen <= size
          BY <1>1, <1>3, <5>1
        <5>3. QED
          BY <5>1, <5>2
      <4>2. (headSize > 0 => rule) /\ (headSize = 0 => bodySize = 0)
        BY DEF SeenInv
      <4>3. QED
        BY <1>4, <3>1, <4>1, <4>2 DEF SeenInv
    <3>4. QED
      BY <1>1, <3>1, <3>2, <3>3
  <2>2. CASE rule /\ headSize = 0
    <3>1. /\ headSize' \in HeadLength(answer, size, full)
          /\ bodySize' \in IF headSize' = 0 THEN {0} ELSE BodyLength(answer, size, full)
          /\ seen' = IF headSize' = 0 THEN 0 ELSE size
          /\ overread' = (overread \/ (full /\ (~HeadIn(answer, size) \/ RunsOn(answer, size))))
      BY <1>4, <2>2 DEF LookForHead
    <3> HIDE DEF full
    <3>2. full \in BOOLEAN
      BY DEF full
    <3>3. HeadLength(answer, size, full) \subseteq Nat /\ BodyLength(answer, size, full) \subseteq Int
      BY <1>1, <3>2, LengthTypes
    <3>4. headSize' \in Nat /\ bodySize' \in Int /\ seen' \in Nat
      BY <3>1, <3>3
    <3>5. overread' \in BOOLEAN
      BY <1>1, <3>1, <3>2
    <3>6. rule /\ answer.head > 0 /\ size >= answer.head => headSize' > 0
      BY <1>1, <3>1, <3>2, HeadIs DEF HeadIn
    <3>7. ASSUME headSize' > 0, ~overread'
          PROVE  /\ headSize' = answer.head /\ headSize' <= seen' /\ seen' <= size
                 /\ bodySize' \in BodyLength(answer, seen', FALSE)
      <4>1. full => HeadIn(answer, size) /\ ~RunsOn(answer, size)
        BY <3>1, <3>7
      <4>2. headSize' = answer.head /\ answer.head <= size
        BY <1>1, <3>1, <3>2, <3>7, <4>1, HeadIs
      <4>3. headSize' # 0
        BY <3>4, <3>7
      <4>4. seen' = size /\ bodySize' \in BodyLength(answer, size, full)
        BY <3>1, <4>3
      <4>5. BodyLength(answer, size, full) = BodyLength(answer, size, FALSE)
        BY <3>2, <4>1 DEF BodyLength
      <4>6. bodySize' \in BodyLength(answer, seen', FALSE)
        BY <4>4, <4>5
      <4>7. headSize' <= seen' /\ seen' <= size
        BY <4>2, <4>4
      <4>8. QED
        BY <4>2, <4>6, <4>7
    <3>8. headSize' = 0 => bodySize' = 0
      BY <3>1
    <3>9. SeenInv'
      BY <1>4, <2>2, <3>7, <3>8 DEF SeenInv
    <3>10. QED
      BY <3>4, <3>5, <3>6, <3>9
  <2>3. QED
    BY <2>1, <2>2
<1>6. CASE AskFails("no more memory") /\ UNCHANGED <<block, maxSize>>
  <2>1. /\ at' = "done" /\ result' = "no more memory" /\ heap' \subseteq Nat
        /\ sock' = FALSE /\ HoldsInv' /\ AskReleases'
    BY <1>1, <1>4, <1>6, AskFailsKeeps
  <2>2. AskTypeOK'
    BY <1>4, <1>5, <1>6, <2>1 DEF AskTypeOK
  <2>3. HeadInv'
    BY <2>1 DEF HeadInv
  <2>4. AskedIsWhole'
    BY <2>1 DEF AskedIsWhole
  <2>5. QED
    BY <1>5, <2>1, <2>2, <2>3, <2>4 DEF AskIsSound
<1>7. CASE Complete(size, headSize', bodySize') /\ AskAnswered(size) /\ UNCHANGED maxSize
  <2>1. /\ at' = "done" /\ result' \in {"ok", "unknow error", "no more memory"}
        /\ block' \in Nat /\ heap' \subseteq Nat /\ sock' = FALSE
        /\ HoldsInv' /\ AskReleases'
    BY <1>1, <1>7, AnsweredKeeps
  <2>2. AskTypeOK'
    BY <1>4, <1>5, <1>7, <2>1 DEF AskTypeOK
  <2>3. HeadInv'
    BY <2>1 DEF HeadInv
  <2>4. AskedIsWhole'
    <3>1. result' # "time out"
      BY <2>1
    <3>2. ASSUME ~overread'
          PROVE  WholeAsDeclared'
      <4>1. rule /\ headSize' > 0 /\ size >= headSize' + bodySize'
        BY <1>7 DEF Complete
      <4>2. /\ headSize' = answer.head /\ headSize' <= seen' /\ seen' <= size
            /\ bodySize' \in BodyLength(answer, seen', FALSE)
        BY <1>4, <1>5, <3>2, <4>1 DEF SeenInv
      <4>3. answer.head > 0 /\ size >= answer.head
        BY <1>2, <1>3, <1>5, <4>1, <4>2
      <4>4. ASSUME NEW f \in Declared(answer),
                   ~\E g \in answer.fields : g.name <= seen' /\ Before(g, f)
            PROVE  size >= answer.head + f.value
        <5>1. bodySize' = f.value
          BY <1>1, <1>5, <4>2, <4>4, DeclaredIsRead
        <5>2. QED
          BY <4>1, <4>2, <5>1
      <4>5. Declared(answer') = Declared(answer) /\ answer' = answer /\ ioSize' = size
        BY <1>4
      <4>6. rule' /\ HeadIsThere'
        BY <1>4, <4>1, <4>3 DEF HeadIsThere, HeadIn
      <4>7. QED
        BY <4>4, <4>5, <4>6 DEF WholeAsDeclared, Hidden
    <3>3. QED
      BY <3>1, <3>2 DEF AskedIsWhole
  <2>5. QED
    BY <1>5, <2>1, <2>2, <2>3, <2>4 DEF AskIsSound
<1>8. ASSUME ~Complete(size, headSize', bodySize'), at' = at, sock' = sock, result' = result,
             block' \in Nat, maxSize' \in Nat, heap' = 1 .. block'
      PROVE  AskInv'
  <2>1. heap' \subseteq Nat
    BY <1>8
  <2>2. AskTypeOK'
    BY <1>4, <1>5, <1>8, <2>1 DEF AskTypeOK
  <2>3. HoldsInv'
    BY <1>1, <1>8 DEF HoldsInv
  <2>4. HeadInv'
    BY <1>4, <1>5, <1>8 DEF HeadInv, Complete
  <2>5. AskIsSound'
    BY <1>1, <1>8 DEF AskIsSound, AskedIsWhole, AskReleases
  <2>6. QED
    BY <1>5, <2>2, <2>3, <2>4, <2>5
<1>9. CASE ~Complete(size, headSize', bodySize') /\ GrowBlock /\ at' = at
  <2>1. /\ sock' = sock /\ result' = result /\ block' = block + 1
        /\ heap' = heap \union {block + 1} /\ maxSize' = 2 * maxSize
    BY <1>1, <1>9 DEF GrowBlock, AskFails
  <2>2. heap' = 1 .. block'
    BY <1>1, <2>1, LastBlock
  <2>3. block' \in Nat /\ maxSize' \in Nat
    BY <1>1, <2>1
  <2>4. QED
    BY <1>8, <1>9, <2>1, <2>2, <2>3
<1>10. CASE /\ ~Complete(size, headSize', bodySize')
            /\ UNCHANGED <<at, sock, result, block, heap, maxSize>>
  BY <1>1, <1>8, <1>10
<1>11. QED
  BY <1>1, <1>4, <1>6, <1>7, <1>9, <1>10 DEF GrowBlock, AskFails

LEMMA EndKeeps ==
  ASSUME AskInv, AskPeerEnded \/ AskTimesOut
  PROVE  AskInv'
<1> USE DEF AskInv
<1>1. /\ at = "recv" /\ ioSize = peerSent /\ ioSize \in Nat /\ block \in Nat
      /\ answer \in Answers /\ headSize \in Nat
      /\ UNCHANGED <<addrs, rule, limit, ioSize, headSize, bodySize, seen, overread, maxSize,
                     answer, peerSent, peerEnd>>
  BY DEF AskPeerEnded, AskTimesOut, sizeVars, peerVars, AskTypeOK
<1>2. CASE AskPeerEnded
  <2>1. /\ at' = "done" /\ result' \in {"ok", "unknow error", "no more memory"}
        /\ block' \in Nat /\ heap' \subseteq Nat /\ sock' = FALSE
        /\ HoldsInv' /\ AskReleases'
    BY <1>1, <1>2, AnsweredKeeps DEF AskPeerEnded
  <2>2. AskTypeOK'
    BY <1>1, <2>1 DEF AskTypeOK
  <2>3. SeenInv' /\ HeadInv'
    BY <1>1, <2>1 DEF SeenInv, HeadInv
  <2>4. AskedIsWhole'
    BY <1>1, <1>2, <2>1 DEF AskPeerEnded, AskedIsWhole
  <2>5. QED
    BY <2>1, <2>2, <2>3, <2>4 DEF AskIsSound
<1>3. CASE AskTimesOut
  <2>1. /\ at' = "done" /\ result' = "time out" /\ heap' \subseteq Nat
        /\ sock' = FALSE /\ HoldsInv' /\ AskReleases'
    BY <1>1, <1>3, AskFailsKeeps DEF AskTimesOut
  <2>2. AskTypeOK'
    BY <1>1, <1>3, <2>1 DEF AskTypeOK, AskTimesOut
  <2>3. SeenInv' /\ HeadInv'
    BY <1>1, <2>1 DEF SeenInv, HeadInv
  <2>4. AskedIsWhole'
    <3>1. ASSUME rule, HeadIsThere, ~overread
          PROVE  ShortAsDeclared
      <4>0. answer.head > 0 /\ ioSize >= answer.head
        BY <3>1 DEF HeadIsThere, HeadIn
      <4>1. headSize > 0 /\ ~Complete(ioSize, headSize, bodySize)
        BY <1>1, <3>1, <4>0 DEF HeadInv
      <4>2. /\ headSize = answer.head /\ headSize <= seen
            /\ bodySize \in BodyLength(answer, seen, FALSE)
        BY <3>1, <4>1 DEF SeenInv
      <4>3. /\ ~(answer.head + bodySize >= 0 /\ ioSize >= answer.head + bodySize)
            /\ bodySize \in Int /\ answer.head \in Nat /\ seen \in Nat
        BY <1>1, <3>1, <4>1, <4>2, AnswerTypes DEF Complete, AskTypeOK
      <4>4. bodySize # 0
        BY <1>1, <4>0, <4>3
      <4>5. \E f \in answer.fields : f.name <= seen
        BY <4>2, <4>4, NoneIsZero
      <4>6. ASSUME NEW f \in Declared(answer),
                   ~\E g \in answer.fields : g.name <= seen /\ Before(g, f)
            PROVE  answer.head + f.value \notin 0 .. ioSize
        <5>1. bodySize = f.value
          BY <1>1, <4>2, <4>3, <4>6, DeclaredIsRead
        <5>2. QED
          BY <1>1, <4>3, <5>1
      <4>7. QED
        BY <4>5, <4>6 DEF ShortAsDeclared, Hidden
    <3>2. result' # "ok"
      BY <2>1
    <3>3. rule' /\ HeadIsThere' /\ ~overread' => ShortAsDeclared'
      BY <1>1, <3>1 DEF HeadIsThere, ShortAsDeclared, Hidden, Declared
    <3>4. QED
      BY <3>2, <3>3 DEF AskedIsWhole
  <2>5. QED
    BY <2>1, <2>2, <2>3, <2>4 DEF AskIsSound
<1>4. QED
  BY <1>2, <1>3

LEMMA PeerKeeps ==
  ASSUME AskInv, PeerAnswers \/ PeerCloses \/ UNCHANGED askVars
  PROVE  AskInv'
<1> USE DEF AskInv
<1>1. UNCHANGED <<at, addrs, rule, limit, sock, ioSize, headSize, bodySize, seen, overread,
                 block, maxSize, heap, answer, result>>
  BY DEF PeerAnswers, PeerCloses, sizeVars, askVars
<1>2. peerSent' \in Nat
  <2>1. answer.head \in Nat /\ answer.body \in Nat /\ peerSent \in Nat
    BY AnswerTypes DEF AskTypeOK
  <2>2. CASE PeerAnswers
    BY <2>1, <2>2 DEF PeerAnswers
  <2>3. QED
    BY <2>1, <2>2 DEF PeerCloses, askVars
<1>3. peerEnd' \in {"open", "closed", "reset"}
  BY DEF PeerAnswers, PeerCloses, askVars, AskTypeOK
<1>4. AskTypeOK'
  BY <1>1, <1>2, <1>3 DEF AskTypeOK
<1>5. HoldsInv' /\ SeenInv' /\ HeadInv' /\ AskReleases'
  BY <1>1 DEF HoldsInv, SeenInv, HeadInv, Complete, AskIsSound, AskReleases
<1>6. AskedIsWhole'
  <2>1. CASE UNCHANGED askVars
    BY <2>1 DEF askVars, AskIsSound, AskedIsWhole, HeadIsThere,
            WholeAsDeclared, ShortAsDeclared, Hidden, Declared
  <2>2. CASE at = "recv"
    BY <1>1, <2>2 DEF HoldsInv, AskedIsWhole
  <2>3. QED
    BY <2>1, <2>2 DEF PeerAnswers, PeerCloses
<1>7. QED
  BY <1>4, <1>5, <1>6 DEF AskIsSound

(* The inductive invariant of one call of cutils.http.                     *)
THEOREM AskInvariance == AskSpec => []AskInv
<1>1. AskInv /\ [AskNext]_askVars => AskInv'
  BY ConnectKeeps, SendKeeps, RecvKeeps, EndKeeps, PeerKeeps DEF AskNext
<1>2. QED
  BY <1>1, AskInit0, PTL DEF AskSpec

(* An answer given as ok is whole and nothing is left open or allocated,   *)
(* whatever the peer sends, in however many pieces, and however often the  *)
(* buffer grows.                                                           *)
THEOREM AskIsSoundHolds == AskSpec => []AskIsSound
<1>1. AskInv => AskIsSound
  BY DEF AskInv
<1>2. QED
  BY <1>1, AskInvariance, PTL
-----------------------------------------------------------------------------
(* BufferedStream: a limit of a call, and the two that it has.             *)
Limit == Nat \union {Forever}
LimitPairs == [block : Limit, total : Limit]

(* The longest that a call of these limits may take.                       *)
Longest(limits) == IF limits.total # Forever THEN limits.total ELSE limits.block

(* What the waits need of the types; the other fields may hold anything.   *)
CallOK ==
  /\ tm \in LimitPairs /\ clock \in Nat /\ due \in Limit
  /\ call \in [do : {"idle", "receive", "send", "select"}, dirty : BOOLEAN,
               pattern : {call.pattern}, n : {call.n}, part : {call.part},
               total : {call.total}, next : {call.next}, limits : LimitPairs]

(* A wait ends by itself before its call may take no longer.               *)
DueInv ==
  /\ call.do # "idle" /\ Longest(call.limits) # Forever => clock <= Longest(call.limits)
  /\ waiting => /\ call.do # "idle"
                /\ due # Forever => clock <= due
                /\ Longest(call.limits) # Forever => due # Forever /\ due <= Longest(call.limits)

(* A select remembers whether bytes are in the buffer, and waits only when *)
(* there are none.                                                         *)
SelectInv ==
  /\ call.do = "select" =>
       /\ call.dirty <=> ~Empty
       /\ call.limits.total = Forever
       /\ ~Empty => call.limits.block = 0
       /\ waiting /\ ~Empty => due = clock
  /\ reply.of = "select" => reply.listed = reply.ready

WaitInv == CallOK /\ DueInv /\ SelectInv

EndedOK == ended \in {"up", "closed", "reset"}

LEMMA RetryIs ==
  ASSUME clock \in Nat, NEW limits \in LimitPairs,
         Longest(limits) # Forever => clock <= Longest(limits)
  PROVE  /\ Deadline(limits) \in Limit
         /\ Deadline(limits) # Forever => clock <= Deadline(limits)
         /\ Longest(limits) # Forever =>
              Deadline(limits) # Forever /\ Deadline(limits) <= Longest(limits)
         /\ limits.total = Forever /\ limits.block = 0 => Deadline(limits) = clock
<1>1. limits.block \in Limit /\ limits.total \in Limit /\ Forever \notin Nat
  BY TimeoutsAssumption DEF TimeoutsAssumption, LimitPairs
<1>2. CASE limits.block = Forever /\ limits.total = Forever
  <2>1. Deadline(limits) = Forever /\ Longest(limits) = Forever
    BY <1>2 DEF Deadline, Retry, Longest
  <2>2. QED
    BY <1>1, <1>2, <2>1 DEF Limit
<1>3. CASE limits.block = Forever /\ limits.total # Forever
  <2>1. limits.total \in Nat /\ clock <= limits.total
    BY <1>1, <1>3 DEF Limit, Longest
  <2>2. Retry(limits) = limits.total - clock /\ limits.total - clock \in Nat
    BY <1>3, <2>1 DEF Retry, AtLeast0
  <2>3. Deadline(limits) = limits.total
    BY <1>1, <2>1, <2>2 DEF Deadline
  <2>4. QED
    BY <1>1, <1>3, <2>1, <2>3 DEF Limit, Longest
<1>4. CASE limits.block # Forever /\ limits.total = Forever
  <2>1. limits.block \in Nat /\ clock <= limits.block
    BY <1>1, <1>4 DEF Limit, Longest
  <2>2. Retry(limits) = limits.block - clock /\ limits.block - clock \in Nat
    BY <1>4, <2>1 DEF Retry, AtLeast0
  <2>3. Deadline(limits) = limits.block
    BY <1>1, <2>1, <2>2 DEF Deadline
  <2>4. QED
    BY <1>1, <1>4, <2>1, <2>3 DEF Limit, Longest
<1>5. CASE limits.block # Forever /\ limits.total # Forever
  <2>1. limits.block \in Nat /\ limits.total \in Nat /\ clock <= limits.total
    BY <1>1, <1>5 DEF Limit, Longest
  <2>2. Retry(limits) \in 0 .. limits.total - clock
    BY <1>5, <2>1 DEF Retry, AtLeast0, Smaller
  <2>3. Deadline(limits) = clock + Retry(limits) /\ Retry(limits) \in Nat
    BY <1>1, <2>1, <2>2 DEF Deadline
  <2>4. Deadline(limits) \in Nat /\ clock <= Deadline(limits)
        /\ Deadline(limits) <= limits.total
    BY <2>1, <2>2, <2>3
  <2>5. QED
    BY <1>1, <1>5, <2>4 DEF Limit, Longest
<1>6. QED
  BY <1>2, <1>3, <1>4, <1>5

LEMMA StreamInit0 == StreamInit => WaitInv
<1> SUFFICES ASSUME StreamInit PROVE WaitInv
  OBVIOUS
<1>1. Forever \in Limit /\ Timeouts \subseteq Limit
  BY TimeoutsAssumption DEF TimeoutsAssumption, Limit
<1>2. CallOK
  BY <1>1 DEF StreamInit, CallOK, NoCall, LimitPairs
<1>3. DueInv /\ SelectInv
  BY DEF StreamInit, DueInv, SelectInv, NoCall, NoResult
<1>4. QED
  BY <1>2, <1>3 DEF WaitInv

(* A call that returns.                                                    *)
LEMMA ReturnKeeps ==
  ASSUME WaitInv, NEW res, Return(res), tm' = tm,
         res.of = "select" => res.listed = res.ready
  PROVE  WaitInv'
<1>1. Forever \in Limit
  BY DEF Limit
<1>2. call' = NoCall /\ waiting' = FALSE /\ due' = Forever /\ clock' = 0 /\ reply' = res
  BY DEF Return
<1>3. CallOK'
  BY <1>1, <1>2 DEF WaitInv, CallOK, NoCall, LimitPairs
<1>4. DueInv' /\ SelectInv'
  BY <1>2 DEF DueInv, SelectInv, NoCall
<1>5. QED
  BY <1>3, <1>4 DEF WaitInv

(* A call that begins; a select begins as SelectInv wants it.              *)
LEMMA BeginKeeps ==
  ASSUME WaitInv, NEW c, Begin(c), tm' = tm,
         c \in [do : {"receive", "send", "select"}, dirty : BOOLEAN,
                pattern : {c.pattern}, n : {c.n}, part : {c.part},
                total : {c.total}, next : {c.next}, limits : LimitPairs],
         c.do = "select" => /\ c.dirty <=> ~Empty'
                            /\ c.limits.total = Forever
                            /\ ~Empty' => c.limits.block = 0
  PROVE  WaitInv'
<1>1. Forever \in Limit /\ Forever \notin Nat
  BY TimeoutsAssumption DEF TimeoutsAssumption, Limit
<1>2. call' = c /\ waiting' = FALSE /\ due' = Forever /\ clock' = 0 /\ reply' = NoResult
  BY DEF Begin
<1>3. CallOK'
  BY <1>1, <1>2 DEF WaitInv, CallOK, LimitPairs
<1>4. Longest(c.limits) # Forever => 0 <= Longest(c.limits)
  BY <1>1 DEF Longest, LimitPairs, Limit
<1>5. DueInv'
  BY <1>2, <1>4 DEF DueInv, Longest
<1>6. SelectInv'
  BY <1>2 DEF SelectInv, NoResult, Empty
<1>7. QED
  BY <1>3, <1>5, <1>6 DEF WaitInv

(* A call that goes to wait, or whose wait is begun again.                 *)
LEMMA SleepKeeps ==
  ASSUME WaitInv, call.do # "idle", waiting', due' = Deadline(call.limits),
         UNCHANGED <<tm, call, clock, reply, data, low>>
  PROVE  WaitInv'
<1>1. call.limits \in LimitPairs /\ clock \in Nat
  BY DEF WaitInv, CallOK
<1>2. Longest(call.limits) # Forever => clock <= Longest(call.limits)
  BY DEF WaitInv, DueInv
<1>3. /\ due' \in Limit
      /\ due' # Forever => clock <= due'
      /\ Longest(call.limits) # Forever => due' # Forever /\ due' <= Longest(call.limits)
      /\ call.limits.total = Forever /\ call.limits.block = 0 => due' = clock
  BY <1>1, <1>2, RetryIs
<1>4. CallOK'
  BY <1>3 DEF WaitInv, CallOK
<1>5. DueInv'
  BY <1>3 DEF WaitInv, DueInv, Longest
<1>6. SelectInv'
  BY <1>3 DEF WaitInv, SelectInv, Empty
<1>7. QED
  BY <1>4, <1>5, <1>6 DEF WaitInv

LEMMA WaitKeeps ==
  ASSUME WaitInv, call.do # "idle", NEW res, Wait(res),
         UNCHANGED <<tm, data, low>>, res.of # "select"
  PROVE  WaitInv'
<1>1. CASE call.limits.block = 0
  BY <1>1, ReturnKeeps DEF Wait
<1>2. CASE call.limits.block # 0
  BY <1>2, SleepKeeps DEF Wait
<1>3. QED
  BY <1>1, <1>2

(* Nothing of a call changes but, while it receives, the buffer.           *)
LEMMA StillKeeps ==
  ASSUME WaitInv, UNCHANGED <<tm, call, waiting, due, clock, reply>>,
         call.do = "receive" \/ UNCHANGED <<data, low>>
  PROVE  WaitInv'
<1>1. CallOK' /\ DueInv'
  BY DEF WaitInv, CallOK, DueInv, Longest
<1>2. SelectInv'
  BY DEF WaitInv, SelectInv, Empty
<1>3. QED
  BY <1>1, <1>2 DEF WaitInv

LEMMA EndedStep ==
  ASSUME EndedOK, [StreamNext]_streamVars
  PROVE  EndedOK'
<1>1. \/ UNCHANGED ended \/ ended' = "closed" \/ ended' \in {"closed", "reset"}
  <2> USE DEF netVars, streamVars
  <2>1. CASE UNCHANGED streamVars
    BY <2>1
  <2>2. CASE ReceiveFails
    <3>1. CASE ~open
      BY <2>2, <3>1 DEF ReceiveFails
    <3>2. CASE open /\ ended \in {"closed", "reset", "up"}
      BY <2>2, <3>2 DEF ReceiveFails
    <3>3. QED
      BY <3>1, <3>2 DEF EndedOK
  <2>3. QED
    BY <2>1, <2>2
    DEF StreamNext, SetTimeout, Receive, ReceiveReached, Fill, Consume, SendCall, SendSome,
        SendEnds, Select, SelectSleeps, SelectReturns, Wakes, Interrupted, TimePasses,
        Close, PeerSends, PeerEnds, PeerTakes
<1>2. QED
  BY <1>1 DEF EndedOK

LEMMA WaitStep ==
  ASSUME WaitInv, EndedOK, [StreamNext]_streamVars
  PROVE  WaitInv'
<1> USE DEF bufVars, netVars
<1>1. ASSUME NEW t \in Timeouts, NEW mode \in {"block", "total"}, SetTimeout(t, mode)
      PROVE  WaitInv'
  <2>1. t \in Limit
    BY TimeoutsAssumption DEF TimeoutsAssumption, Limit
  <2>2. UNCHANGED <<data, low, call, waiting, due, clock, reply>>
        /\ tm' = [tm EXCEPT ![mode] = t] /\ call = NoCall
    BY <1>1 DEF SetTimeout
  <2>3. tm' \in LimitPairs
    BY <2>1, <2>2 DEF WaitInv, CallOK, LimitPairs
  <2>4. CallOK' /\ DueInv' /\ SelectInv'
    BY <2>2, <2>3 DEF WaitInv, CallOK, DueInv, SelectInv, Longest, Empty
  <2>5. QED
    BY <2>4 DEF WaitInv
<1>2. ASSUME NEW pattern \in {"*l", "*a", "n"}, NEW n, NEW prefix, Receive(pattern, n, prefix)
      PROVE  WaitInv'
  <2> DEFINE c == [NoCall EXCEPT !.do = "receive", !.pattern = pattern, !.n = n,
                                 !.part = prefix, !.limits = tm]
  <2>1. Begin(c) /\ tm' = tm
    BY <1>2 DEF Receive
  <2>2. tm \in LimitPairs
    BY DEF WaitInv, CallOK
  <2>3. c \in [do : {"receive", "send", "select"}, dirty : BOOLEAN,
               pattern : {c.pattern}, n : {c.n}, part : {c.part},
               total : {c.total}, next : {c.next}, limits : LimitPairs]
    BY <2>2 DEF NoCall
  <2>4. c.do # "select"
    BY DEF NoCall
  <2> HIDE DEF c
  <2>5. QED
    BY <2>1, <2>3, <2>4, BeginKeeps
<1>3. CASE ReceiveReached
  <2>1. Return(Received("none", call.part)) /\ tm' = tm
    BY <1>3 DEF ReceiveReached
  <2>2. Received("none", call.part).of # "select"
    BY DEF Received, NoResult
  <2>3. QED
    BY <2>1, <2>2, ReturnKeeps
<1>4. CASE Fill
  BY <1>4, StillKeeps DEF Fill, Receiving
<1>5. CASE Consume
  <2>1. PICK part, count :
          /\ \/ Return(Received("none", part))
             \/ /\ call' = [call EXCEPT !.part = part, !.total = @ + count]
                /\ UNCHANGED <<waiting, due, clock, reply>>
          /\ tm' = tm /\ call.do = "receive"
    BY <1>5 DEF Consume, Receiving
  <2>2. Received("none", part).of # "select"
    BY DEF Received, NoResult
  <2>3. CASE Return(Received("none", part))
    BY <2>1, <2>2, <2>3, ReturnKeeps
  <2>4. CASE call' = [call EXCEPT !.part = part, !.total = @ + count]
             /\ UNCHANGED <<waiting, due, clock, reply>>
    <3>1. call'.do = call.do /\ call'.limits = call.limits
      BY <2>4 DEF WaitInv, CallOK
    <3>2. CallOK'
      BY <2>1, <2>4 DEF WaitInv, CallOK
    <3>3. DueInv'
      BY <2>4, <3>1 DEF WaitInv, DueInv, Longest
    <3>4. SelectInv'
      BY <2>1, <2>4, <3>1 DEF WaitInv, SelectInv
    <3>5. QED
      BY <3>2, <3>3, <3>4 DEF WaitInv
  <2>5. QED
    BY <2>1, <2>3, <2>4
<1>6. CASE ReceiveFails
  <2>0. \/ Return(ReceiveError("closed")) \/ Return(ReceiveError("reset"))
        \/ Wait(ReceiveError("timeout"))
    <3>1. CASE ~open
      BY <1>6, <3>1 DEF ReceiveFails
    <3>2. CASE open /\ ended \in {"closed", "reset", "up"}
      BY <1>6, <3>2 DEF ReceiveFails
    <3>3. QED
      BY <3>1, <3>2 DEF EndedOK
  <2>1. PICK err : /\ Return(ReceiveError(err)) \/ Wait(ReceiveError(err))
                   /\ UNCHANGED <<tm, data, low>> /\ call.do = "receive"
    BY <1>6, <2>0 DEF ReceiveFails, Receiving
  <2>2. ReceiveError(err).of # "select"
    BY DEF ReceiveError, Received, NoResult
  <2>3. QED
    BY <2>1, <2>2, ReturnKeeps, WaitKeeps
<1>7. ASSUME NEW i, SendCall(i)
      PROVE  WaitInv'
  <2> DEFINE c == [NoCall EXCEPT !.do = "send", !.next = Start(i), !.limits = tm]
  <2>1. Begin(c) /\ tm' = tm
    BY <1>7 DEF SendCall
  <2>2. tm \in LimitPairs
    BY DEF WaitInv, CallOK
  <2>3. c \in [do : {"receive", "send", "select"}, dirty : BOOLEAN,
               pattern : {c.pattern}, n : {c.n}, part : {c.part},
               total : {c.total}, next : {c.next}, limits : LimitPairs]
    BY <2>2 DEF NoCall
  <2>4. c.do # "select"
    BY DEF NoCall
  <2> HIDE DEF c
  <2>5. QED
    BY <2>1, <2>3, <2>4, BeginKeeps
<1>8. CASE SendSome
  <2>1. PICK k : call' = [call EXCEPT !.next = @ + k, !.total = @ + k]
    BY <1>8 DEF SendSome
  <2>2. UNCHANGED <<data, low, tm, waiting, due, clock, reply>> /\ call.do = "send"
    BY <1>8 DEF SendSome
  <2>3. call'.do = call.do /\ call'.limits = call.limits
    BY <2>1 DEF WaitInv, CallOK
  <2>4. CallOK'
    BY <2>1, <2>2 DEF WaitInv, CallOK
  <2>5. DueInv'
    BY <2>2, <2>3 DEF WaitInv, DueInv, Longest
  <2>6. SelectInv'
    BY <2>2, <2>3 DEF WaitInv, SelectInv
  <2>7. QED
    BY <2>4, <2>5, <2>6 DEF WaitInv
<1>9. CASE SendEnds
  <2>1. PICK err : (Return(Sent(err)) \/ Wait(Sent(err)))
                   /\ UNCHANGED <<tm, data, low>> /\ call.do = "send"
    BY <1>9 DEF SendEnds
  <2>2. Sent(err).of # "select"
    BY DEF Sent, NoResult
  <2>3. QED
    BY <2>1, <2>2, ReturnKeeps, WaitKeeps
<1>10. ASSUME NEW t \in Timeouts, Select(t)
       PROVE  WaitInv'
  <2> DEFINE c == [NoCall EXCEPT !.do = "select", !.dirty = ~Empty,
                     !.limits = [block |-> IF Empty THEN t ELSE 0, total |-> Forever]]
  <2>1. Begin(c) /\ tm' = tm /\ UNCHANGED <<data, low>>
    BY <1>10 DEF Select
  <2>2. t \in Limit /\ 0 \in Limit /\ Forever \in Limit
    BY TimeoutsAssumption DEF TimeoutsAssumption, Limit
  <2>3. c \in [do : {"receive", "send", "select"}, dirty : BOOLEAN,
               pattern : {c.pattern}, n : {c.n}, part : {c.part},
               total : {c.total}, next : {c.next}, limits : LimitPairs]
    BY <2>2 DEF NoCall, LimitPairs
  <2>4. /\ c.dirty <=> ~Empty'
        /\ c.limits.total = Forever
        /\ ~Empty' => c.limits.block = 0
    BY <2>1 DEF NoCall, Empty
  <2> HIDE DEF c
  <2>5. QED
    BY <2>1, <2>3, <2>4, BeginKeeps
<1>11. CASE SelectSleeps
  BY <1>11, SleepKeeps DEF SelectSleeps
<1>12. CASE SelectReturns
  <2> DEFINE res == [NoResult EXCEPT
       !.of = "select",
       !.listed = (IF call.dirty THEN 1 ELSE 0) + (IF Readable /\ ~call.dirty THEN 1 ELSE 0),
       !.ready = IF Readable \/ ~Empty THEN 1 ELSE 0]
  <2>1. Return(res) /\ tm' = tm /\ call.do = "select"
    BY <1>12 DEF SelectReturns
  <2>2. call.dirty <=> ~Empty
    BY <2>1 DEF WaitInv, SelectInv
  <2>3. res.listed = res.ready
    <3>1. res.listed = (IF call.dirty THEN 1 ELSE 0) + (IF Readable /\ ~call.dirty THEN 1 ELSE 0)
          /\ res.ready = IF Readable \/ ~Empty THEN 1 ELSE 0
      BY DEF NoResult
    <3>2. CASE Empty
      BY <2>2, <3>1, <3>2
    <3>3. CASE ~Empty
      BY <2>2, <3>1, <3>3
    <3>4. QED
      BY <3>2, <3>3
  <2> HIDE DEF res
  <2>4. QED
    BY <2>1, <2>3, ReturnKeeps
<1>13. CASE Wakes
  <2>1. call.do # "select" /\ call.do # "idle" /\ tm' = tm /\ UNCHANGED <<data, low>>
    BY <1>13 DEF Wakes, WaitInv, DueInv
  <2>2. CASE waiting' = FALSE /\ due' = Forever /\ UNCHANGED <<call, clock, reply>>
    <3>1. Forever \in Limit
      BY DEF Limit
    <3>2. CallOK' /\ DueInv' /\ SelectInv'
      BY <2>1, <2>2, <3>1 DEF WaitInv, CallOK, DueInv, SelectInv, Longest
    <3>3. QED
      BY <3>2 DEF WaitInv
  <2>3. ASSUME Return(Sent("timeout")) \/ Return(ReceiveError("timeout"))
        PROVE  WaitInv'
    <3>1. Sent("timeout").of # "select" /\ ReceiveError("timeout").of # "select"
      BY DEF Sent, ReceiveError, Received, NoResult
    <3>2. QED
      BY <2>1, <2>3, <3>1, ReturnKeeps
  <2>4. QED
    BY <1>13, <2>2, <2>3 DEF Wakes
<1>14. CASE Interrupted
  <2>1. call.do # "idle"
    BY <1>14 DEF Interrupted, WaitInv, DueInv
  <2>2. QED
    BY <1>14, <2>1, SleepKeeps DEF Interrupted
<1>15. CASE TimePasses
  <2>1. /\ waiting /\ due # Forever /\ clock < due /\ clock' = clock + 1
        /\ UNCHANGED <<data, low, tm, call, waiting, due, reply>>
    BY <1>15 DEF TimePasses
  <2>2. clock \in Nat /\ due \in Nat /\ clock' \in Nat /\ clock' <= due
    BY <2>1 DEF WaitInv, CallOK, Limit
  <2>3. CallOK'
    BY <2>1, <2>2 DEF WaitInv, CallOK
  <2>4. Longest(call.limits) # Forever => clock' <= Longest(call.limits)
    <3>1. ASSUME Longest(call.limits) # Forever
          PROVE  clock' <= Longest(call.limits)
      <4>1. due <= Longest(call.limits)
        BY <2>1, <3>1 DEF WaitInv, DueInv
      <4>2. Longest(call.limits) \in Nat
        BY <3>1 DEF WaitInv, CallOK, LimitPairs, Limit, Longest
      <4>3. QED
        BY <2>2, <4>1, <4>2
    <3>2. QED
      BY <3>1
  <2>5. DueInv'
    BY <2>1, <2>2, <2>4 DEF WaitInv, DueInv, Longest
  <2>6. SelectInv'
    <3>1. ~(call.do = "select" /\ ~Empty)
      <4>1. ~(due = clock)
        BY <2>1, <2>2
      <4>2. QED
        BY <2>1, <4>1 DEF WaitInv, SelectInv
    <3>2. QED
      BY <2>1, <3>1 DEF WaitInv, SelectInv, Empty
  <2>7. QED
    BY <2>3, <2>5, <2>6 DEF WaitInv
<1>16. CASE Close
  BY <1>16, StillKeeps DEF Close
<1>17. ASSUME NEW letter, PeerSends(letter)
       PROVE  WaitInv'
  BY <1>17, StillKeeps DEF PeerSends
<1>18. CASE PeerEnds \/ PeerTakes
  BY <1>18, StillKeeps DEF PeerEnds, PeerTakes
<1>19. CASE UNCHANGED streamVars
  BY <1>19, StillKeeps DEF streamVars
<1>20. QED
  BY <1>1, <1>2, <1>3, <1>4, <1>5, <1>6, <1>7, <1>8, <1>9, <1>10, <1>11, <1>12, <1>13,
     <1>14, <1>15, <1>16, <1>17, <1>18, <1>19 DEF StreamNext

(* The inductive invariant of the waits of a connected object.             *)
THEOREM WaitInvariance == StreamSpec => [](WaitInv /\ EndedOK)
<1>1. StreamInit => EndedOK
  BY DEF StreamInit, EndedOK
<1>2. QED
  BY <1>1, StreamInit0, WaitStep, EndedStep, PTL DEF StreamSpec

(* No call waits when what it wants is there, or longer than it may, for   *)
(* every pair of timeouts and however often its waits are cut short.       *)
THEOREM WaitsWhenDueHolds == StreamSpec => []WaitsWhenDue
<1>1. WaitInv => WaitsWhenDue
  <2> SUFFICES ASSUME WaitInv PROVE WaitsWhenDue
    OBVIOUS
  <2>1. SelectSeesBuffer
    BY DEF WaitInv, SelectInv, SelectSeesBuffer
  <2>2. WaitsInTime
    BY DEF WaitInv, DueInv, WaitsInTime, Longest
  <2>3. QED
    BY <2>1, <2>2 DEF WaitsWhenDue
<1>2. QED
  BY <1>1, WaitInvariance, PTL
-----------------------------------------------------------------------------
(* Induction over the natural numbers, for sets of them: the library's     *)
(* theorems that take a predicate cannot be instantiated.                  *)
LEMMA LeastNat == ASSUME NEW T, T \subseteq Nat, T # {}
  PROVE \E x \in T : \A y \in T : x <= y
<1> DEFINE R == {ss \in Nat \X Nat : ss[1] < ss[2]}
<1>1. IsWellFoundedOn(R, Nat)
  BY NatLessThanWellFounded DEF OpToRel
<1>2. PICK x \in T : \A y \in T : ~ (<<y, x>> \in R)
  <2> HIDE DEF R
  <2>1. QED BY <1>1, WFMin
<1>3. ASSUME NEW y \in T PROVE x <= y
  <2>1. x \in Nat /\ y \in Nat
    OBVIOUS
  <2>2. ~ (<<y, x>> \in R)
    BY <1>2
  <2>3. ~ (y < x)
    BY <2>1, <2>2
  <2>4. QED
    BY <2>1, <2>3
<1>4. QED
  BY <1>3

LEMMA NatInd == ASSUME NEW S, 0 \in S, \A n \in Nat : n \in S => n + 1 \in S PROVE Nat \subseteq S
<1> DEFINE T == Nat \ S
<1>1. CASE T = {}
  BY <1>1
<1>2. CASE T # {}
  <2>1. PICK x \in T : \A y \in T : x <= y
    <3> HIDE DEF T
    <3>1. T \subseteq Nat BY DEF T
    <3>2. QED BY <1>2, <3>1, LeastNat
  <2>2. x \in Nat /\ x # 0 /\ x \notin S
    OBVIOUS
  <2>3. x - 1 \in Nat /\ x - 1 \notin T
    BY <2>1, <2>2
  <2>4. (x - 1) + 1 = x
    BY <2>2
  <2>5. QED
    BY <2>2, <2>3, <2>4
<1>3. QED BY <1>1, <1>2

(* NoEnds, whose recursion is over the length: its values, and that it     *)
(* goes through a concatenation.                                           *)
Letters == {Text, CR, LF}

KeptTo(s, n, f) == f = [i \in 0 .. n |->
        IF i = 0 THEN << >>
        ELSE IF s[i] \in {CR, LF} THEN f[i - 1] ELSE Append(f[i - 1], s[i])]

LEMMA KeptGrows ==
  ASSUME NEW s, NEW n \in Nat, NEW f, KeptTo(s, n, f)
  PROVE  \E g : KeptTo(s, n + 1, g)
<1> DEFINE g == [i \in 0 .. n + 1 |-> IF i <= n THEN f[i]
                  ELSE IF s[n + 1] \in {CR, LF} THEN f[n] ELSE Append(f[n], s[n + 1])]
           h == [i \in 0 .. n + 1 |->
                  IF i = 0 THEN << >>
                  ELSE IF s[i] \in {CR, LF} THEN g[i - 1] ELSE Append(g[i - 1], s[i])]
<1>1. ASSUME NEW i \in 0 .. n + 1 PROVE g[i] = h[i]
  <2>1. CASE i = n + 1
    <3>1. i # 0 /\ i - 1 = n /\ ~(i <= n) /\ n \in 0 .. n + 1 /\ n <= n
      BY <2>1
    <3>2. g[n] = f[n]
      BY <3>1
    <3>3. QED
      BY <2>1, <3>1, <3>2
  <2>2. CASE i # n + 1
    <3>1. i \in 0 .. n /\ i <= n
      BY <2>2
    <3>2. f[i] = IF i = 0 THEN << >>
                 ELSE IF s[i] \in {CR, LF} THEN f[i - 1] ELSE Append(f[i - 1], s[i])
      BY <3>1 DEF KeptTo
    <3>3. i # 0 => i - 1 \in 0 .. n + 1 /\ i - 1 <= n
      BY <3>1
    <3>4. i # 0 => g[i - 1] = f[i - 1]
      BY <3>3
    <3>5. QED
      BY <3>1, <3>2, <3>4
  <2>3. QED
    BY <2>1, <2>2
<1>2. g = h
  BY <1>1
<1>3. KeptTo(s, n + 1, g)
  BY <1>2 DEF KeptTo
<1>4. QED
  BY <1>3

LEMMA KeptExists ==
  ASSUME NEW s, NEW n \in Nat
  PROVE  \E f : KeptTo(s, n, f)
<1> DEFINE S == {m \in Nat : \E f : KeptTo(s, m, f)}
<1>1. 0 \in S
  <2> DEFINE f == [i \in 0 .. 0 |-> << >>]
  <2>1. f = [i \in 0 .. 0 |->
        IF i = 0 THEN << >>
        ELSE IF s[i] \in {CR, LF} THEN f[i - 1] ELSE Append(f[i - 1], s[i])]
    OBVIOUS
  <2>2. KeptTo(s, 0, f)
    BY <2>1 DEF KeptTo
  <2>3. QED
    BY <2>2
<1>2. ASSUME NEW m \in Nat, m \in S PROVE m + 1 \in S
  BY <1>2, KeptGrows
<1> HIDE DEF S
<1>3. Nat \subseteq S
  BY <1>1, <1>2, NatInd
<1>4. QED
  BY <1>3 DEF S

LEMMA KeptAt ==
  ASSUME NEW s, NEW n \in Nat, NEW f, KeptTo(s, n, f)
  PROVE  /\ f[0] = << >>
         /\ \A i \in 1 .. n :
              f[i] = IF s[i] \in {CR, LF} THEN f[i - 1] ELSE Append(f[i - 1], s[i])
<1> DEFINE k(i) == IF i = 0 THEN << >>
                   ELSE IF s[i] \in {CR, LF} THEN f[i - 1] ELSE Append(f[i - 1], s[i])
<1>1. f = [i \in 0 .. n |-> k(i)]
  BY DEF KeptTo
<1>2. ASSUME NEW i \in 0 .. n PROVE f[i] = k(i)
  <2> HIDE DEF k
  <2>1. QED
    BY <1>1
<1>3. 0 \in 0 .. n
  OBVIOUS
<1>4. f[0] = << >>
  BY <1>2, <1>3
<1>5. ASSUME NEW i \in 1 .. n
      PROVE  f[i] = IF s[i] \in {CR, LF} THEN f[i - 1] ELSE Append(f[i - 1], s[i])
  <2>1. i \in 0 .. n /\ i # 0
    OBVIOUS
  <2>2. QED
    BY <1>2, <2>1
<1>6. QED
  BY <1>4, <1>5

LEMMA NoEndsIs ==
  ASSUME NEW s \in Seq(Letters)
  PROVE  \E f : KeptTo(s, Len(s), f) /\ NoEnds(s) = f[Len(s)]
<1>1. Len(s) \in Nat
  OBVIOUS
<1>2. \E f : KeptTo(s, Len(s), f)
  BY <1>1, KeptExists
<1>3. KeptTo(s, Len(s), CHOOSE f : KeptTo(s, Len(s), f))
  BY <1>2
<1>4. NoEnds(s) = (CHOOSE f : KeptTo(s, Len(s), f))[Len(s)]
  BY DEF NoEnds, KeptTo
<1>5. QED
  BY <1>3, <1>4

LEMMA AppendConcat ==
  ASSUME NEW x \in Seq(Letters), NEW y \in Seq(Letters), NEW e \in Letters
  PROVE  Append(x \o y, e) = x \o Append(y, e) /\ Append(x, e) \in Seq(Letters)
<1>1. x \o y \in Seq(Letters) /\ <<e>> \in Seq(Letters)
  OBVIOUS
<1>2. Append(x \o y, e) = (x \o y) \o <<e>> /\ Append(y, e) = y \o <<e>>
  BY <1>1, AppendIsConcat
<1>3. (x \o y) \o <<e>> = x \o (y \o <<e>>)
  BY <1>1, ConcatAssociative
<1>4. QED
  BY <1>2, <1>3

LEMMA KeptSeq ==
  ASSUME NEW s \in Seq(Letters), NEW f, KeptTo(s, Len(s), f)
  PROVE  \A i \in 0 .. Len(s) : f[i] \in Seq(Letters)
<1> DEFINE S == {m \in Nat : m <= Len(s) => f[m] \in Seq(Letters)}
<1>1. 0 \in S
  BY DEF KeptTo
<1>2. ASSUME NEW m \in Nat, m \in S PROVE m + 1 \in S
  <2>1. CASE m + 1 <= Len(s)
    <3>1. f[m] \in Seq(Letters) /\ s[m + 1] \in Letters /\ m + 1 \in 0 .. Len(s) /\ m + 1 # 0
          /\ (m + 1) - 1 = m
      BY <1>2, <2>1
    <3>2. f[m + 1] = IF s[m + 1] \in {CR, LF} THEN f[m] ELSE Append(f[m], s[m + 1])
      BY <3>1, KeptAt
    <3>3. f[m + 1] \in Seq(Letters)
      BY <3>1, <3>2, AppendConcat
    <3>4. QED
      BY <3>3
  <2>2. QED
    BY <2>1
<1> HIDE DEF S
<1>3. Nat \subseteq S
  BY <1>1, <1>2, NatInd
<1>4. QED
  BY <1>3 DEF S

LEMMA NoEndsConcat ==
  ASSUME NEW a \in Seq(Letters), NEW b \in Seq(Letters)
  PROVE  NoEnds(a \o b) = NoEnds(a) \o NoEnds(b) /\ NoEnds(a) \in Seq(Letters)
<1> DEFINE s == a \o b
<1>1. s \in Seq(Letters) /\ Len(s) = Len(a) + Len(b) /\ Len(a) \in Nat /\ Len(b) \in Nat
      /\ (\A i \in 1 .. Len(a) : s[i] = a[i]) /\ (\A i \in 1 .. Len(b) : s[Len(a) + i] = b[i])
  OBVIOUS
<1> HIDE DEF s
<1>2. PICK f : KeptTo(s, Len(s), f) /\ NoEnds(s) = f[Len(s)]
  BY <1>1, NoEndsIs
<1>3. PICK g : KeptTo(a, Len(a), g) /\ NoEnds(a) = g[Len(a)]
  BY NoEndsIs
<1>4. PICK h : KeptTo(b, Len(b), h) /\ NoEnds(b) = h[Len(b)]
  BY NoEndsIs
<1>5. /\ f[0] = << >>
      /\ \A i \in 1 .. Len(s) : f[i] = IF s[i] \in {CR, LF} THEN f[i - 1] ELSE Append(f[i - 1], s[i])
  BY <1>1, <1>2, KeptAt
<1>6. /\ g[0] = << >>
      /\ \A i \in 1 .. Len(a) : g[i] = IF a[i] \in {CR, LF} THEN g[i - 1] ELSE Append(g[i - 1], a[i])
  BY <1>1, <1>3, KeptAt
<1>7. /\ h[0] = << >>
      /\ \A i \in 1 .. Len(b) : h[i] = IF b[i] \in {CR, LF} THEN h[i - 1] ELSE Append(h[i - 1], b[i])
  BY <1>1, <1>4, KeptAt
<1>8. /\ \A i \in 0 .. Len(a) : g[i] \in Seq(Letters)
      /\ \A i \in 0 .. Len(b) : h[i] \in Seq(Letters)
  BY <1>3, <1>4, KeptSeq
<1>9. f[Len(a)] = g[Len(a)]
  <2> DEFINE S == {m \in Nat : m <= Len(a) => f[m] = g[m]}
  <2>1. 0 \in S
    BY <1>5, <1>6
  <2>2. ASSUME NEW m \in Nat, m \in S PROVE m + 1 \in S
    <3>1. CASE m + 1 <= Len(a)
      <4>1. m + 1 \in 1 .. Len(a) /\ m + 1 \in 1 .. Len(s) /\ (m + 1) - 1 = m /\ f[m] = g[m]
        BY <1>1, <2>2, <3>1
      <4>2. s[m + 1] = a[m + 1]
        BY <1>1, <4>1
      <4>3. QED
        BY <1>5, <1>6, <4>1, <4>2
    <3>2. QED
      BY <3>1
  <2> HIDE DEF S
  <2>3. Nat \subseteq S
    BY <2>1, <2>2, NatInd
  <2>4. QED
    BY <1>1, <2>3 DEF S
<1>10. f[Len(a) + Len(b)] = g[Len(a)] \o h[Len(b)]
  <2> DEFINE P(m) == m <= Len(b) => f[Len(a) + m] = g[Len(a)] \o h[m]
             S == {m \in Nat : P(m)}
  <2>1. P(0)
    <3>1. Len(a) + 0 = Len(a) /\ g[Len(a)] \in Seq(Letters)
      BY <1>1, <1>8
    <3>2. g[Len(a)] \o << >> = g[Len(a)]
      BY <3>1
    <3>3. QED
      BY <1>7, <1>9, <3>1, <3>2
  <2>2. ASSUME NEW m \in Nat, P(m), m + 1 <= Len(b)
        PROVE  f[Len(a) + (m + 1)] = g[Len(a)] \o h[m + 1]
    <3>1. m + 1 \in 1 .. Len(b) /\ (m + 1) - 1 = m /\ m <= Len(b)
      BY <1>1, <2>2
    <3>2. Len(a) + (m + 1) \in 1 .. Len(s) /\ (Len(a) + (m + 1)) - 1 = Len(a) + m
      BY <1>1, <2>2
    <3>3. f[Len(a) + m] = g[Len(a)] \o h[m]
      BY <2>2, <3>1
    <3>4. s[Len(a) + (m + 1)] = b[m + 1] /\ b[m + 1] \in Letters
      BY <1>1, <3>1
    <3>5. g[Len(a)] \in Seq(Letters) /\ h[m] \in Seq(Letters)
      BY <1>1, <1>8, <3>1
    <3>6. Append(g[Len(a)] \o h[m], b[m + 1]) = g[Len(a)] \o Append(h[m], b[m + 1])
      BY <3>4, <3>5, AppendConcat
    <3>7. f[Len(a) + (m + 1)] = IF b[m + 1] \in {CR, LF} THEN g[Len(a)] \o h[m]
                                ELSE Append(g[Len(a)] \o h[m], b[m + 1])
      BY <1>5, <3>2, <3>3, <3>4
    <3>8. h[m + 1] = IF b[m + 1] \in {CR, LF} THEN h[m] ELSE Append(h[m], b[m + 1])
      BY <1>7, <3>1
    <3>9. QED
      BY <3>6, <3>7, <3>8
  <2>3. ASSUME NEW m \in Nat, P(m) PROVE P(m + 1)
    BY <2>2, <2>3
  <2> HIDE DEF P
  <2>4. 0 \in S /\ \A m \in Nat : m \in S => m + 1 \in S
    BY <2>1, <2>3
  <2>5. Nat \subseteq S
    <3> HIDE DEF S
    <3>1. QED
      BY <2>4, NatInd
  <2>6. P(Len(b))
    BY <1>1, <2>5
  <2>7. Len(b) <= Len(b)
    BY <1>1
  <2>8. QED
    BY <2>6, <2>7 DEF P
<1>11. g[Len(a)] \in Seq(Letters)
  BY <1>1, <1>8
<1>12. QED
  BY <1>1, <1>2, <1>3, <1>4, <1>10, <1>11 DEF s

-----------------------------------------------------------------------------
(* Parts of sequences: their letters, a part of a part, where a            *)
(* concatenation is cut, and what an Append leaves alone.                  *)
LEMMA Piece ==
  ASSUME NEW S, NEW s \in Seq(S), NEW m \in Nat, NEW n \in Nat, m <= n, n <= Len(s)
  PROVE  /\ SubSeq(s, m + 1, n) \in Seq(S)
         /\ Len(SubSeq(s, m + 1, n)) = n - m
         /\ \A i \in 1 .. n - m : SubSeq(s, m + 1, n)[i] = s[m + i]
<1>1. \A i \in m + 1 .. n : s[i] \in S
  OBVIOUS
<1>2. /\ SubSeq(s, m + 1, n) \in Seq(S)
      /\ Len(SubSeq(s, m + 1, n)) = IF m + 1 <= n THEN n - (m + 1) + 1 ELSE 0
      /\ \A i \in 1 .. n - (m + 1) + 1 : SubSeq(s, m + 1, n)[i] = s[(m + 1) + i - 1]
  <2> DEFINE m1 == m + 1
  <2>1. m1 \in Int /\ n \in Int /\ \A i \in m1 .. n : s[i] \in S
    BY <1>1
  <2> HIDE DEF m1
  <2>2. /\ SubSeq(s, m1, n) \in Seq(S)
        /\ Len(SubSeq(s, m1, n)) = IF m1 <= n THEN n - m1 + 1 ELSE 0
        /\ \A i \in 1 .. n - m1 + 1 : SubSeq(s, m1, n)[i] = s[m1 + i - 1]
    BY <2>1, SubSeqProperties
  <2>3. QED
    BY <2>2 DEF m1
<1>3. (IF m + 1 <= n THEN n - (m + 1) + 1 ELSE 0) = n - m /\ n - (m + 1) + 1 = n - m
  OBVIOUS
<1>4. ASSUME NEW i \in 1 .. n - m PROVE SubSeq(s, m + 1, n)[i] = s[m + i]
  <2>1. (m + 1) + i - 1 = m + i
    OBVIOUS
  <2>2. QED
    BY <1>2, <1>3, <2>1
<1>5. QED
  BY <1>2, <1>3, <1>4

LEMMA PieceOfPiece ==
  ASSUME NEW S, NEW s \in Seq(S), NEW m \in Nat, NEW n \in Nat, m <= n, n <= Len(s),
         NEW a \in Nat, NEW b \in Nat, a <= b, b <= n - m
  PROVE  SubSeq(SubSeq(s, m + 1, n), a + 1, b) = SubSeq(s, m + a + 1, m + b)
<1> DEFINE p == SubSeq(s, m + 1, n)
           ma == m + a
           mb == m + b
<1>1. p \in Seq(S) /\ Len(p) = n - m /\ \A i \in 1 .. n - m : p[i] = s[m + i]
  BY Piece
<1>2. ma \in Nat /\ mb \in Nat /\ ma <= mb /\ mb <= Len(s) /\ mb - ma = b - a
  OBVIOUS
<1> HIDE DEF p
<1>3. /\ SubSeq(p, a + 1, b) \in Seq(S)
      /\ Len(SubSeq(p, a + 1, b)) = b - a
      /\ \A i \in 1 .. b - a : SubSeq(p, a + 1, b)[i] = p[a + i]
  BY <1>1, Piece
<1>4. \A i \in 1 .. b - a : p[a + i] = s[ma + i]
  <2> TAKE i \in 1 .. b - a
  <2>1. a + i \in 1 .. n - m /\ m + (a + i) = ma + i
    OBVIOUS
  <2>2. QED
    BY <1>1, <2>1
<1> HIDE DEF ma, mb
<1>5. /\ SubSeq(s, ma + 1, mb) \in Seq(S)
      /\ Len(SubSeq(s, ma + 1, mb)) = mb - ma
      /\ \A i \in 1 .. mb - ma : SubSeq(s, ma + 1, mb)[i] = s[ma + i]
  BY <1>2, Piece
<1> DEFINE q == SubSeq(p, a + 1, b)
           r == SubSeq(s, ma + 1, mb)
<1>6. q = r
  <2>1. q \in Seq(S) /\ r \in Seq(S) /\ Len(q) = b - a /\ Len(r) = b - a
    BY <1>2, <1>3, <1>5
  <2>2. \A i \in 1 .. b - a : q[i] = r[i]
    BY <1>2, <1>3, <1>4, <1>5
  <2> HIDE DEF q, r
  <2>3. QED
    BY <2>1, <2>2, SeqEqual
<1>7. QED
  BY <1>6 DEF p, q, r, ma, mb

LEMMA Cut ==
  ASSUME NEW S, NEW w \in Seq(S), NEW v \in Seq(S), NEW k \in 0 .. Len(w)
  PROVE  /\ SubSeq(w \o v, 1, k) = SubSeq(w, 1, k)
         /\ SubSeq(w \o v, k + 1, Len(w) + Len(v)) = SubSeq(w, k + 1, Len(w)) \o v
<1> DEFINE x == w \o v
           p == SubSeq(w, k + 1, Len(w))
           q == SubSeq(x, k + 1, Len(w) + Len(v))
<1>1. Len(w) \in Nat /\ Len(v) \in Nat /\ k \in Nat /\ k <= Len(w) /\ 0 \in Nat /\ 0 + 1 = 1
  OBVIOUS
<1>2. /\ x \in Seq(S) /\ Len(x) = Len(w) + Len(v)
      /\ \A i \in 1 .. Len(w) : x[i] = w[i]
      /\ \A i \in 1 .. Len(v) : x[Len(w) + i] = v[i]
  OBVIOUS
<1> HIDE DEF x
<1>3. SubSeq(x, 0 + 1, k) = SubSeq(w, 0 + 1, k)
  <2>1. /\ SubSeq(x, 0 + 1, k) \in Seq(S)
        /\ Len(SubSeq(x, 0 + 1, k)) = k - 0
        /\ \A i \in 1 .. k - 0 : SubSeq(x, 0 + 1, k)[i] = x[0 + i]
    BY <1>1, <1>2, Piece
  <2>2. /\ SubSeq(w, 0 + 1, k) \in Seq(S)
        /\ Len(SubSeq(w, 0 + 1, k)) = k - 0
        /\ \A i \in 1 .. k - 0 : SubSeq(w, 0 + 1, k)[i] = w[0 + i]
    BY <1>1, Piece
  <2>3. \A i \in 1 .. k - 0 : x[0 + i] = w[0 + i]
    BY <1>1, <1>2
  <2>4. QED
    BY <2>1, <2>2, <2>3, SeqEqual
<1>4. /\ p \in Seq(S) /\ Len(p) = Len(w) - k
      /\ \A i \in 1 .. Len(w) - k : p[i] = w[k + i]
  BY <1>1, Piece
<1>5. /\ q \in Seq(S) /\ Len(q) = Len(w) + Len(v) - k
      /\ \A i \in 1 .. Len(w) + Len(v) - k : q[i] = x[k + i]
  <2> DEFINE nn == Len(w) + Len(v)
  <2>1. nn \in Nat /\ k <= nn /\ nn <= Len(x)
    BY <1>1, <1>2
  <2> HIDE DEF nn
  <2>2. LET q2 == SubSeq(x, k + 1, nn) IN
        /\ q2 \in Seq(S) /\ Len(q2) = nn - k
        /\ \A i \in 1 .. nn - k : q2[i] = x[k + i]
    BY <1>1, <1>2, <2>1, Piece
  <2>3. QED
    BY <2>2 DEF nn
<1> HIDE DEF p, q
<1>6. /\ p \o v \in Seq(S) /\ Len(p \o v) = Len(p) + Len(v)
      /\ \A i \in 1 .. Len(p) : (p \o v)[i] = p[i]
      /\ \A i \in 1 .. Len(v) : (p \o v)[Len(p) + i] = v[i]
  <2>1. p \in Seq(S)
    BY <1>4
  <2>2. QED
    BY <2>1
<1>7. ASSUME NEW i \in 1 .. Len(q) PROVE q[i] = (p \o v)[i]
  <2>1. q[i] = x[k + i]
    BY <1>5
  <2>2. CASE i <= Len(p)
    <3>1. k + i \in 1 .. Len(w) /\ i \in 1 .. Len(p) /\ i \in 1 .. Len(w) - k
      BY <1>1, <1>4, <1>5, <2>2
    <3>2. QED
      BY <1>2, <1>4, <1>6, <2>1, <3>1
  <2>3. CASE i > Len(p)
    <3> DEFINE j == i - Len(p)
    <3>1. j \in 1 .. Len(v) /\ Len(p) + j = i /\ Len(w) + j = k + i
      BY <1>1, <1>4, <1>5, <2>3
    <3> HIDE DEF j
    <3>2. x[Len(w) + j] = v[j] /\ (p \o v)[Len(p) + j] = v[j]
      BY <1>2, <1>6, <3>1
    <3>3. QED
      BY <2>1, <3>1, <3>2
  <2>4. QED
    BY <1>1, <1>4, <1>5, <2>2, <2>3
<1>8. Len(q) = Len(p \o v)
  BY <1>1, <1>4, <1>5, <1>6
<1>9. q = p \o v
  BY <1>5, <1>6, <1>7, <1>8, SeqEqual
<1>10. QED
  BY <1>1, <1>3, <1>9 DEF x, p, q

LEMMA Grown ==
  ASSUME NEW S, NEW s \in Seq(S), NEW e \in S, NEW m \in Nat, NEW n \in Nat, m <= n, n <= Len(s)
  PROVE  SubSeq(Append(s, e), m + 1, n) = SubSeq(s, m + 1, n)
<1> DEFINE t == Append(s, e)
<1>1. t \in Seq(S) /\ Len(t) = Len(s) + 1 /\ \A i \in 1 .. Len(s) : t[i] = s[i]
  OBVIOUS
<1> HIDE DEF t
<1>2. n <= Len(t)
  BY <1>1
<1>3. LET p == SubSeq(t, m + 1, n) IN
      p \in Seq(S) /\ Len(p) = n - m /\ \A i \in 1 .. n - m : p[i] = t[m + i]
  BY <1>1, <1>2, Piece
<1>4. LET p == SubSeq(s, m + 1, n) IN
      p \in Seq(S) /\ Len(p) = n - m /\ \A i \in 1 .. n - m : p[i] = s[m + i]
  BY Piece
<1>5. \A i \in 1 .. n - m : t[m + i] = s[m + i]
  BY <1>1
<1>6. SubSeq(t, m + 1, n) = SubSeq(s, m + 1, n)
  BY <1>3, <1>4, <1>5, SeqEqual
<1>7. QED
  BY <1>6 DEF t

LEMMA FirstLF ==
  ASSUME NEW w \in Seq(Letters)
  PROVE  LET lf == SelectInSeq(w, LAMBDA x : x = LF)
         IN /\ lf \in 0 .. Len(w)
            /\ lf # 0 => w[lf] = LF /\ \A i \in 1 .. lf - 1 : w[i] # LF
            /\ lf = 0 => \A i \in 1 .. Len(w) : w[i] # LF
<1> DEFINE T == {i \in 1 .. Len(w) : w[i] = LF}
           lf == SelectInSeq(w, LAMBDA x : x = LF)
<1>1. lf = IF T # {} THEN Min(T) ELSE 0
  BY DEF SelectInSeq
<1>2. T \subseteq Nat
  OBVIOUS
<1>3. CASE T = {}
  <2>1. lf = 0 /\ 0 \in 0 .. Len(w)
    BY <1>1, <1>3
  <2>2. \A i \in 1 .. Len(w) : w[i] # LF
    BY <1>3
  <2> HIDE DEF lf
  <2>3. QED
    BY <2>1, <2>2 DEF lf
<1>4. CASE T # {}
  <2> DEFINE m == Min(T)
  <2>1. \E x \in T : \A y \in T : x <= y
    <3> HIDE DEF T
    <3>1. QED
      BY <1>2, <1>4, LeastNat
  <2>2. m \in T /\ \A y \in T : m <= y
    <3> HIDE DEF T
    <3>1. QED
      BY <2>1 DEF Min
  <2>3. lf = m
    BY <1>1, <1>4
  <2> HIDE DEF lf, m
  <2>4. m \in 1 .. Len(w) /\ w[m] = LF
    BY <2>2
  <2>5. ASSUME NEW i \in 1 .. m - 1 PROVE w[i] # LF
    <3>1. i \in 1 .. Len(w) /\ ~ (m <= i)
      BY <2>4
    <3>2. QED
      BY <2>2, <3>1
  <2>6. m \in 0 .. Len(w) /\ m # 0
    BY <2>4
  <2>7. /\ lf \in 0 .. Len(w)
        /\ lf # 0 => w[lf] = LF /\ \A i \in 1 .. lf - 1 : w[i] # LF
        /\ lf = 0 => \A i \in 1 .. Len(w) : w[i] # LF
    <3>1. /\ m \in 0 .. Len(w)
          /\ m # 0 => w[m] = LF /\ \A i \in 1 .. m - 1 : w[i] # LF
          /\ m = 0 => \A i \in 1 .. Len(w) : w[i] # LF
      BY <2>4, <2>5, <2>6
    <3> HIDE DEF T
    <3>2. QED
      BY <2>3, <3>1
  <2>8. QED
    BY <2>7 DEF lf
<1>5. QED
  BY <1>3, <1>4

-----------------------------------------------------------------------------
(* What the current receive and those it continues have taken, and what a  *)
(* pattern shows of it.                                                    *)
Given == SubSeq(stream, from + 1, got)
Patterns == {"*l", "*a", "n"}
Shown(pattern, taken) == IF pattern = "*l" THEN NoEnds(taken) ELSE taken

BytesOK ==
  /\ data \in Seq(Letters) /\ wire \in Seq(Letters) /\ stream \in Seq(Letters)
  /\ low \in Nat /\ low <= Len(data)
  /\ from \in Nat /\ got \in Nat /\ from <= got /\ got <= Len(stream)

(* The rest of the stream is in the buffer and, after it, in the kernel.   *)
FlowInv == Window \o wire = SubSeq(stream, got + 1, Len(stream))

(* A receive in progress: its part shows what was taken, a line has not    *)
(* been ended, and a count has not been passed.                            *)
PartInv ==
  /\ call.do # "idle" => reply.of = "none"
  /\ call.do = "receive" =>
       /\ call.pattern \in Patterns /\ call.n \in Nat
       /\ call.part = Shown(call.pattern, Given)
       /\ call.pattern = "*l" => \A i \in 1 .. Len(Given) : Given[i] # LF
       /\ call.pattern = "n" => Len(call.part) <= call.n

(* A receive that has returned; when it failed it can be resumed.          *)
ReplyInv ==
  reply.of = "receive" =>
    /\ reply.pattern \in Patterns
    /\ reply.part = Shown(reply.pattern, Given)
    /\ reply.err = "none" /\ reply.pattern = "n" => Len(reply.part) = reply.n
    /\ reply.err = "none" /\ reply.pattern = "*a" => ended # "up" \/ ~open
    /\ reply.err = "none" /\ reply.pattern = "*l" =>
         /\ Len(Given) > 0 /\ Given[Len(Given)] = LF
         /\ \A i \in 1 .. Len(Given) - 1 : Given[i] # LF
    /\ reply.err # "none" /\ reply.pattern = "*l" =>
         \A i \in 1 .. Len(Given) : Given[i] # LF

(* The kernel has the first letters of the string, once each; a send goes  *)
(* on after the last of them.                                              *)
SentInv ==
  /\ peerGot \in Seq(Nat) /\ Len(peerGot) <= MaxOut
  /\ \A i \in 1 .. Len(peerGot) : peerGot[i] = i
  /\ call.do = "send" => call.next = Len(peerGot) + 1
  /\ reply.of = "send" => reply.index = Len(peerGot)

StreamInv == BytesOK /\ FlowInv /\ PartInv /\ ReplyInv /\ SentInv

LEMMA Places ==
  ASSUME BytesOK
  PROVE  /\ Given \in Seq(Letters) /\ Len(Given) = got - from
         /\ Window \in Seq(Letters) /\ Len(Window) = Len(data) - low
         /\ Empty <=> Len(Window) = 0
         /\ Len(data) \in Nat /\ Len(stream) \in Nat /\ Len(wire) \in Nat
<1>1. Len(data) \in Nat /\ Len(stream) \in Nat /\ Len(wire) \in Nat
  BY DEF BytesOK
<1>2. Given \in Seq(Letters) /\ Len(Given) = got - from
  BY Piece DEF BytesOK, Given
<1>3. Window \in Seq(Letters) /\ Len(Window) = Len(data) - low
  BY <1>1, Piece DEF BytesOK, Window
<1>4. Empty <=> Len(Window) = 0
  BY <1>1, <1>3 DEF BytesOK, Empty
<1>5. QED
  BY <1>1, <1>2, <1>3, <1>4

LEMMA StreamStart == StreamInit => StreamInv
<1> SUFFICES ASSUME StreamInit PROVE StreamInv
  OBVIOUS
<1>1. << >> \in Seq(Letters) /\ << >> \in Seq(Nat) /\ Len(<< >>) = 0 /\ MaxOut \in Nat
  BY SizesAssumption DEF SizesAssumption
<1>2. BytesOK
  BY <1>1 DEF StreamInit, BytesOK
<1>3. FlowInv
  BY <1>1 DEF StreamInit, FlowInv, Window
<1>4. PartInv /\ ReplyInv /\ SentInv
  BY <1>1 DEF StreamInit, PartInv, ReplyInv, SentInv, NoCall, NoResult
<1>5. QED
  BY <1>2, <1>3, <1>4 DEF StreamInv

(* A step that moves no letter and leaves the call's place alone.          *)
LEMMA QuietKeeps ==
  ASSUME StreamInv, UNCHANGED <<data, low, wire, stream, from, got, peerGot, reply>>,
         call'.do = call.do, call'.pattern = call.pattern, call'.n = call.n,
         call'.part = call.part, call'.next = call.next,
         ended # "up" => ended' # "up", open' => open
  PROVE  StreamInv'
<1>1. BytesOK' /\ FlowInv'
  BY DEF StreamInv, BytesOK, FlowInv, Window
<1>2. Given' = Given
  BY DEF Given
<1>3. PartInv' /\ ReplyInv'
  BY <1>2 DEF StreamInv, PartInv, ReplyInv, Shown
<1>4. SentInv'
  BY DEF StreamInv, SentInv
<1>5. QED
  BY <1>1, <1>3, <1>4 DEF StreamInv

(* A call that returns without moving a letter.                            *)
LEMMA DoneKeeps ==
  ASSUME StreamInv, NEW res, Return(res),
         UNCHANGED <<data, low, wire, stream, from, got, peerGot>>,
         ReplyInv', res.of = "send" => res.index = Len(peerGot)
  PROVE  StreamInv'
<1>1. call' = NoCall /\ reply' = res
  BY DEF Return
<1>2. BytesOK' /\ FlowInv'
  BY DEF StreamInv, BytesOK, FlowInv, Window
<1>3. PartInv' /\ SentInv'
  BY <1>1 DEF StreamInv, PartInv, SentInv, NoCall
<1>4. QED
  BY <1>2, <1>3 DEF StreamInv

LEMMA FailKeeps ==
  ASSUME StreamInv, call.do = "receive", NEW err \in {"closed", "reset", "timeout"},
         Return(ReceiveError(err)),
         UNCHANGED <<data, low, wire, stream, from, got, peerGot>>,
         err = "closed" => ended' # "up" \/ ~open'
  PROVE  StreamInv'
<1>1. reply' = ReceiveError(err)
  BY DEF Return
<1>2. Given' = Given
  BY DEF Given
<1>3. /\ reply'.of = "receive" /\ reply'.pattern = call.pattern /\ reply'.part = call.part
      /\ \/ reply'.err = err
         \/ reply'.err = "none" /\ call.pattern = "*a" /\ err = "closed"
  BY <1>1 DEF ReceiveError, Received, NoResult
<1>4. ReplyInv'
  BY <1>2, <1>3 DEF StreamInv, PartInv, ReplyInv, Shown
<1>5. ReceiveError(err).of # "send"
  BY DEF ReceiveError, Received, NoResult
<1>6. QED
  BY <1>4, <1>5, DoneKeeps

LEMMA SentKeeps ==
  ASSUME StreamInv, call.do = "send", NEW err, Return(Sent(err)),
         UNCHANGED <<data, low, wire, stream, from, got, peerGot>>
  PROVE  StreamInv'
<1>1. Sent(err).of = "send" /\ Sent(err).index = call.next - 1
  BY DEF Sent, NoResult
<1>2. Sent(err).index = Len(peerGot)
  BY <1>1 DEF StreamInv, SentInv
<1>3. ReplyInv'
  BY <1>1 DEF Return, ReplyInv
<1>4. QED
  BY <1>2, <1>3, DoneKeeps

(* A call that begins, other than a receive.                               *)
LEMMA BeginsKeep ==
  ASSUME StreamInv, NEW c, Begin(c), c.do \in {"send", "select"},
         c.do = "send" => c.next = Len(peerGot) + 1,
         UNCHANGED <<data, low, wire, stream, from, got, peerGot>>
  PROVE  StreamInv'
<1>1. call' = c /\ reply' = NoResult
  BY DEF Begin
<1>2. BytesOK' /\ FlowInv'
  BY DEF StreamInv, BytesOK, FlowInv, Window
<1>3. PartInv' /\ ReplyInv' /\ SentInv'
  BY <1>1 DEF StreamInv, PartInv, ReplyInv, SentInv, NoResult
<1>4. QED
  BY <1>2, <1>3 DEF StreamInv

LEMMA NoEndsNone == NoEnds(<< >>) = << >>
<1>1. << >> \in Seq(Letters) /\ Len(<< >>) = 0 /\ 0 \in Nat
  OBVIOUS
<1>2. PICK f : KeptTo(<< >>, Len(<< >>), f) /\ NoEnds(<< >>) = f[Len(<< >>)]
  BY <1>1, NoEndsIs
<1>3. f[0] = << >>
  BY <1>1, <1>2, KeptAt
<1>4. QED
  BY <1>1, <1>2, <1>3

(* A receive begins where the last one that it continues has stopped.      *)
LEMMA ReceiveKeeps ==
  ASSUME StreamInv, NEW pattern \in Patterns, NEW n \in Nat,
         NEW prefix \in Resumes(pattern, n), Receive(pattern, n, prefix)
  PROVE  StreamInv'
<1>1. /\ call'.do = "receive" /\ call'.pattern = pattern /\ call'.n = n /\ call'.part = prefix
      /\ reply' = NoResult
      /\ IF prefix = << >> THEN from' = got ELSE from' = from
      /\ UNCHANGED <<data, low, wire, stream, got, peerGot>>
  BY DEF Receive, Begin, NoCall, bufVars, netVars
<1>2. BytesOK'
  BY <1>1 DEF StreamInv, BytesOK
<1>3. FlowInv'
  BY <1>1 DEF StreamInv, FlowInv, Window
<1>4. SentInv' /\ ReplyInv'
  BY <1>1 DEF StreamInv, SentInv, ReplyInv, NoResult
<1>5. PartInv'
  <2>1. CASE prefix = << >>
    <3>1. from' = got' /\ got' \in Nat /\ from' \in Nat
      BY <1>1, <2>1 DEF StreamInv, BytesOK
    <3>2. Len(Given') = got' - from' /\ Given' \in Seq(Letters)
      BY <1>2, Piece DEF BytesOK, Given
    <3>3. Given' = << >>
      BY <3>1, <3>2, EmptySeq
    <3>4. Shown(pattern, Given') = << >>
      BY <3>3, NoEndsNone DEF Shown
    <3>5. Len(prefix) <= n
      BY <2>1
    <3>6. \A i \in 1 .. Len(Given') : Given'[i] # LF
      BY <3>3
    <3>7. QED
      BY <1>1, <2>1, <3>4, <3>5, <3>6 DEF PartInv, NoResult
  <2>2. CASE prefix # << >>
    <3>1. /\ reply.of = "receive" /\ reply.err # "none" /\ reply.pattern = pattern
          /\ pattern = "n" => n >= Len(reply.part)
          /\ prefix = reply.part
      BY <2>2 DEF Resumes
    <3>2. from' = from /\ got' = got /\ Given' = Given
      BY <1>1, <2>2 DEF Given
    <3>3. /\ prefix = Shown(pattern, Given)
          /\ pattern = "*l" => \A i \in 1 .. Len(Given) : Given[i] # LF
      BY <3>1 DEF StreamInv, ReplyInv
    <3>4. pattern = "n" => Len(prefix) <= n
      <4>1. Len(Given) \in Nat
        BY Places DEF StreamInv
      <4>2. pattern = "n" => prefix = Given
        BY <3>3 DEF Shown
      <4>3. QED
        BY <3>1, <4>1, <4>2
    <3>5. QED
      BY <1>1, <3>2, <3>3, <3>4 DEF PartInv, NoResult
  <2>3. QED
    BY <2>1, <2>2
<1>6. QED
  BY <1>2, <1>3, <1>4, <1>5 DEF StreamInv

(* The program takes letters out of the buffer.                            *)
LEMMA TakeKeeps ==
  ASSUME BytesOK, FlowInv, NEW count \in 0 .. Len(Window), Skip(count),
         UNCHANGED <<wire, stream, from>>
  PROVE  /\ BytesOK' /\ FlowInv'
         /\ got' = got + count
         /\ SubSeq(Window, 1, count) \in Seq(Letters)
         /\ Len(SubSeq(Window, 1, count)) = count
         /\ \A i \in 1 .. count : SubSeq(Window, 1, count)[i] = Window[i]
         /\ Given' = Given \o SubSeq(Window, 1, count)
<1> SUFFICES ASSUME NEW w, w = Window
    PROVE  /\ BytesOK' /\ FlowInv'
           /\ got' = got + count
           /\ SubSeq(w, 1, count) \in Seq(Letters)
           /\ Len(SubSeq(w, 1, count)) = count
           /\ \A i \in 1 .. count : SubSeq(w, 1, count)[i] = w[i]
           /\ Given' = Given \o SubSeq(w, 1, count)
  OBVIOUS
<1> DEFINE N == Len(stream)
           d == got + count
<1>1. /\ w \in Seq(Letters) /\ Len(w) = Len(data) - low /\ Len(wire) \in Nat
      /\ Len(data) \in Nat /\ N \in Nat /\ wire \in Seq(Letters) /\ stream \in Seq(Letters)
      /\ low \in Nat /\ low <= Len(data) /\ data \in Seq(Letters)
      /\ from \in Nat /\ got \in Nat /\ from <= got /\ got <= N
      /\ count \in Nat /\ count <= Len(w)
  BY Places DEF BytesOK
<1>2. w \o wire = SubSeq(stream, got + 1, N)
  BY DEF FlowInv
<1>3. got' = d /\ UNCHANGED <<wire, stream, from>>
  BY DEF Skip
<1>4. Len(SubSeq(stream, got + 1, N)) = N - got
  BY <1>1, Piece
<1>5. Len(w \o wire) = Len(w) + Len(wire)
  BY <1>1, ConcatProperties
<1>6. N - got = Len(w) + Len(wire)
  BY <1>2, <1>4, <1>5
<1>7. d \in Nat /\ d <= N /\ got <= d /\ from <= d
  BY <1>1, <1>6
<1>8. /\ SubSeq(w \o wire, 1, count) = SubSeq(w, 1, count)
      /\ SubSeq(w \o wire, count + 1, N - got) = SubSeq(w, count + 1, Len(w)) \o wire
  <2>1. count \in 0 .. Len(w)
    BY <1>1
  <2>2. SubSeq(w \o wire, count + 1, Len(w) + Len(wire)) = SubSeq(w, count + 1, Len(w)) \o wire
        /\ SubSeq(w \o wire, 1, count) = SubSeq(w, 1, count)
    BY <1>1, <2>1, Cut
  <2>3. QED
    BY <1>6, <2>2
<1>9. SubSeq(w, 1, count) = SubSeq(stream, got + 1, d)
  <2>1. SubSeq(SubSeq(stream, got + 1, N), 0 + 1, count) = SubSeq(stream, got + 0 + 1, got + count)
    <3>1. 0 \in Nat /\ 0 <= count /\ count <= N - got
      BY <1>1, <1>6
    <3>2. QED
      BY <1>1, <3>1, PieceOfPiece
  <2>2. 0 + 1 = 1 /\ got + 0 + 1 = got + 1
    BY <1>1
  <2>3. QED
    BY <1>2, <1>8, <2>1, <2>2
<1>10. SubSeq(w, count + 1, Len(w)) \o wire = SubSeq(stream, d + 1, N)
  <2>1. SubSeq(SubSeq(stream, got + 1, N), count + 1, N - got)
        = SubSeq(stream, got + count + 1, got + (N - got))
    <3>1. N - got \in Nat /\ count <= N - got /\ N - got <= N - got /\ N <= Len(stream)
      BY <1>1, <1>6
    <3>2. QED
      BY <1>1, <3>1, PieceOfPiece
  <2>2. got + (N - got) = N
    BY <1>1
  <2>3. QED
    BY <1>2, <1>8, <2>1, <2>2
<1>11. BytesOK' /\ Window' = SubSeq(w, count + 1, Len(w))
  <2>1. CASE low + count >= Len(data)
    <3>1. data' = << >> /\ low' = 0
      BY <2>1 DEF Skip
    <3>2. count = Len(w)
      <4>1. \A a, b, c \in Nat : b + c >= a /\ c <= a - b => c = a - b
        OBVIOUS
      <4>2. low + count >= Len(data) /\ count <= Len(data) - low
        BY <1>1, <2>1
      <4>3. QED
        BY <1>1, <4>1, <4>2
    <3>3. SubSeq(w, count + 1, Len(w)) \in Seq(Letters) /\ Len(SubSeq(w, count + 1, Len(w))) = 0
      <4>1. Len(w) \in Nat /\ count <= Len(w) /\ Len(w) <= Len(w) /\ Len(w) - count = 0
        BY <1>1, <3>2
      <4>2. QED
        BY <1>1, <4>1, Piece
    <3>4. SubSeq(w, count + 1, Len(w)) = << >>
      BY <3>3, EmptySeq
    <3>5. << >> \in Seq(Letters) /\ Len(<< >>) = 0
      OBVIOUS
    <3>6. Window' = << >>
      BY <3>1, <3>5 DEF Window
    <3>7. BytesOK'
      BY <1>1, <1>3, <1>7, <3>1, <3>5 DEF BytesOK
    <3>8. QED
      BY <3>4, <3>6, <3>7
  <2>2. CASE ~(low + count >= Len(data))
    <3>1. data' = data /\ low' = low + count
      BY <2>2 DEF Skip
    <3>2. low + count \in Nat /\ low + count <= Len(data)
      BY <1>1, <2>2
    <3>3. SubSeq(SubSeq(data, low + 1, Len(data)), count + 1, Len(data) - low)
          = SubSeq(data, low + count + 1, low + (Len(data) - low))
      <4>1. Len(data) - low \in Nat /\ count <= Len(data) - low
            /\ Len(data) - low <= Len(data) - low /\ Len(data) <= Len(data)
        BY <1>1
      <4>2. QED
        BY <1>1, <4>1, PieceOfPiece
    <3>4. low + (Len(data) - low) = Len(data)
      BY <1>1
    <3>5. Window' = SubSeq(w, count + 1, Len(w))
      BY <1>1, <3>1, <3>3, <3>4 DEF Window
    <3>6. BytesOK'
      BY <1>1, <1>3, <1>7, <3>1, <3>2 DEF BytesOK
    <3>7. QED
      BY <3>5, <3>6
  <2>3. QED
    BY <2>1, <2>2
<1>12. FlowInv'
  BY <1>3, <1>10, <1>11 DEF FlowInv
<1>13. Given' = Given \o SubSeq(stream, got + 1, d)
  <2> DEFINE m == from + 1
  <2>1. m \in 1 .. Len(stream) + 1 /\ got \in m - 1 .. Len(stream) /\ d \in got .. Len(stream)
    BY <1>1, <1>7
  <2> HIDE DEF m, d
  <2>2. SubSeq(stream, m, got) \o SubSeq(stream, got + 1, d) = SubSeq(stream, m, d)
    BY <1>1, <2>1, ConcatAdjacentSubSeq
  <2>3. QED
    BY <1>3, <2>2 DEF Given, m
<1>14. LET p == SubSeq(w, 0 + 1, count) IN
       p \in Seq(Letters) /\ Len(p) = count - 0 /\ \A i \in 1 .. count - 0 : p[i] = w[0 + i]
  BY <1>1, Piece
<1>15. \A i \in 1 .. count : 0 + i = i
  OBVIOUS
<1>16. 0 + 1 = 1 /\ count - 0 = count
  BY <1>1
<1>17. SubSeq(w, 1, count) \in Seq(Letters) /\ Len(SubSeq(w, 1, count)) = count
       /\ \A i \in 1 .. count : SubSeq(w, 1, count)[i] = w[i]
  BY <1>14, <1>15, <1>16
<1>18. QED
  BY <1>3, <1>9, <1>11, <1>12, <1>13, <1>17

(* The buffer, found empty, takes what the kernel has.                     *)
LEMMA FillKeeps ==
  ASSUME StreamInv, Fill
  PROVE  StreamInv'
<1> DEFINE k == Smaller(BUF_SIZE, Len(wire))
           p == SubSeq(wire, 1, k)
           r == SubSeq(wire, k + 1, Len(wire))
<1>1. /\ Empty /\ wire # << >> /\ data' = p /\ low' = 0 /\ wire' = r
      /\ UNCHANGED <<got, ended, stream, open, call, from, peerGot, reply>>
  BY DEF Fill
<1>2. Len(wire) \in Nat /\ wire \in Seq(Letters) /\ k \in 0 .. Len(wire) /\ k \in Nat /\ k <= Len(wire)
  BY Places, SizesAssumption DEF StreamInv, BytesOK, SizesAssumption, Smaller
<1> HIDE DEF k
<1>3. p \in Seq(Letters) /\ Len(p) = k
  <2>1. 0 + 1 = 1 /\ k - 0 = k /\ 0 \in Nat /\ 0 <= k
    BY <1>2
  <2>2. SubSeq(wire, 0 + 1, k) \in Seq(Letters) /\ Len(SubSeq(wire, 0 + 1, k)) = k - 0
    BY <1>2, <2>1, Piece
  <2>3. QED
    BY <2>1, <2>2
<1>4. r \in Seq(Letters)
  BY <1>2, Piece
<1>5. p \o r = wire
  <2>1. 1 \in 1 .. Len(wire) + 1 /\ k \in 1 - 1 .. Len(wire) /\ Len(wire) \in k .. Len(wire)
    BY <1>2
  <2>2. SubSeq(wire, 1, k) \o SubSeq(wire, k + 1, Len(wire)) = SubSeq(wire, 1, Len(wire))
    BY <1>2, <2>1, ConcatAdjacentSubSeq
  <2>3. SubSeq(wire, 1, Len(wire)) = wire
    BY <1>2, SubSeqFull
  <2>4. QED
    BY <2>2, <2>3
<1> HIDE DEF p, r
<1>6. Window = << >>
  <2>1. Window \in Seq(Letters) /\ Len(Window) = 0
    BY <1>1, Places DEF StreamInv
  <2>2. QED
    BY <2>1, EmptySeq
<1>7. Window' = p
  <2>1. Window' = SubSeq(p, 1, Len(p))
    BY <1>1 DEF Window
  <2>2. QED
    BY <1>3, <2>1, SubSeqFull
<1>8. FlowInv'
  <2>1. << >> \o wire = wire
    BY <1>2, ConcatEmptySeq
  <2>2. wire = SubSeq(stream, got + 1, Len(stream))
    BY <1>6, <2>1 DEF StreamInv, FlowInv
  <2>3. QED
    BY <1>1, <1>5, <1>7, <2>2 DEF FlowInv
<1>9. BytesOK'
  BY <1>1, <1>2, <1>3, <1>4 DEF StreamInv, BytesOK
<1>10. Given' = Given
  BY <1>1 DEF Given
<1>11. PartInv' /\ ReplyInv' /\ SentInv'
  BY <1>1, <1>10 DEF StreamInv, PartInv, ReplyInv, SentInv, Shown
<1>12. QED
  BY <1>8, <1>9, <1>11 DEF StreamInv

(* What a receive shows after it has consumed letters; a receive that goes *)
(* on, and one that is done.                                               *)
LEMMA ShownGrows ==
  ASSUME NEW pattern \in Patterns, NEW a \in Seq(Letters), NEW b \in Seq(Letters)
  PROVE  Shown(pattern, a) \o (IF pattern = "*l" THEN NoEnds(b) ELSE b) = Shown(pattern, a \o b)
<1>1. CASE pattern = "*l"
  BY <1>1, NoEndsConcat DEF Shown
<1>2. CASE pattern # "*l"
  BY <1>2 DEF Shown
<1>3. QED
  BY <1>1, <1>2

(* The letters of a concatenation of which a line's end can only be last.  *)
LEMMA LineGrows ==
  ASSUME NEW a \in Seq(Letters), NEW b \in Seq(Letters), NEW ends \in BOOLEAN,
         \A i \in 1 .. Len(a) : a[i] # LF,
         \A i \in 1 .. Len(b) - 1 : b[i] # LF,
         ends => Len(b) > 0 /\ b[Len(b)] = LF,
         ~ends => Len(b) = 0 \/ b[Len(b)] # LF
  PROVE  /\ Len(a \o b) = Len(a) + Len(b)
         /\ \A i \in 1 .. Len(a) + Len(b) - 1 : (a \o b)[i] # LF
         /\ ends => Len(a) + Len(b) > 0 /\ (a \o b)[Len(a) + Len(b)] = LF
         /\ ~ends => \A i \in 1 .. Len(a) + Len(b) : (a \o b)[i] # LF
<1> DEFINE c == a \o b
<1>1. Len(a) \in Nat /\ Len(b) \in Nat
  OBVIOUS
<1>2. /\ Len(c) = Len(a) + Len(b)
      /\ \A i \in 1 .. Len(a) + Len(b) : c[i] = IF i <= Len(a) THEN a[i] ELSE b[i - Len(a)]
  BY ConcatProperties
<1> HIDE DEF c
<1>3. ASSUME NEW i \in 1 .. Len(a) + Len(b) - 1 PROVE c[i] # LF
  <2>1. i \in 1 .. Len(a) + Len(b)
    BY <1>1
  <2>2. CASE i <= Len(a)
    <3>1. i \in 1 .. Len(a)
      BY <1>1, <2>2
    <3>2. QED
      BY <1>2, <2>1, <2>2, <3>1
  <2>3. CASE ~(i <= Len(a))
    <3>1. i - Len(a) \in 1 .. Len(b) - 1
      BY <1>1, <2>3
    <3>2. QED
      BY <1>2, <2>1, <2>3, <3>1
  <2>4. QED
    BY <2>2, <2>3
<1>4. CASE Len(b) = 0
  <2>1. ~ends
    BY <1>4
  <2>2. ASSUME NEW i \in 1 .. Len(a) + Len(b) PROVE c[i] # LF
    <3>1. i \in 1 .. Len(a) /\ i <= Len(a)
      BY <1>1, <1>4
    <3>2. QED
      BY <1>2, <3>1
  <2>3. QED
    BY <1>2, <1>3, <2>1, <2>2 DEF c
<1>5. CASE Len(b) # 0
  <2> DEFINE m == Len(a) + Len(b)
  <2>1. m \in 1 .. Len(a) + Len(b) /\ ~(m <= Len(a)) /\ m - Len(a) = Len(b) /\ m > 0
    BY <1>1, <1>5
  <2>2. c[m] = b[Len(b)]
    BY <1>2, <2>1
  <2>3. ASSUME ~ends, NEW i \in 1 .. Len(a) + Len(b) PROVE c[i] # LF
    <3>1. CASE i = Len(a) + Len(b)
      BY <1>5, <2>2, <2>3, <3>1
    <3>2. CASE i # Len(a) + Len(b)
      <4>1. i \in 1 .. Len(a) + Len(b) - 1
        BY <1>1, <3>2
      <4>2. QED
        BY <1>3, <4>1
    <3>3. QED
      BY <3>1, <3>2
  <2>4. ends => Len(a) + Len(b) > 0 /\ c[Len(a) + Len(b)] = LF
    BY <2>1, <2>2
  <2>5. QED
    BY <1>2, <1>3, <2>3, <2>4 DEF c
<1>6. QED
  BY <1>4, <1>5

LEMMA PieceKeeps ==
  ASSUME StreamInv, CallOK, call.do = "receive", NEW count \in 0 .. Len(Window), Skip(count),
         NEW taken, taken = SubSeq(Window, 1, count),
         NEW part, part = call.part \o IF call.pattern = "*l" THEN NoEnds(taken) ELSE taken,
         NEW done \in BOOLEAN,
         done => Return(Received("none", part)),
         ~done => /\ call' = [call EXCEPT !.part = part, !.total = @ + count]
                  /\ reply' = reply,
         UNCHANGED <<wire, stream, from, peerGot>>,
         call.pattern = "n" => /\ count <= call.n - Len(call.part)
                               /\ done => count = call.n - Len(call.part),
         call.pattern = "*a" => ~done,
         call.pattern = "*l" =>
           /\ \A i \in 1 .. count - 1 : Window[i] # LF
           /\ done => count > 0 /\ Window[count] = LF
           /\ ~done => count = 0 \/ Window[count] # LF
  PROVE  StreamInv'
<1>1. /\ BytesOK /\ FlowInv /\ PartInv /\ ReplyInv /\ SentInv
  BY DEF StreamInv
<1>2. /\ BytesOK' /\ FlowInv' /\ got' = got + count
      /\ taken \in Seq(Letters) /\ Len(taken) = count
      /\ \A i \in 1 .. count : taken[i] = Window[i]
      /\ Given' = Given \o taken
  BY <1>1, TakeKeeps
<1>3. PICK g : g = Given
  OBVIOUS
<1>4. g \in Seq(Letters) /\ Len(g) = got - from /\ Len(g) \in Nat /\ count \in Nat
      /\ got \in Nat /\ from \in Nat /\ from' = from
  <2>1. Given \in Seq(Letters) /\ Len(Given) = got - from /\ Len(Window) \in Nat
    BY <1>1, Places
  <2>2. QED
    BY <1>1, <1>3, <2>1 DEF BytesOK
<1>5. Given' = g \o taken /\ Len(g \o taken) = Len(g) + count
  BY <1>2, <1>3, <1>4, ConcatProperties
<1>6. /\ call.pattern \in Patterns /\ call.n \in Nat /\ call.part = Shown(call.pattern, g)
      /\ call.pattern = "*l" => \A i \in 1 .. Len(g) : g[i] # LF
      /\ call.pattern = "n" => Len(call.part) <= call.n
      /\ reply.of = "none"
  BY <1>1, <1>3, <1>4 DEF PartInv
<1>7. part = Shown(call.pattern, Given')
  <2>1. Shown(call.pattern, g) \o (IF call.pattern = "*l" THEN NoEnds(taken) ELSE taken)
        = Shown(call.pattern, g \o taken)
    <3>1. PICK p : p = call.pattern
      OBVIOUS
    <3>2. p \in Patterns /\ g \in Seq(Letters) /\ taken \in Seq(Letters)
      BY <1>2, <1>4, <1>6, <3>1
    <3>3. Shown(p, g) \o (IF p = "*l" THEN NoEnds(taken) ELSE taken) = Shown(p, g \o taken)
      BY <3>2, ShownGrows
    <3>4. QED
      BY <3>1, <3>3
  <2>2. QED
    BY <1>5, <1>6, <2>1
<1>8. call.pattern = "n" => /\ Len(part) <= call.n
                            /\ done => Len(part) = call.n
  <2> SUFFICES ASSUME call.pattern = "n"
      PROVE  /\ Len(part) <= call.n
             /\ done => Len(part) = call.n
    OBVIOUS
  <2>1. call.part = g /\ part = g \o taken
    BY <1>6 DEF Shown
  <2>2. Len(part) = Len(g) + count
    BY <1>5, <2>1
  <2>3. \A a, b, c \in Nat : (c <= b - a => a + c <= b) /\ (c = b - a => a + c = b)
    OBVIOUS
  <2>4. /\ count <= call.n - Len(g)
        /\ done => count = call.n - Len(g)
    BY <2>1
  <2>5. QED
    BY <1>4, <1>6, <2>2, <2>3, <2>4
<1>9. call.pattern = "*l" =>
         /\ \A i \in 1 .. Len(g) + count - 1 : (g \o taken)[i] # LF
         /\ done => Len(g) + count > 0 /\ (g \o taken)[Len(g) + count] = LF
         /\ ~done => \A i \in 1 .. Len(g) + count : (g \o taken)[i] # LF
  <2> SUFFICES ASSUME call.pattern = "*l"
      PROVE  /\ \A i \in 1 .. Len(g) + count - 1 : (g \o taken)[i] # LF
             /\ done => Len(g) + count > 0 /\ (g \o taken)[Len(g) + count] = LF
             /\ ~done => \A i \in 1 .. Len(g) + count : (g \o taken)[i] # LF
    OBVIOUS
  <2>1. \A i \in 1 .. Len(taken) - 1 : taken[i] # LF
    <3>1. \A i \in 1 .. count - 1 : i \in 1 .. count
      BY <1>4
    <3>2. QED
      BY <1>2, <3>1
  <2>2. /\ done => Len(taken) > 0 /\ taken[Len(taken)] = LF
        /\ ~done => Len(taken) = 0 \/ taken[Len(taken)] # LF
    <3>1. count > 0 => count \in 1 .. count
      BY <1>4
    <3>2. count = 0 \/ count > 0
      BY <1>4
    <3>3. QED
      BY <1>2, <3>1, <3>2
  <2>3. \A i \in 1 .. Len(g) : g[i] # LF
    BY <1>6
  <2>4. /\ \A i \in 1 .. Len(g) + Len(taken) - 1 : (g \o taken)[i] # LF
        /\ done => Len(g) + Len(taken) > 0 /\ (g \o taken)[Len(g) + Len(taken)] = LF
        /\ ~done => \A i \in 1 .. Len(g) + Len(taken) : (g \o taken)[i] # LF
    BY <1>2, <1>4, <2>1, <2>2, <2>3, LineGrows
  <2>5. QED
    BY <1>2, <2>4
<1>10. CASE done
  <2>1. call' = NoCall /\ reply' = Received("none", part)
    BY <1>10 DEF Return
  <2>2. /\ reply'.of = "receive" /\ reply'.pattern = call.pattern /\ reply'.n = call.n
        /\ reply'.err = "none" /\ reply'.part = part
    BY <2>1 DEF Received, NoResult
  <2>3. call.pattern = "*l" =>
          /\ Len(Given') > 0 /\ Given'[Len(Given')] = LF
          /\ \A i \in 1 .. Len(Given') - 1 : Given'[i] # LF
    <3>1. PICK h : h = g \o taken
      OBVIOUS
    <3>2. Len(h) = Len(g) + count /\ Given' = h
      BY <1>5, <3>1
    <3>3. call.pattern = "*l" =>
            /\ Len(h) > 0 /\ h[Len(h)] = LF
            /\ \A i \in 1 .. Len(h) - 1 : h[i] # LF
      <4>1. call.pattern = "*l" =>
              /\ Len(g) + count > 0 /\ h[Len(g) + count] = LF
              /\ \A i \in 1 .. Len(g) + count - 1 : h[i] # LF
        BY <1>9, <1>10, <3>1
      <4>2. QED
        BY <3>2, <4>1
    <3>4. QED
      BY <3>2, <3>3
  <2>4. ReplyInv'
    <3>1. /\ reply'.pattern \in Patterns
          /\ reply'.part = Shown(reply'.pattern, Given')
      BY <1>6, <1>7, <2>2
    <3>2. reply'.pattern = "n" => Len(reply'.part) = reply'.n
      BY <1>8, <1>10, <2>2
    <3>3. reply'.pattern # "*a"
      BY <1>10, <2>2
    <3>4. QED
      BY <2>2, <2>3, <3>1, <3>2, <3>3 DEF ReplyInv
  <2>5. PartInv' /\ SentInv'
    BY <1>1, <2>1, <2>2 DEF PartInv, SentInv, NoCall
  <2>6. QED
    BY <1>2, <2>4, <2>5 DEF StreamInv
<1>11. CASE ~done
  <2>1. /\ call'.do = "receive" /\ call'.pattern = call.pattern /\ call'.n = call.n
        /\ call'.part = part /\ reply' = reply
    BY <1>11 DEF CallOK
  <2>2. PartInv'
    BY <1>5, <1>6, <1>7, <1>8, <1>9, <1>11, <2>1 DEF PartInv
  <2>3. ReplyInv' /\ SentInv'
    BY <1>1, <1>6, <2>1 DEF ReplyInv, SentInv
  <2>4. QED
    BY <1>2, <2>2, <2>3 DEF StreamInv
<1>12. QED
  BY <1>10, <1>11

(* recvraw, recvall and recvline on a piece of the buffer.                 *)
LEMMA ConsumeKeeps ==
  ASSUME StreamInv, CallOK, Consume
  PROVE  StreamInv'
<1> DEFINE lf == SelectInSeq(Window, LAMBDA x : x = LF)
           count == CASE call.pattern = "n" -> Smaller(Len(Window), Wanted)
                      [] call.pattern = "*a" -> Len(Window)
                      [] call.pattern = "*l" -> IF lf = 0 THEN Len(Window) ELSE lf
           taken == SubSeq(Window, 1, count)
           part == call.part \o IF call.pattern = "*l" THEN NoEnds(taken) ELSE taken
           done == CASE call.pattern = "n" -> count = Wanted
                     [] call.pattern = "*a" -> FALSE
                     [] call.pattern = "*l" -> lf # 0
<1>1. /\ call.do = "receive" /\ ~Empty
      /\ Skip(count)
      /\ done => Return(Received("none", part))
      /\ ~done => call' = [call EXCEPT !.part = part, !.total = @ + count] /\ reply' = reply
      /\ UNCHANGED <<wire, stream, from, peerGot>>
  BY DEF Consume, Receiving, netVars
<1>2. /\ Window \in Seq(Letters) /\ Len(Window) \in Nat /\ Len(Window) # 0
  BY <1>1, Places DEF StreamInv
<1>3. /\ lf \in 0 .. Len(Window)
      /\ lf # 0 => Window[lf] = LF /\ \A i \in 1 .. lf - 1 : Window[i] # LF
      /\ lf = 0 => \A i \in 1 .. Len(Window) : Window[i] # LF
  BY <1>2, FirstLF
<1>4. call.pattern \in Patterns /\ call.n \in Nat
      /\ (call.pattern = "n" => Len(call.part) \in Nat /\ Len(call.part) <= call.n)
  <2>1. Given \in Seq(Letters)
    BY Places DEF StreamInv
  <2>2. call.pattern = "n" => call.part = Given
    BY <1>1 DEF StreamInv, PartInv, Shown
  <2>3. QED
    BY <1>1, <2>1, <2>2 DEF StreamInv, PartInv
<1> HIDE DEF lf
<1>5. /\ count \in 0 .. Len(Window) /\ done \in BOOLEAN
      /\ call.pattern = "n" => /\ count <= call.n - Len(call.part)
                               /\ done => count = call.n - Len(call.part)
      /\ call.pattern = "*a" => ~done
      /\ call.pattern = "*l" =>
           /\ \A i \in 1 .. count - 1 : Window[i] # LF
           /\ done => count > 0 /\ Window[count] = LF
           /\ ~done => count = 0 \/ Window[count] # LF
  <2>1. CASE call.pattern = "n"
    <3>1. count = Smaller(Len(Window), Wanted) /\ done = (count = Wanted)
      BY <2>1
    <3>2. Wanted \in Nat /\ Wanted = call.n - Len(call.part)
      BY <1>4, <2>1 DEF Wanted
    <3>3. Smaller(Len(Window), Wanted) \in 0 .. Len(Window)
          /\ Smaller(Len(Window), Wanted) <= Wanted
      BY <1>2, <3>2 DEF Smaller
    <3> HIDE DEF count, done
    <3>4. QED
      BY <2>1, <3>1, <3>2, <3>3
  <2>2. CASE call.pattern = "*a"
    <3>1. count = Len(Window) /\ ~done /\ done \in BOOLEAN
      BY <2>2
    <3> HIDE DEF count, done
    <3>2. count \in 0 .. Len(Window)
      BY <1>2, <3>1
    <3>3. call.pattern # "n" /\ call.pattern # "*l"
      BY <2>2
    <3>4. QED
      BY <3>1, <3>2, <3>3
  <2>3. CASE call.pattern = "*l"
    <3>1. count = (IF lf = 0 THEN Len(Window) ELSE lf) /\ done = (lf # 0)
      BY <2>3
    <3> HIDE DEF count, done
    <3>2. CASE lf = 0
      <4>1. count = Len(Window) /\ ~done
        BY <3>1, <3>2
      <4>2. \A i \in 1 .. Len(Window) : Window[i] # LF
        BY <1>3, <3>2
      <4>3. Len(Window) \in 1 .. Len(Window) /\ \A i \in 1 .. Len(Window) - 1 : i \in 1 .. Len(Window)
        BY <1>2
      <4>4. QED
        BY <1>2, <2>3, <3>1, <3>2, <4>1, <4>2, <4>3
    <3>3. CASE lf # 0
      <4>1. count = lf /\ done
        BY <3>1, <3>3
      <4>2. lf > 0
        BY <1>2, <1>3, <3>3
      <4>3. QED
        BY <1>3, <2>3, <3>1, <3>3, <4>1, <4>2
    <3>4. QED
      BY <3>2, <3>3
  <2>4. QED
    BY <1>4, <2>1, <2>2, <2>3 DEF Patterns
<1> HIDE DEF count, done
<1>6. QED
  BY <1>1, <1>5, PieceKeeps

(* The peer's letter joins the stream and what the kernel holds.           *)
LEMMA PeerSendsKeeps ==
  ASSUME StreamInv, NEW letter \in Letters, PeerSends(letter)
  PROVE  StreamInv'
<1> DEFINE N == Len(stream)
           t == Append(stream, letter)
<1>1. /\ stream' = t /\ wire' = Append(wire, letter)
      /\ UNCHANGED <<data, low, got, ended, open, call, from, peerGot, reply>>
  BY DEF PeerSends, bufVars
<1>2. /\ wire \in Seq(Letters) /\ stream \in Seq(Letters) /\ Window \in Seq(Letters)
      /\ N \in Nat /\ got \in Nat /\ from \in Nat /\ from <= got /\ got <= N
      /\ Window \o wire = SubSeq(stream, got + 1, N)
  BY Places DEF StreamInv, BytesOK, FlowInv
<1>3. t \in Seq(Letters) /\ Len(t) = N + 1 /\ t[N + 1] = letter
  BY <1>2
<1> HIDE DEF t
<1>4. SubSeq(t, got + 1, N) = SubSeq(stream, got + 1, N)
      /\ SubSeq(t, from + 1, got) = SubSeq(stream, from + 1, got)
  <2>1. N <= N
    BY <1>2
  <2>2. QED
    BY <1>2, <2>1, Grown DEF t
<1>5. BytesOK'
  <2>1. Append(wire, letter) \in Seq(Letters) /\ got <= Len(t)
    BY <1>2, <1>3
  <2>2. QED
    BY <1>1, <1>3, <2>1 DEF StreamInv, BytesOK
<1>6. Window \o Append(wire, letter) = SubSeq(t, got + 1, N + 1)
  <2>1. SubSeq(t, got + 1, N + 1) = SubSeq(t, got + 1, N) \o <<letter>>
    <3> DEFINE m == got + 1
               e == N + 1
    <3>1. m \in 1 .. Len(t) /\ e \in m .. Len(t) /\ e - 1 = N
      BY <1>2, <1>3
    <3> HIDE DEF m, e
    <3>2. SubSeq(t, m, e) = SubSeq(t, m, e - 1) \o <<t[e]>>
      BY <1>3, <3>1, SubSeqRecursiveSecond
    <3>3. QED
      BY <1>3, <3>1, <3>2 DEF m, e
  <2>2. Append(Window \o wire, letter) = Window \o Append(wire, letter)
    BY <1>2, AppendConcat
  <2>3. Append(Window \o wire, letter) = (Window \o wire) \o <<letter>>
    <3>1. Window \o wire \in Seq(Letters)
      BY <1>2, ConcatProperties
    <3>2. QED
      BY <3>1, AppendIsConcat
  <2>4. QED
    BY <1>2, <1>4, <2>1, <2>2, <2>3
<1>7. FlowInv'
  <2>1. Window' = Window
    BY <1>1 DEF Window
  <2>2. QED
    BY <1>1, <1>3, <1>6, <2>1 DEF FlowInv
<1>8. Given' = Given
  BY <1>1, <1>4 DEF Given
<1>9. PartInv' /\ ReplyInv' /\ SentInv'
  BY <1>1, <1>8 DEF StreamInv, PartInv, ReplyInv, SentInv, Shown
<1>10. QED
  BY <1>5, <1>7, <1>9 DEF StreamInv

(* The kernel's room is a number of letters.                               *)
RoomOK == room \in Nat

LEMMA RoomStep ==
  ASSUME RoomOK, StreamInv, [StreamNext]_streamVars
  PROVE  RoomOK'
<1> USE DEF bufVars, netVars, RoomOK
<1>1. CASE UNCHANGED room
  BY <1>1
<1>2. CASE SendSome
  <2>1. PICK k \in 1 .. Smaller(room, Smaller(STEPSIZE, MaxOut - call.next + 1)) :
          room' = room - k
    BY <1>2 DEF SendSome
  <2>2. PICK x \in Int : x = Smaller(STEPSIZE, MaxOut - call.next + 1)
    <3>1. call.next = Len(peerGot) + 1 /\ Len(peerGot) \in Nat
      BY <1>2 DEF StreamInv, SentInv, SendSome
    <3>2. MaxOut \in Nat /\ STEPSIZE \in Nat
      BY SizesAssumption DEF SizesAssumption
    <3>3. Smaller(STEPSIZE, MaxOut - call.next + 1) \in Int
      BY <3>1, <3>2 DEF Smaller
    <3>4. QED
      BY <3>3
  <2>3. k \in Int /\ k <= Smaller(room, x)
    BY <2>1, <2>2
  <2>4. Smaller(room, x) \in Int /\ Smaller(room, x) <= room
    BY DEF Smaller
  <2>5. room - k \in Nat
    BY <2>3, <2>4
  <2>6. QED
    BY <2>1, <2>5
<1>3. CASE PeerTakes
  BY <1>3 DEF PeerTakes
<1>4. QED
  BY <1>1, <1>2, <1>3
  DEF StreamNext, streamVars, SetTimeout, Receive, ReceiveReached, Fill, Consume,
      ReceiveFails, SendCall, SendEnds, Select, SelectSleeps, SelectReturns, Wakes,
      Interrupted, TimePasses, Close, PeerSends, PeerEnds

(* The kernel takes the next letters of the string.                        *)
LEMMA SendSomeKeeps ==
  ASSUME StreamInv, CallOK, RoomOK, SendSome
  PROVE  StreamInv'
<1>1. PICK k \in 1 .. Smaller(room, Smaller(STEPSIZE, MaxOut - call.next + 1)) :
        /\ peerGot' = peerGot \o [j \in 1 .. k |-> call.next + j - 1]
        /\ call' = [call EXCEPT !.next = @ + k, !.total = @ + k]
  BY DEF SendSome
<1>2. /\ call.do = "send"
      /\ UNCHANGED <<data, low, got, wire, ended, stream, open, from, reply>>
  BY DEF SendSome, bufVars
<1>3. /\ peerGot \in Seq(Nat) /\ Len(peerGot) \in Nat /\ Len(peerGot) <= MaxOut
      /\ \A i \in 1 .. Len(peerGot) : peerGot[i] = i
      /\ call.next = Len(peerGot) + 1 /\ reply.of = "none"
  BY <1>2 DEF StreamInv, SentInv, PartInv
<1>4. call'.do = "send" /\ call'.next = call.next + k
  BY <1>1, <1>2 DEF CallOK
<1>5. BytesOK' /\ FlowInv' /\ PartInv' /\ ReplyInv'
  BY <1>2, <1>3, <1>4 DEF StreamInv, BytesOK, FlowInv, Window, PartInv, ReplyInv
<1>6. SentInv'
  <2> DEFINE L == Len(peerGot)
             s == [j \in 1 .. k |-> L + 1 + j - 1]
  <2>1. k \in Nat /\ k >= 1 /\ L + k <= MaxOut /\ MaxOut \in Nat
    <3>1. MaxOut \in Nat /\ STEPSIZE \in Nat
      BY SizesAssumption DEF SizesAssumption
    <3>2. k \in Int /\ 1 <= k /\ k <= Smaller(room, Smaller(STEPSIZE, MaxOut - (L + 1) + 1))
      BY <1>1, <1>3
    <3>3. PICK x \in Int : x = Smaller(STEPSIZE, MaxOut - (L + 1) + 1)
      <4>1. MaxOut - (L + 1) + 1 \in Int
        BY <1>3, <3>1
      <4>2. Smaller(STEPSIZE, MaxOut - (L + 1) + 1) \in Int
        BY <3>1, <4>1 DEF Smaller
      <4>3. QED
        BY <4>2
    <3>4. x <= MaxOut - L
      BY <1>3, <3>1, <3>3 DEF Smaller
    <3>5. k <= x
      BY <3>2, <3>3 DEF RoomOK, Smaller
    <3>6. QED
      BY <1>3, <3>1, <3>2, <3>4, <3>5
  <2>2. peerGot' = peerGot \o s
    BY <1>1, <1>3
  <2>3. s \in Seq(Nat) /\ Len(s) = k /\ \A j \in 1 .. k : s[j] = L + j
    BY <1>3, <2>1
  <2> HIDE DEF s
  <2>4. /\ peerGot \o s \in Seq(Nat) /\ Len(peerGot \o s) = L + k
        /\ \A i \in 1 .. L + k : (peerGot \o s)[i] = IF i <= L THEN peerGot[i] ELSE s[i - L]
    BY <1>3, <2>3, ConcatProperties
  <2>5. ASSUME NEW i \in 1 .. L + k PROVE (peerGot \o s)[i] = i
    <3>1. CASE i <= L
      <4>1. i \in 1 .. L
        BY <1>3, <3>1
      <4>2. QED
        BY <1>3, <2>4, <3>1, <4>1
    <3>2. CASE ~(i <= L)
      <4>1. i - L \in 1 .. k /\ L + (i - L) = i
        BY <1>3, <2>1, <3>2
      <4>2. QED
        BY <2>3, <2>4, <3>2, <4>1
    <3>3. QED
      BY <3>1, <3>2
  <2>6. call'.next = L + k + 1
    BY <1>3, <1>4, <2>1
  <2>7. QED
    BY <1>2, <1>3, <2>1, <2>2, <2>4, <2>5, <2>6 DEF SentInv
<1>7. QED
  BY <1>5, <1>6 DEF StreamInv

LEMMA StreamStep ==
  ASSUME StreamInv, WaitInv, EndedOK, RoomOK, [StreamNext]_streamVars
  PROVE  StreamInv'
<1> USE DEF bufVars, netVars
<1>1. CallOK
  BY DEF WaitInv
<1>2. ASSUME NEW t \in Timeouts, NEW mode \in {"block", "total"}, SetTimeout(t, mode)
      PROVE  StreamInv'
  BY <1>2, QuietKeeps DEF SetTimeout
<1>3. ASSUME NEW p \in {"*l", "*a"}, NEW prefix \in Resumes(p, 0), Receive(p, 0, prefix)
      PROVE  StreamInv'
  BY <1>3, ReceiveKeeps DEF Patterns
<1>4. ASSUME NEW n \in Counts, NEW prefix \in Resumes("n", n), Receive("n", n, prefix)
      PROVE  StreamInv'
  <2>1. n \in Nat
    BY SizesAssumption DEF SizesAssumption
  <2>2. QED
    BY <1>4, <2>1, ReceiveKeeps DEF Patterns
<1>5. CASE ReceiveReached
  <2>1. /\ call.do = "receive" /\ call.pattern = "n" /\ call.n <= Len(call.part)
        /\ Return(Received("none", call.part))
        /\ UNCHANGED <<data, low, wire, stream, from, got, peerGot, ended, open>>
    BY <1>5 DEF ReceiveReached
  <2>2. /\ reply'.of = "receive" /\ reply'.pattern = "n" /\ reply'.err = "none"
        /\ reply'.part = call.part /\ reply'.n = call.n
    BY <2>1 DEF Return, Received, NoResult
  <2>3. call.part = Given /\ call.n \in Nat /\ Len(call.part) <= call.n
    BY <2>1 DEF StreamInv, PartInv, Shown
  <2>4. Len(call.part) = call.n
    <3>1. Given \in Seq(Letters) /\ Len(Given) \in Nat
      BY Places DEF StreamInv
    <3>2. QED
      BY <2>1, <2>3, <3>1
  <2>5. Given' = Given
    BY <2>1 DEF Given
  <2>6. ReplyInv'
    BY <2>2, <2>3, <2>4, <2>5 DEF ReplyInv, Shown, Patterns
  <2>7. Received("none", call.part).of # "send"
    BY DEF Received, NoResult
  <2>8. QED
    BY <2>1, <2>6, <2>7, DoneKeeps
<1>6. CASE Fill
  BY <1>6, FillKeeps
<1>7. CASE Consume
  BY <1>1, <1>7, ConsumeKeeps
<1>8. CASE ReceiveFails
  <2>1. call.do = "receive" /\ UNCHANGED <<data, low, got, wire, stream, open, from, peerGot>>
    BY <1>8 DEF ReceiveFails, Receiving
  <2>2. CASE ~open
    <3>1. Return(ReceiveError("closed")) /\ ~open'
      BY <1>8, <2>1, <2>2 DEF ReceiveFails
    <3>2. QED
      BY <2>1, <3>1, FailKeeps
  <2>3. CASE open /\ ended = "closed"
    <3>1. Return(ReceiveError("closed")) /\ ended' = "closed"
      BY <1>8, <2>3 DEF ReceiveFails
    <3>2. QED
      BY <2>1, <3>1, FailKeeps
  <2>4. CASE open /\ ended = "reset"
    <3>1. Return(ReceiveError("reset"))
      BY <1>8, <2>4 DEF ReceiveFails
    <3>2. QED
      BY <2>1, <3>1, FailKeeps
  <2>5. CASE open /\ ended = "up"
    <3>1. Wait(ReceiveError("timeout")) /\ ended' = ended
      BY <1>8, <2>5 DEF ReceiveFails
    <3>2. CASE call.limits.block = 0
      BY <2>1, <3>1, <3>2, FailKeeps DEF Wait
    <3>3. CASE call.limits.block # 0
      BY <2>1, <3>1, <3>3, QuietKeeps DEF Wait
    <3>4. QED
      BY <3>2, <3>3
  <2>6. QED
    BY <2>2, <2>3, <2>4, <2>5 DEF EndedOK
<1>9. ASSUME NEW i \in {Len(peerGot) + 1, Len(peerGot) - MaxOut}, i # 0, SendCall(i)
      PROVE  StreamInv'
  <2> DEFINE c == [NoCall EXCEPT !.do = "send", !.next = Start(i), !.limits = tm]
  <2>1. Start(i) = Len(peerGot) + 1
    <3>1. Len(peerGot) \in Nat /\ Len(peerGot) <= MaxOut /\ MaxOut \in Nat
      BY SizesAssumption DEF StreamInv, SentInv, SizesAssumption
    <3>2. QED
      BY <1>9, <3>1 DEF Start
  <2>2. c.do = "send" /\ c.next = Len(peerGot) + 1
    BY <2>1 DEF NoCall
  <2>3. Begin(c) /\ UNCHANGED <<data, low, wire, stream, from, got, peerGot>>
    BY <1>9 DEF SendCall
  <2> HIDE DEF c
  <2>4. QED
    BY <2>2, <2>3, BeginsKeep
<1>10. CASE SendSome
  BY <1>1, <1>10, SendSomeKeeps
<1>11. CASE SendEnds
  <2>1. call.do = "send" /\ UNCHANGED <<data, low, wire, stream, from, got, peerGot, ended, open>>
        /\ \/ \E err \in {"none", "closed", "timeout"} : Return(Sent(err))
           \/ UNCHANGED <<call, reply>>
    BY <1>11 DEF SendEnds, Wait
  <2>2. QED
    BY <2>1, SentKeeps, QuietKeeps
<1>12. ASSUME NEW t \in Timeouts, Select(t)
       PROVE  StreamInv'
  <2> DEFINE c == [NoCall EXCEPT !.do = "select", !.dirty = ~Empty,
                     !.limits = [block |-> IF Empty THEN t ELSE 0, total |-> Forever]]
  <2>1. Begin(c) /\ UNCHANGED <<data, low, wire, stream, from, got, peerGot>>
    BY <1>12 DEF Select
  <2>2. c.do = "select"
    BY DEF NoCall
  <2> HIDE DEF c
  <2>3. QED
    BY <2>1, <2>2, BeginsKeep
<1>13. CASE SelectSleeps
  BY <1>13, QuietKeeps DEF SelectSleeps
<1>14. CASE SelectReturns
  <2>1. PICK res : /\ Return(res) /\ res.of = "select"
                   /\ UNCHANGED <<data, low, wire, stream, from, got, peerGot>>
    BY <1>14 DEF SelectReturns, NoResult
  <2>2. ReplyInv'
    BY <2>1 DEF Return, ReplyInv
  <2>3. QED
    BY <2>1, <2>2, DoneKeeps
<1>15. CASE Wakes
  <2>1. waiting /\ call.do # "select"
        /\ UNCHANGED <<data, low, wire, stream, from, got, peerGot, ended, open>>
    BY <1>15 DEF Wakes
  <2>2. CASE Ready
    <3>1. UNCHANGED <<call, reply>>
      BY <1>15, <2>2 DEF Wakes
    <3>2. QED
      BY <2>1, <3>1, QuietKeeps
  <2>3. CASE ~Ready
    <3>1. call.do = "send" \/ call.do = "receive"
      BY <1>1, <2>1 DEF WaitInv, DueInv, CallOK
    <3>2. CASE call.do = "send"
      <4>1. Return(Sent("timeout"))
        BY <1>15, <2>3, <3>2 DEF Wakes
      <4>2. QED
        BY <2>1, <3>2, <4>1, SentKeeps
    <3>3. CASE call.do = "receive"
      <4>1. Return(ReceiveError("timeout"))
        BY <1>15, <2>3, <3>3 DEF Wakes
      <4>2. QED
        BY <2>1, <3>3, <4>1, FailKeeps
    <3>4. QED
      BY <3>1, <3>2, <3>3
  <2>4. QED
    BY <2>2, <2>3
<1>16. CASE Interrupted \/ TimePasses \/ Close \/ PeerTakes \/ UNCHANGED streamVars
  BY <1>16, QuietKeeps DEF Interrupted, TimePasses, Close, PeerTakes, streamVars
<1>17. ASSUME NEW letter \in {Text, CR, LF}, PeerSends(letter)
       PROVE  StreamInv'
  BY <1>17, PeerSendsKeeps DEF Letters
<1>18. CASE PeerEnds
  <2>1. ended' # "up" /\ UNCHANGED <<data, low, wire, stream, from, got, peerGot, reply, call, open>>
    BY <1>18 DEF PeerEnds
  <2>2. QED
    BY <2>1, QuietKeeps
<1>19. QED
  BY <1>2, <1>3, <1>4, <1>5, <1>6, <1>7, <1>8, <1>9, <1>10, <1>11, <1>12, <1>13,
     <1>14, <1>15, <1>16, <1>17, <1>18 DEF StreamNext

(* The inductive invariant of a connected object's bytes: what it has      *)
(* given, what it holds and what the kernel holds are the stream, in       *)
(* order and each byte once.                                               *)
THEOREM StreamInvariance == StreamSpec => [](StreamInv /\ RoomOK)
<1>1. StreamInit => RoomOK
  BY SizesAssumption DEF StreamInit, RoomOK, SizesAssumption
<1>2. StreamInv /\ RoomOK /\ WaitInv /\ EndedOK /\ [StreamNext]_streamVars => (StreamInv /\ RoomOK)'
  BY StreamStep, RoomStep
<1>3. QED
  BY <1>1, <1>2, StreamStart, WaitInvariance, PTL DEF StreamSpec

(* However a receive was cut up, its answer is the stream from where it    *)
(* began to where it stopped; a line ends at its first line feed and a     *)
(* count is exact; a send's answer is what the kernel has.                 *)
THEOREM StreamIsExactHolds == StreamSpec => []StreamIsExact
<1>1. StreamInv => StreamIsExact
  <2> SUFFICES ASSUME StreamInv PROVE StreamIsExact
    OBVIOUS
  <2>1. /\ peerGot = [i \in 1 .. Len(peerGot) |-> i]
        /\ reply.of = "send" => reply.index = Len(peerGot)
    <3>1. peerGot \in Seq(Nat) /\ \A i \in 1 .. Len(peerGot) : peerGot[i] = i
      BY DEF StreamInv, SentInv
    <3>2. peerGot = [i \in 1 .. Len(peerGot) |-> peerGot[i]]
      BY <3>1
    <3>3. QED
      BY <3>1, <3>2 DEF StreamInv, SentInv
  <2>2. ASSUME reply.of = "receive"
        PROVE  /\ reply.part = IF reply.pattern = "*l" THEN NoEnds(Given) ELSE Given
               /\ reply.err = "none" =>
                    CASE reply.pattern = "n" -> Len(reply.part) = reply.n
                      [] reply.pattern = "*l" -> Given # << >> /\ Last(Given) = LF
                      [] reply.pattern = "*a" -> ended # "up" \/ ~open
               /\ reply.pattern = "*l" =>
                    \A i \in 1 .. Len(Given) - (IF reply.err = "none" THEN 1 ELSE 0) : Given[i] # LF
    <3>1. PICK g : g = Given
      OBVIOUS
    <3>2. g \in Seq(Letters) /\ Len(g) \in Nat
      BY <3>1, Places DEF StreamInv
    <3>3. /\ reply.pattern \in Patterns
          /\ reply.part = Shown(reply.pattern, g)
          /\ reply.err = "none" /\ reply.pattern = "n" => Len(reply.part) = reply.n
          /\ reply.err = "none" /\ reply.pattern = "*a" => ended # "up" \/ ~open
          /\ reply.err = "none" /\ reply.pattern = "*l" =>
               /\ Len(g) > 0 /\ g[Len(g)] = LF
               /\ \A i \in 1 .. Len(g) - 1 : g[i] # LF
          /\ reply.err # "none" /\ reply.pattern = "*l" =>
               \A i \in 1 .. Len(g) : g[i] # LF
      BY <2>2, <3>1 DEF StreamInv, ReplyInv
    <3>4. reply.part = IF reply.pattern = "*l" THEN NoEnds(g) ELSE g
      BY <3>3 DEF Shown
    <3>5. ASSUME reply.err = "none"
          PROVE  CASE reply.pattern = "n" -> Len(reply.part) = reply.n
                   [] reply.pattern = "*l" -> g # << >> /\ Last(g) = LF
                   [] reply.pattern = "*a" -> ended # "up" \/ ~open
      <4>1. reply.pattern = "*l" => g # << >> /\ Last(g) = LF
        BY <3>2, <3>3, <3>5 DEF Last
      <4>2. QED
        BY <3>3, <3>5, <4>1 DEF Patterns
    <3>6. ASSUME reply.pattern = "*l",
                 NEW i \in 1 .. Len(g) - (IF reply.err = "none" THEN 1 ELSE 0)
          PROVE  g[i] # LF
      <4>1. CASE reply.err = "none"
        BY <3>3, <3>6, <4>1
      <4>2. CASE reply.err # "none"
        <5>1. i \in 1 .. Len(g)
          BY <3>2, <4>2
        <5>2. QED
          BY <3>3, <3>6, <4>2, <5>1
      <4>3. QED
        BY <4>1, <4>2
    <3>7. QED
      BY <3>1, <3>4, <3>5, <3>6
  <2>3. QED
    BY <2>1, <2>2 DEF StreamIsExact, Given
<1>2. QED
  BY <1>1, StreamInvariance, PTL

-----------------------------------------------------------------------------
(* The ring of libconhash, as HashRing promises it, for any nodes and any  *)
(* hash values that are bounded below, as those of a C long are.           *)
CONSTANTS RingNodes, RingPlaces
VARIABLE ring

Promise == INSTANCE HashRing WITH Nodes <- RingNodes, Positions <- RingPlaces

(* Integers bounded below have a least one.                                *)
LEMMA LeastInt ==
  ASSUME NEW least \in Int, NEW T, T # {}, \A t \in T : t \in Int /\ t >= least
  PROVE  \E x \in T : \A y \in T : x <= y
<1> DEFINE S == {t - least : t \in T}
<1>1. S \subseteq Nat /\ S # {}
  OBVIOUS
<1>2. PICK s \in S : \A u \in S : s <= u
  <2> HIDE DEF S
  <2>1. QED
    BY <1>1, LeastNat
<1>3. PICK x \in T : s = x - least
  OBVIOUS
<1>4. ASSUME NEW y \in T
      PROVE  x <= y
  <2>1. y - least \in S
    OBVIOUS
  <2>2. s <= y - least
    BY <1>2, <2>1
  <2>3. QED
    BY <1>3, <2>2
<1>5. QED
  BY <1>4

(* A ring of places bounded below answers every lookup, at one place.      *)
LEMMA SuccessorExists ==
  ASSUME NEW least \in Int, NEW r, NEW h \in Int, DOMAIN r # {},
         \A p \in DOMAIN r : p \in Int /\ p >= least
  PROVE  \E p \in DOMAIN r : Promise!IsSuccessor(r, h, p)
<1> DEFINE Above == {q \in DOMAIN r : q >= h}
<1>1. CASE Above # {}
  <2>1. PICK p \in Above : \A q \in Above : p <= q
    <3>1. \A q \in Above : q \in Int /\ q >= least
      OBVIOUS
    <3> HIDE DEF Above
    <3>2. QED
      BY <1>1, <3>1, LeastInt
  <2>2. QED
    BY <2>1 DEF Promise!IsSuccessor, Promise!Places
<1>2. CASE Above = {}
  <2>1. PICK p \in DOMAIN r : \A q \in DOMAIN r : p <= q
    BY LeastInt
  <2>2. \A q \in DOMAIN r : q < h
    BY <1>2
  <2>3. QED
    BY <2>1, <2>2 DEF Promise!IsSuccessor, Promise!Places
<1>3. QED
  BY <1>1, <1>2

LEMMA SuccessorIsUnique ==
  ASSUME NEW r, NEW h \in Int, \A q \in DOMAIN r : q \in Int,
         NEW p \in DOMAIN r, Promise!IsSuccessor(r, h, p)
  PROVE  Promise!HeldBy(r, h) = {r[p]}
<1>1. ASSUME NEW q \in DOMAIN r, Promise!IsSuccessor(r, h, q)
      PROVE  q = p
  BY <1>1 DEF Promise!IsSuccessor, Promise!Places
<1>2. QED
  BY <1>1 DEF Promise!HeldBy, Promise!Places

(* When places are added to a ring, an object belongs to whom it belonged  *)
(* to, or to the owner of a place that was added.                          *)
LEMMA PlacesAdded ==
  ASSUME NEW least \in Int, NEW r, NEW s, NEW n, NEW h \in Int,
         \A p \in DOMAIN s : p \in Int /\ p >= least,
         DOMAIN r \subseteq DOMAIN s,
         \A p \in DOMAIN r : s[p] = r[p],
         \A p \in DOMAIN s \ DOMAIN r : s[p] = n
  PROVE  Promise!HeldBy(s, h) = Promise!HeldBy(r, h) \/ n \in Promise!HeldBy(s, h)
<1>1. CASE DOMAIN s = {}
  BY <1>1 DEF Promise!HeldBy, Promise!Places
<1>2. CASE DOMAIN s # {}
  <2>1. PICK p \in DOMAIN s : Promise!IsSuccessor(s, h, p)
    BY <1>2, SuccessorExists
  <2>2. Promise!HeldBy(s, h) = {s[p]}
    BY <2>1, SuccessorIsUnique
  <2>3. CASE p \in DOMAIN r
    <3>1. Promise!IsSuccessor(r, h, p)
      BY <2>1, <2>3 DEF Promise!IsSuccessor, Promise!Places
    <3>2. Promise!HeldBy(r, h) = {r[p]}
      BY <2>3, <3>1, SuccessorIsUnique
    <3>3. QED
      BY <2>2, <2>3, <3>2
  <2>4. QED
    BY <2>2, <2>3
<1>3. QED
  BY <1>1, <1>2

(* The places on the ring are hash values, and nodes own them.             *)
THEOREM RingTypeCorrect == Promise!Spec => []Promise!TypeOK
<1>1. Promise!Init => Promise!TypeOK
  BY DEF Promise!Init, Promise!TypeOK, Promise!Places
<1>2. Promise!TypeOK /\ [Promise!Next]_ring => Promise!TypeOK'
  <2> SUFFICES ASSUME Promise!TypeOK, [Promise!Next]_ring
               PROVE  Promise!TypeOK'
    OBVIOUS
  <2> USE DEF Promise!TypeOK, Promise!Places
  <2>1. CASE Promise!TakeDown
    BY <2>1 DEF Promise!TakeDown
  <2>2. ASSUME NEW n \in RingNodes, Promise!Join(n)
        PROVE  Promise!TypeOK'
    BY <2>2 DEF Promise!Join
  <2>3. ASSUME NEW n \in RingNodes, Promise!Leave(n)
        PROVE  Promise!TypeOK'
    BY <2>3 DEF Promise!Leave
  <2>4. CASE UNCHANGED ring
    BY <2>4
  <2>5. QED
    BY <2>1, <2>2, <2>3, <2>4 DEF Promise!Next
<1>3. QED
  BY <1>1, <1>2, PTL DEF Promise!Spec

(* A ring that is not empty answers each lookup with exactly one node.     *)
THEOREM RingAnswers ==
  ASSUME NEW least \in Int, \A p \in RingPlaces : p \in Int /\ p >= least
  PROVE  Promise!Spec => []Promise!EveryObjectIsHeld
<1>1. Promise!TypeOK => Promise!EveryObjectIsHeld
  <2> SUFFICES ASSUME Promise!TypeOK, NEW h \in Int
               PROVE  IF DOMAIN ring = {} THEN Promise!HeldBy(ring, h) = {}
                      ELSE \E n \in RingNodes : Promise!HeldBy(ring, h) = {n}
    BY DEF Promise!EveryObjectIsHeld, Promise!Places
  <2>1. \A p \in DOMAIN ring : p \in Int /\ p >= least /\ ring[p] \in RingNodes
    BY DEF Promise!TypeOK, Promise!Places
  <2>2. CASE DOMAIN ring = {}
    BY <2>2 DEF Promise!HeldBy, Promise!Places
  <2>3. CASE DOMAIN ring # {}
    <3>1. PICK p \in DOMAIN ring : Promise!IsSuccessor(ring, h, p)
      BY <2>1, <2>3, SuccessorExists
    <3>2. QED
      BY <2>1, <2>3, <3>1, SuccessorIsUnique
  <2>4. QED
    BY <2>2, <2>3
<1>2. QED
  BY <1>1, RingTypeCorrect, PTL

(* Only the objects of one node change hands when the ring changes.        *)
THEOREM OneNodesObjectsMoveHolds ==
  ASSUME NEW least \in Int, \A p \in RingPlaces : p \in Int /\ p >= least
  PROVE  Promise!Spec => Promise!OneNodesObjectsMove
<1> DEFINE Moves(n) ==
      \A h \in Int : Promise!HeldBy(ring', h) # Promise!HeldBy(ring, h) =>
                       n \in Promise!HeldBy(ring, h) \union Promise!HeldBy(ring', h)
<1>1. Promise!TypeOK /\ Promise!TypeOK' /\ Promise!Next => \E n \in RingNodes : Moves(n)
  <2> SUFFICES ASSUME Promise!TypeOK, Promise!TypeOK', Promise!Next
               PROVE  \E n \in RingNodes : Moves(n)
    OBVIOUS
  <2>1. PICK r, s : r = ring /\ s = ring'
    OBVIOUS
  <2>2. \A p \in DOMAIN r \union DOMAIN s : p \in Int /\ p >= least
    BY <2>1 DEF Promise!TypeOK, Promise!Places
  <2>3. ASSUME NEW n \in RingNodes,
               DOMAIN s \subseteq DOMAIN r,
               \A p \in DOMAIN s : r[p] = s[p],
               \A p \in DOMAIN r \ DOMAIN s : r[p] = n
        PROVE  Moves(n)
    <3>1. ASSUME NEW h \in Int
          PROVE  Promise!HeldBy(r, h) = Promise!HeldBy(s, h) \/ n \in Promise!HeldBy(r, h)
      BY <2>2, <2>3, PlacesAdded
    <3>2. QED
      BY <2>1, <3>1
  <2>4. ASSUME NEW n \in RingNodes, Promise!Join(n)
        PROVE  Moves(n)
    <3>1. /\ DOMAIN r \subseteq DOMAIN s
          /\ s = [p \in DOMAIN s |-> IF p \in DOMAIN r THEN r[p] ELSE n]
      BY <2>1, <2>4 DEF Promise!Join, Promise!Places
    <3>2. /\ \A p \in DOMAIN r : s[p] = r[p]
          /\ \A p \in DOMAIN s \ DOMAIN r : s[p] = n
      BY <3>1
    <3>3. ASSUME NEW h \in Int
          PROVE  Promise!HeldBy(s, h) = Promise!HeldBy(r, h) \/ n \in Promise!HeldBy(s, h)
      BY <2>2, <3>1, <3>2, PlacesAdded
    <3>4. QED
      BY <2>1, <3>3
  <2>5. ASSUME NEW n \in RingNodes, Promise!Leave(n)
        PROVE  Moves(n)
    <3>1. s = [p \in {q \in DOMAIN r : r[q] # n} |-> r[p]]
      BY <2>1, <2>5 DEF Promise!Leave, Promise!Places
    <3>2. QED
      BY <2>3, <3>1
  <2>6. ASSUME NEW p \in DOMAIN r, s = [q \in DOMAIN r \ {p} |-> r[q]]
        PROVE  \E n \in RingNodes : Moves(n)
    <3>1. r[p] \in RingNodes
      BY <2>1 DEF Promise!TypeOK, Promise!Places
    <3>2. Moves(r[p])
      BY <2>3, <2>6, <3>1
    <3>3. QED
      BY <3>1, <3>2
  <2>7. QED
    BY <2>1, <2>4, <2>5, <2>6 DEF Promise!Next, Promise!TakeDown, Promise!Places
<1>2. QED
  BY <1>1, RingTypeCorrect, PTL DEF Promise!Spec, Promise!OneNodesObjectsMove, Moves
=============================================================================
