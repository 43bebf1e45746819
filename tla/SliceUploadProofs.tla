-------------------------- MODULE SliceUploadProofs --------------------------
(***************************************************************************)
(* Proofs about SliceUpload, for any number of workers, slices and faults. *)
(***************************************************************************)
EXTENDS SliceUpload, TLAPS

USE SliceAssumption DEF SliceAssumption, Chunks

(* An answer keeps the types of what it changes.                           *)
LEMMA AnswerType ==
  ASSUME TypeOK, NEW w \in Workers, NEW code, Answer(w, code)
  PROVE  /\ pc' \in [Workers -> PushSteps \union CompleteSteps \union {"idle"}]
         /\ waits' \in SUBSET Workers
         /\ acked' \in [Chunks -> {"no", "yes"}]
         /\ done' \in {"no", "yes"}
BY DEF TypeOK, Answer, NoneAcked

(* So does going on to a step.                                             *)
LEMMA GotoType ==
  ASSUME TypeOK, NEW w \in Workers, NEW step \in PushSteps \union CompleteSteps, Goto(w, step)
  PROVE  /\ pc' \in [Workers -> PushSteps \union CompleteSteps \union {"idle"}]
         /\ waits' \in SUBSET Workers
         /\ acked' \in [Chunks -> {"no", "yes"}]
         /\ done' \in {"no", "yes"}
BY DEF TypeOK, Goto, clientVars

(* Flushing keeps the type of the destination.                             *)
LEMMA FlushedType ==
  ASSUME TypeOK, NEW w \in Workers, NEW c
  PROVE  Flushed(w, c) \in [Chunks -> {"none", "partial", "full"}]
BY DEF TypeOK, Flushed

(* Every variable keeps its type.                                          *)
THEOREM TypeCorrect == Spec => []TypeOK
<1>1. Init => TypeOK
  BY DEF Init, TypeOK, NoneAcked
<1>2. TypeOK /\ [Next]_vars => TypeOK'
  <2> SUFFICES ASSUME TypeOK, [Next]_vars
               PROVE  TypeOK'
    OBVIOUS
  <2> USE DEF Fails
  <2> DEFINE ControlOK == /\ pc \in [Workers -> PushSteps \union CompleteSteps \union {"idle"}]
                          /\ waits \in SUBSET Workers
                          /\ acked \in [Chunks -> {"no", "yes"}]
                          /\ done \in {"no", "yes"}
  <2>1. ASSUME NEW w \in Workers, PushOpen(w)
        PROVE  TypeOK'
    <3>1. ControlOK'
      BY <2>1, GotoType, AnswerType DEF PushOpen, PushSteps
    <3>2. QED
      BY <2>1, <3>1, SMTT(60) DEF PushOpen, TypeOK
  <2>2. ASSUME NEW w \in Workers, PushWrite(w)
        PROVE  TypeOK'
    <3>1. part' \in [Chunks -> {"none", "partial", "full"}]
      BY <2>2 DEF PushWrite, TypeOK
    <3>2. QED
      BY <2>2, <3>1, AnswerType DEF PushWrite, TypeOK
  <2>3. ASSUME NEW w \in Workers, CompleteOpen(w)
        PROVE  TypeOK'
    <3>1. ControlOK'
      BY <2>3, GotoType, AnswerType DEF CompleteOpen, CompleteSteps
    <3>2. QED
      BY <2>3, <3>1 DEF CompleteOpen, TypeOK
  <2>4. ASSUME NEW w \in Workers, CompleteAppend(w)
        PROVE  TypeOK'
    <3>1. ControlOK'
      BY <2>4, GotoType, AnswerType DEF CompleteAppend, CompleteSteps
    <3>2. dst' \in [Chunks -> {"none", "partial", "full"}]
      <4>1. Flushed(w, arg[w] - 1) \in [Chunks -> {"none", "partial", "full"}]
        BY FlushedType
      <4>2. QED
        BY <2>4, <4>1 DEF CompleteAppend
    <3>3. tail' \in [Workers -> {"partial", "full"}]
      <4>1. part[arg[w]] \in {"none", "partial", "full"} /\ tail \in [Workers -> {"partial", "full"}]
        BY <2>4 DEF TypeOK
      <4>2. \/ tail' = tail
            \/ part[arg[w]] # "none" /\ tail' = [tail EXCEPT ![w] = part[arg[w]]]
            \/ tail' = [tail EXCEPT ![w] = "partial"]
        BY <2>4 DEF CompleteAppend
      <4>3. QED
        BY <4>1, <4>2
    <3>4. QED
      BY <2>4, <3>1, <3>2, <3>3 DEF CompleteAppend, TypeOK
  <2>5. ASSUME NEW w \in Workers, CompleteRemove(w)
        PROVE  TypeOK'
    <3>1. ControlOK'
      BY <2>5, GotoType DEF CompleteRemove, CompleteSteps
    <3>2. arg' \in [Workers -> Chunks]
      <4>1. arg[w] \in 1..N /\ arg \in [Workers -> 1..N]
        BY DEF TypeOK
      <4>2. arg' = arg \/ (arg[w] < N /\ arg' = [arg EXCEPT ![w] = arg[w] + 1])
        BY <2>5 DEF CompleteRemove
      <4>3. arg[w] < N => arg[w] + 1 \in 1..N
        BY <4>1
      <4>4. QED
        BY <4>1, <4>2, <4>3
    <3>3. QED
      BY <2>5, <3>1, <3>2 DEF CompleteRemove, TypeOK
  <2>6. ASSUME NEW w \in Workers, CompleteClose(w)
        PROVE  TypeOK'
    BY <2>6, AnswerType, FlushedType DEF CompleteClose, TypeOK
  <2>7. ASSUME NEW w \in Workers, NEW c \in Chunks, SendPush(w, c)
        PROVE  TypeOK'
    BY <2>7 DEF SendPush, SpoiledIf, PushSteps, TypeOK
  <2>8. ASSUME NEW w \in Workers, SendComplete(w)
        PROVE  TypeOK'
    BY <2>8 DEF SendComplete, SpoiledIf, CompleteSteps, TypeOK
  <2>9. ASSUME NEW w \in Workers, Timeout(w)
        PROVE  TypeOK'
    BY <2>9 DEF Timeout, Unanswered, NoneAcked, workVars, TypeOK
  <2>10. ASSUME NEW w \in Workers, Crash(w)
         PROVE  TypeOK'
    BY <2>10 DEF Crash, Unanswered, NoneAcked, TypeOK
  <2>11. CASE UNCHANGED vars
    BY <2>11 DEF vars, TypeOK
  <2>12. QED
    BY <2>1, <2>2, <2>3, <2>4, <2>5, <2>6, <2>7, <2>8, <2>9, <2>10, <2>11 DEF Next, Step, Send
<1>3. QED
  BY <1>1, <1>2, PTL DEF Spec

(* The inductive invariant; one step per action, one per conjunct.         *)
THEOREM Invariance == Spec => []IInv
<1>1. Init => IInv
  BY DEF Init, IInv, TypeOK, NoConflict, AckedIsSettled, CompleteInv, WholeInv, NoneAcked,
         Pushing, Completing, PushSteps, CompleteSteps
<1>2. IInv /\ TypeOK' /\ [Next]_vars => IInv'
  <2> SUFFICES ASSUME TypeOK, NoConflict, AckedIsSettled, CompleteInv, WholeInv, TypeOK',
                      [Next]_vars, spoiled = "no", spoiled' = "no"
               PROVE  NoConflict' /\ AckedIsSettled' /\ CompleteInv' /\ WholeInv'
    <3>1. spoiled' = "no" /\ [Next]_vars /\ TypeOK => spoiled = "no"
      BY DEF Next, Step, Send, SendPush, SendComplete, SpoiledIf, Timeout, PushOpen, PushWrite,
             CompleteOpen, CompleteAppend, CompleteRemove, CompleteClose, Crash, vars, TypeOK
    <3>2. spoiled' = "yes" => NoConflict' /\ AckedIsSettled' /\ CompleteInv' /\ WholeInv'
      BY DEF NoConflict, AckedIsSettled, CompleteInv, WholeInv
    <3>3. QED
      BY <3>1, <3>2 DEF IInv, TypeOK
  <2> USE DEF TypeOK, Goto, Answer, clientVars, Fails, Pushing, Completing, PushSteps, CompleteSteps
  <2>1. ASSUME NEW w \in Workers, PushOpen(w)
        PROVE  NoConflict' /\ AckedIsSettled' /\ CompleteInv' /\ WholeInv'
    <3>1. /\ pc[w] = "push_open" /\ pc'[w] \in {"push_write", "idle"}
          /\ \A x \in Workers \ {w} : pc'[x] = pc[x]
          /\ UNCHANGED <<arg, dst, tail>>
      BY <2>1 DEF PushOpen
    <3>5. NoConflict'
      BY <3>1 DEF NoConflict
    <3>6. AckedIsSettled'
      BY <2>1 DEF PushOpen, NoConflict, AckedIsSettled, CompleteInv
    <3>7. CompleteInv'
      <4>1. \A x \in Workers : ~Completing(x)
        BY <3>1 DEF NoConflict
      <4>2. \A x \in Workers : ~Completing(x)'
        BY <3>1, <4>1
      <4>3. QED
        BY <4>2 DEF CompleteInv
    <3>8. WholeInv'
      BY <2>1 DEF PushOpen, NoConflict, CompleteInv, WholeInv
    <3>9. QED
      BY <3>5, <3>6, <3>7, <3>8
  <2>2. ASSUME NEW w \in Workers, PushWrite(w)
        PROVE  NoConflict' /\ AckedIsSettled' /\ CompleteInv' /\ WholeInv'
    <3>1. /\ pc[w] = "push_write" /\ pc'[w] = "idle" /\ UNCHANGED <<arg, dst, tail>>
          /\ \A x \in Workers \ {w} : pc'[x] = pc[x]
          /\ w \in linked /\ linked' = linked \ {w}
          /\ part' = [part EXCEPT ![arg[w]] = "full"]
          /\ acked' \in {acked, [acked EXCEPT ![arg[w]] = "yes"]}
      BY <2>2 DEF PushWrite, AckedIsSettled
    <3>2. \A x \in Workers \ {w} : pc[x] # "idle" => Pushing(x) /\ arg[x] # arg[w]
      BY <3>1 DEF NoConflict
    <3>5. NoConflict'
      BY <3>1 DEF NoConflict
    <3>6. AckedIsSettled'
      BY <3>1, <3>2 DEF AckedIsSettled
    <3>7. CompleteInv'
      BY <3>1, <3>2, ZenonT(60) DEF CompleteInv
    <3>8. WholeInv'
      BY <2>2 DEF PushWrite, NoConflict, CompleteInv, WholeInv
    <3>9. QED
      BY <3>5, <3>6, <3>7, <3>8
  <2>3. ASSUME NEW w \in Workers, CompleteOpen(w)
        PROVE  NoConflict' /\ AckedIsSettled' /\ CompleteInv' /\ WholeInv'
    <3>1. Completing(w) /\ done = "no"
      BY <2>3 DEF CompleteOpen, WholeInv
    <3>2. \A x \in Workers \ {w} : pc[x] = "idle" /\ pc'[x] = "idle"
      <4>1. \A x \in Workers \ {w} : pc[x] = "idle"
        BY <3>1 DEF NoConflict
      <4>2. \A x \in Workers \ {w} : pc'[x] = pc[x]
        BY <2>3 DEF CompleteOpen
      <4>3. QED
        BY <4>1, <4>2
    <3>3. /\ pc'[w] \in {"append", "idle"}
          /\ UNCHANGED <<part, arg>>
          /\ acked' \in {acked, NoneAcked}
          /\ \A c \in Chunks : part[c] # "partial"
      BY <2>3, <3>1 DEF CompleteOpen, CompleteInv
    <3>4. pc'[w] = "append" => arg[w] = 1
      BY <2>3 DEF CompleteOpen, CompleteInv
    <3>5. NoConflict'
      BY <3>2 DEF NoConflict
    <3>6. AckedIsSettled'
      BY <3>2, <3>3 DEF AckedIsSettled, NoneAcked
    <3>7. CompleteInv'
      <4>1. CASE pc'[w] = "idle"
        BY <3>2, <4>1 DEF CompleteInv
      <4>2. CASE pc'[w] = "append"
        BY <3>2, <3>3, <3>4, <4>2, SMTT(60) DEF CompleteInv
      <4>3. QED
        BY <3>3, <4>1, <4>2
    <3>8. WholeInv'
      BY <2>3, <3>1 DEF CompleteOpen, WholeInv
    <3>9. QED
      BY <3>5, <3>6, <3>7, <3>8
  <2>4. ASSUME NEW w \in Workers, CompleteAppend(w)
        PROVE  NoConflict' /\ AckedIsSettled' /\ CompleteInv' /\ WholeInv'
    <3>1. Completing(w) /\ done = "no"
      BY <2>4 DEF CompleteAppend, WholeInv
    <3>2. \A x \in Workers \ {w} : pc[x] = "idle" /\ pc'[x] = "idle"
      <4>1. \A x \in Workers \ {w} : pc[x] = "idle"
        BY <3>1 DEF NoConflict
      <4>2. \A x \in Workers \ {w} : pc'[x] = pc[x]
        BY <2>4 DEF CompleteAppend
      <4>3. QED
        BY <4>1, <4>2
    <3>3. /\ pc[w] = "append" /\ pc'[w] \in {"remove", "idle"}
          /\ UNCHANGED <<part, arg>>
          /\ acked' \in {acked, NoneAcked}
          /\ \A c \in Chunks : part[c] # "partial"
      BY <2>4, <3>1 DEF CompleteAppend, CompleteInv
    <3>4. pc'[w] = "remove" =>
            /\ \A c \in Chunks : c < arg[w] => dst'[c] = "full"
            /\ dst'[arg[w]] = "partial" /\ tail'[w] = "full"
      <4>1. SUFFICES ASSUME pc'[w] = "remove"
                     PROVE  /\ \A c \in Chunks : c < arg[w] => dst'[c] = "full"
                            /\ dst'[arg[w]] = "partial" /\ tail'[w] = "full"
        OBVIOUS
      <4>2. /\ dst' = [Flushed(w, arg[w] - 1) EXCEPT ![arg[w]] = "partial"]
            /\ tail' = [tail EXCEPT ![w] = part[arg[w]]]
            /\ part[arg[w]] # "none"
        BY <2>4, <4>1 DEF CompleteAppend
      <4>3. tail'[w] = "full"
        BY <3>3, <4>2
      <4>4. /\ \A c \in Chunks : c < arg[w] - 1 => dst[c] = "full"
            /\ arg[w] > 1 => dst[arg[w] - 1] = "partial" /\ tail[w] = "full"
        BY <3>1, <3>3 DEF CompleteInv
      <4>5. \A c \in Chunks : c < arg[w] => Flushed(w, arg[w] - 1)[c] = "full"
        BY <4>4 DEF Flushed
      <4>6. Flushed(w, arg[w] - 1) \in [Chunks -> {"none", "partial", "full"}]
        BY FlushedType
      <4>7. QED
        BY <4>2, <4>3, <4>5, <4>6
    <3>5. NoConflict'
      BY <3>2 DEF NoConflict
    <3>6. AckedIsSettled'
      BY <3>2, <3>3 DEF AckedIsSettled, NoneAcked
    <3>7. CompleteInv'
      <4>1. CASE pc'[w] = "idle"
        BY <3>2, <4>1 DEF CompleteInv
      <4>2. CASE pc'[w] = "remove"
        <5>1. arg'[w] = arg[w] /\ \A c \in Chunks : part'[c] # "partial"
          BY <3>3
        <5>2. /\ \A c \in Chunks : c < arg'[w] => dst'[c] = "full"
              /\ dst'[arg'[w]] = "partial" /\ tail'[w] = "full"
          BY <3>4, <4>2, <5>1
        <5>3. \A x \in Workers : Completing(x)' => x = w
          BY <3>2
        <5>4. arg'[w] \in Chunks /\ pc'[w] # "open" /\ pc'[w] # "append" /\ pc'[w] # "close"
          BY <4>2
        <5> HIDE DEF TypeOK, Completing
        <5>5. QED
          BY <4>2, <5>1, <5>2, <5>3, <5>4 DEF CompleteInv
      <4>3. QED
        BY <3>3, <4>1, <4>2
    <3>8. WholeInv'
      BY <2>4, <3>1 DEF CompleteAppend, WholeInv
    <3>9. QED
      BY <3>5, <3>6, <3>7, <3>8
  <2>5. ASSUME NEW w \in Workers, CompleteRemove(w)
        PROVE  NoConflict' /\ AckedIsSettled' /\ CompleteInv' /\ WholeInv'
    <3>1. Completing(w) /\ done = "no"
      BY <2>5 DEF CompleteRemove, WholeInv
    <3>2. \A x \in Workers \ {w} : pc[x] = "idle" /\ pc'[x] = "idle"
      <4>1. \A x \in Workers \ {w} : pc[x] = "idle"
        BY <3>1 DEF NoConflict
      <4>2. \A x \in Workers \ {w} : pc'[x] = pc[x]
        BY <2>5 DEF CompleteRemove
      <4>3. QED
        BY <4>1, <4>2
    <3>3. /\ pc[w] = "remove" /\ UNCHANGED <<dst, tail, acked>>
          /\ part' = [part EXCEPT ![arg[w]] = "none"]
          /\ \/ pc'[w] = "append" /\ arg'[w] = arg[w] + 1
             \/ pc'[w] = "close" /\ arg'[w] = arg[w] /\ arg[w] = N
      BY <2>5 DEF CompleteRemove
    <3>4. \A c \in Chunks : part'[c] # "partial"
      BY <3>1, <3>3 DEF CompleteInv
    <3>5. NoConflict'
      BY <3>2 DEF NoConflict
    <3>6. AckedIsSettled'
      BY <3>2, <3>3, <3>4 DEF AckedIsSettled
    <3>7. CompleteInv'
      <4>1. /\ \A c \in Chunks : c < arg[w] => dst[c] = "full"
            /\ dst[arg[w]] = "partial" /\ tail[w] = "full"
        BY <3>1, <3>3 DEF CompleteInv
      <4>2. CASE pc'[w] = "append" /\ arg'[w] = arg[w] + 1
        <5>1. \A c \in Chunks : c < arg'[w] - 1 => dst'[c] = "full"
          BY <3>3, <4>1, <4>2
        <5>2. dst'[arg'[w] - 1] = "partial" /\ tail'[w] = "full"
          BY <3>3, <4>1, <4>2
        <5>3. QED
          BY <3>2, <3>4, <4>2, <5>1, <5>2, ZenonT(60) DEF CompleteInv
      <4>3. CASE pc'[w] = "close" /\ arg'[w] = arg[w] /\ arg[w] = N
        BY <3>2, <3>3, <3>4, <4>1, <4>3, ZenonT(60) DEF CompleteInv
      <4>4. QED
        BY <3>3, <4>2, <4>3
    <3>8. WholeInv'
      BY <2>5, <3>1 DEF CompleteRemove, WholeInv
    <3>9. QED
      BY <3>5, <3>6, <3>7, <3>8
  <2>6. ASSUME NEW w \in Workers, CompleteClose(w)
        PROVE  NoConflict' /\ AckedIsSettled' /\ CompleteInv' /\ WholeInv'
    <3>1. Completing(w) /\ done = "no"
      BY <2>6 DEF CompleteClose, WholeInv
    <3>2. \A x \in Workers \ {w} : pc[x] = "idle" /\ pc'[x] = "idle"
      <4>1. \A x \in Workers \ {w} : pc[x] = "idle"
        BY <3>1 DEF NoConflict
      <4>2. \A x \in Workers \ {w} : pc'[x] = pc[x]
        BY <2>6 DEF CompleteClose
      <4>3. QED
        BY <4>1, <4>2
    <3>3. /\ pc[w] = "close" /\ pc'[w] = "idle" /\ UNCHANGED <<part, arg, acked>>
          /\ dst' = Flushed(w, N)
      BY <2>6 DEF CompleteClose
    <3>4. \A c \in Chunks : dst'[c] = "full"
      <4>1. /\ \A c \in Chunks : c < N => dst[c] = "full"
            /\ dst[N] = "partial" /\ tail[w] = "full"
        BY <3>1, <3>3 DEF CompleteInv
      <4>2. QED
        BY <3>3, <4>1 DEF Flushed
    <3>5. NoConflict'
      BY <3>2 DEF NoConflict
    <3>6. AckedIsSettled'
      BY <3>2, <3>3 DEF AckedIsSettled
    <3>7. CompleteInv'
      BY <3>2, <3>3 DEF CompleteInv
    <3>8. WholeInv'
      BY <3>2, <3>3, <3>4 DEF WholeInv
    <3>9. QED
      BY <3>5, <3>6, <3>7, <3>8
  <2>7. ASSUME NEW w \in Workers, NEW c \in Chunks, SendPush(w, c)
        PROVE  NoConflict' /\ AckedIsSettled' /\ CompleteInv' /\ WholeInv'
    <3>1. NoConflict'
      BY <2>7 DEF SendPush, SpoiledIf, NoConflict
    <3>2. AckedIsSettled'
      BY <2>7 DEF SendPush, SpoiledIf, NoConflict, AckedIsSettled, CompleteInv
    <3>3. CompleteInv'
      BY <2>7 DEF SendPush, SpoiledIf, NoConflict, AckedIsSettled, CompleteInv
    <3>4. WholeInv'
      BY <2>7 DEF SendPush, SpoiledIf, NoConflict, CompleteInv, WholeInv
    <3>5. QED
      BY <3>1, <3>2, <3>3, <3>4
  <2>8. ASSUME NEW w \in Workers, SendComplete(w)
        PROVE  NoConflict' /\ AckedIsSettled' /\ CompleteInv' /\ WholeInv'
    <3>1. NoConflict'
      BY <2>8 DEF SendComplete, SpoiledIf, NoConflict
    <3>2. AckedIsSettled'
      BY <2>8 DEF SendComplete, SpoiledIf, NoConflict, AckedIsSettled, CompleteInv
    <3>3. CompleteInv'
      BY <2>8 DEF SendComplete, SpoiledIf, NoConflict, AckedIsSettled, CompleteInv
    <3>4. WholeInv'
      BY <2>8 DEF SendComplete, SpoiledIf, NoConflict, CompleteInv, WholeInv
    <3>5. QED
      BY <3>1, <3>2, <3>3, <3>4
  <2>9. ASSUME NEW w \in Workers, Timeout(w)
        PROVE  NoConflict' /\ AckedIsSettled' /\ CompleteInv' /\ WholeInv'
    <3>1. NoConflict'
      BY <2>9 DEF Timeout, Unanswered, NoneAcked, workVars, NoConflict
    <3>2. AckedIsSettled'
      BY <2>9 DEF Timeout, Unanswered, NoneAcked, workVars, NoConflict, AckedIsSettled, CompleteInv
    <3>3. CompleteInv'
      BY <2>9 DEF Timeout, Unanswered, NoneAcked, workVars, NoConflict, AckedIsSettled, CompleteInv
    <3>4. WholeInv'
      BY <2>9 DEF Timeout, Unanswered, NoneAcked, workVars, NoConflict, CompleteInv, WholeInv
    <3>5. QED
      BY <3>1, <3>2, <3>3, <3>4
  <2>10. ASSUME NEW w \in Workers, Crash(w)
        PROVE  NoConflict' /\ AckedIsSettled' /\ CompleteInv' /\ WholeInv'
    <3>1. NoConflict'
      BY <2>10 DEF Crash, Unanswered, NoneAcked, NoConflict
    <3>2. AckedIsSettled'
      BY <2>10 DEF Crash, Unanswered, NoneAcked, NoConflict, AckedIsSettled, CompleteInv
    <3>3. CompleteInv'
      BY <2>10 DEF Crash, Unanswered, NoneAcked, NoConflict, AckedIsSettled, CompleteInv
    <3>4. WholeInv'
      BY <2>10 DEF Crash, Unanswered, NoneAcked, NoConflict, CompleteInv, WholeInv
    <3>5. QED
      BY <3>1, <3>2, <3>3, <3>4
  <2>11. CASE UNCHANGED vars
    BY <2>11 DEF vars, NoConflict, AckedIsSettled, CompleteInv, WholeInv
  <2>12. QED
    BY <2>1, <2>2, <2>3, <2>4, <2>5, <2>6, <2>7, <2>8, <2>9, <2>10, <2>11 DEF Next, Step, Send
<1>3. QED
  BY <1>1, <1>2, TypeCorrect, PTL DEF Spec

(* A client told that its upload is complete has a whole file, for any     *)
(* number of slices, workers, crashes, timeouts and retries, unless two    *)
(* requests overlapped or a write failed.                                  *)
THEOREM CompletedIsWholeHolds == Spec => []CompletedIsWhole
<1>1. IInv => CompletedIsWhole
  BY DEF IInv, WholeInv, CompletedIsWhole
<1>2. QED
  BY <1>1, Invariance, PTL

(* While nothing has failed and no requests have met, the client waits for *)
(* every request; what it was told is stored is in its part file, until a  *)
(* complete, which finds all parts, has appended it.                       *)
FaultFree ==
  faults = 0 /\ spoiled = "no" =>
    /\ \A w \in Workers : pc[w] # "idle" => w \in waits
    /\ done = "no" /\ (\A w \in Workers : ~Completing(w)) =>
         \A c \in Chunks : acked[c] = "yes" => part[c] = "full"
    /\ \A w \in Workers :
         Completing(w) =>
           /\ pc[w] \in {"open", "append"} => \A c \in Chunks : c >= arg[w] => part[c] = "full"
           /\ pc[w] = "remove" => \A c \in Chunks : c > arg[w] => part[c] = "full"

(* Without a fault a complete finds every part (slicePush has written it   *)
(* before it answers, and sliceComplete removes what it has appended).     *)
THEOREM FaultFreeInvariance == Spec => []FaultFree
<1>1. Init => FaultFree
  BY DEF Init, FaultFree, NoneAcked, Completing, CompleteSteps
<1>2. IInv /\ IInv' /\ FaultFree /\ [Next]_vars => FaultFree'
  <2> SUFFICES ASSUME IInv, IInv', FaultFree, [Next]_vars, faults' = 0, spoiled' = "no"
               PROVE  FaultFree'
    BY DEF FaultFree
  <2> USE DEF Pushing, Completing, PushSteps, CompleteSteps
  <2>1. TypeOK /\ TypeOK' /\ NoConflict /\ AckedIsSettled /\ CompleteInv
    BY DEF IInv
  <2>2. ~Fails /\ faults = 0 /\ spoiled = "no"
    <3>1. faults \in Nat
      BY <2>1 DEF TypeOK
    <3>2. faults' = faults \/ faults' = faults + 1
      BY DEF Next, Step, Send, SendPush, SendComplete, Timeout, PushOpen, PushWrite, Fails,
             CompleteOpen, CompleteAppend, CompleteRemove, CompleteClose, Crash, vars
    <3>3. faults = 0
      BY <3>1, <3>2
    <3>4. spoiled = "no"
      BY <2>1 DEF Next, Step, Send, SendPush, SendComplete, SpoiledIf, Timeout, PushOpen, PushWrite,
             CompleteOpen, CompleteAppend, CompleteRemove, CompleteClose, Crash, vars, TypeOK
    <3>5. QED
      BY <3>3, <3>4 DEF Fails
  <2>3. /\ \A w \in Workers : pc[w] # "idle" => w \in waits
        /\ done = "no" /\ (\A w \in Workers : ~Completing(w)) =>
             \A c \in Chunks : acked[c] = "yes" => part[c] = "full"
        /\ \A w \in Workers :
             Completing(w) =>
               /\ pc[w] \in {"open", "append"} => \A c \in Chunks : c >= arg[w] => part[c] = "full"
               /\ pc[w] = "remove" => \A c \in Chunks : c > arg[w] => part[c] = "full"
    BY <2>2 DEF FaultFree
  <2>4. ASSUME NEW w \in Workers, PushOpen(w)
        PROVE  FaultFree'
    <3>1. /\ pc[w] = "push_open" /\ part' = [part EXCEPT ![arg[w]] = "partial"]
          /\ pc' = [pc EXCEPT ![w] = "push_write"]
          /\ UNCHANGED <<arg, waits, acked, done>> /\ acked[arg[w]] = "no"
      BY <2>1, <2>2, <2>4 DEF PushOpen, Goto, clientVars, AckedIsSettled
    <3>2. \A x \in Workers : ~Completing(x)
      BY <2>1, <2>2, <3>1 DEF NoConflict
    <3>3. QED
      BY <2>1, <2>3, <3>1, <3>2 DEF FaultFree, TypeOK
  <2>5. ASSUME NEW w \in Workers, PushWrite(w)
        PROVE  FaultFree'
    <3>1. /\ pc[w] = "push_write" /\ part' = [part EXCEPT ![arg[w]] = "full"]
          /\ pc' = [pc EXCEPT ![w] = "idle"] /\ waits' = waits \ {w}
          /\ acked' = [acked EXCEPT ![arg[w]] = "yes"] /\ UNCHANGED <<arg, done>>
      BY <2>1, <2>2, <2>3, <2>5 DEF PushWrite, Answer, AckedIsSettled
    <3>2. \A x \in Workers : ~Completing(x)
      BY <2>1, <2>2, <3>1 DEF NoConflict
    <3>3. QED
      BY <2>1, <2>3, <3>1, <3>2 DEF FaultFree, TypeOK
  <2>6. ASSUME NEW w \in Workers, CompleteOpen(w)
        PROVE  FaultFree'
    <3>1. /\ pc[w] = "open" /\ pc' = [pc EXCEPT ![w] = "append"]
          /\ UNCHANGED <<part, arg, waits, acked, done>>
      BY <2>2, <2>6 DEF CompleteOpen, Goto, clientVars
    <3>2. QED
      BY <2>1, <2>3, <3>1 DEF FaultFree, TypeOK
  <2>7. ASSUME NEW w \in Workers, CompleteAppend(w)
        PROVE  FaultFree'
    <3>1. arg[w] \in Chunks /\ pc[w] = "append" /\ part[arg[w]] = "full"
      BY <2>1, <2>3, <2>7 DEF CompleteAppend, TypeOK
    <3>2. pc' = [pc EXCEPT ![w] = "remove"] /\ UNCHANGED <<part, arg, waits, acked, done>>
      BY <2>7, <3>1 DEF CompleteAppend, Goto, clientVars
    <3>3. QED
      BY <2>1, <2>3, <3>1, <3>2 DEF FaultFree, TypeOK
  <2>8. ASSUME NEW w \in Workers, CompleteRemove(w)
        PROVE  FaultFree'
    <3>1. /\ pc[w] = "remove" /\ part' = [part EXCEPT ![arg[w]] = "none"]
          /\ arg[w] \in Nat /\ UNCHANGED <<waits, acked, done>>
          /\ \/ pc' = [pc EXCEPT ![w] = "append"] /\ arg' = [arg EXCEPT ![w] = arg[w] + 1]
             \/ pc' = [pc EXCEPT ![w] = "close"] /\ arg' = arg
      BY <2>1, <2>8 DEF CompleteRemove, Goto, clientVars, TypeOK
    <3>2. \A x \in Workers \ {w} : pc[x] = "idle"
      BY <2>1, <2>2, <3>1 DEF NoConflict
    <3>3. Completing(w)' /\ (\A x \in Workers : pc'[x] # "idle" => x = w) /\ w \in waits'
      BY <2>1, <2>3, <3>1, <3>2 DEF TypeOK
    <3>4. ASSUME pc'[w] = "append", NEW c \in Chunks, c >= arg'[w] PROVE part'[c] = "full"
      <4>1. arg'[w] = arg[w] + 1
        BY <2>1, <3>1, <3>4 DEF TypeOK
      <4>2. c > arg[w]
        BY <3>1, <3>4, <4>1
      <4>3. QED
        BY <2>1, <2>3, <3>1, <4>2 DEF TypeOK
    <3>5. pc'[w] # "open" /\ pc'[w] # "remove"
      BY <2>1, <3>1 DEF TypeOK
    <3>6. QED
      BY <3>3, <3>4, <3>5 DEF FaultFree
  <2>9. ASSUME NEW w \in Workers, CompleteClose(w)
        PROVE  FaultFree'
    <3>1. /\ pc[w] = "close" /\ pc' = [pc EXCEPT ![w] = "idle"] /\ done' = "yes"
          /\ waits' = waits \ {w} /\ UNCHANGED <<part, arg>>
      BY <2>3, <2>9 DEF CompleteClose, Answer
    <3>2. \A x \in Workers : pc'[x] = "idle"
      BY <2>1, <2>2, <3>1 DEF NoConflict, TypeOK
    <3>3. QED
      BY <3>1, <3>2 DEF FaultFree
  <2>10. ASSUME NEW w \in Workers, NEW c \in Chunks, SendPush(w, c)
         PROVE  FaultFree'
    <3>1. /\ pc' = [pc EXCEPT ![w] = "push_open"] /\ arg' = [arg EXCEPT ![w] = c]
          /\ waits' = waits \union {w} /\ UNCHANGED <<part, acked, done>>
          /\ \A x \in waits : Pushing(x)
      BY <2>10 DEF SendPush
    <3>2. \A x \in Workers : ~Completing(x)
      BY <2>3, <3>1
    <3>3. QED
      BY <2>1, <2>3, <3>1, <3>2 DEF FaultFree, TypeOK
  <2>11. ASSUME NEW w \in Workers, SendComplete(w)
         PROVE  FaultFree'
    <3>1. /\ pc' = [pc EXCEPT ![w] = "open"] /\ arg' = [arg EXCEPT ![w] = 1]
          /\ waits = {} /\ waits' = {w} /\ UNCHANGED <<part, acked, done>>
          /\ done = "no" /\ \A c \in Chunks : acked[c] = "yes"
      BY <2>11 DEF SendComplete
    <3>2. \A x \in Workers : pc[x] = "idle"
      BY <2>3, <3>1
    <3>3. \A c \in Chunks : part[c] = "full"
      BY <2>3, <3>1, <3>2
    <3>4. QED
      BY <2>1, <3>1, <3>2, <3>3 DEF FaultFree, TypeOK
  <2>12. ASSUME NEW w \in Workers, Timeout(w) \/ Crash(w)
         PROVE  FALSE
    BY <2>2, <2>12 DEF Timeout, Crash, Fails
  <2>13. CASE UNCHANGED vars
    BY <2>3, <2>13 DEF vars, FaultFree
  <2>14. QED
    BY <2>4, <2>5, <2>6, <2>7, <2>8, <2>9, <2>10, <2>11, <2>12, <2>13 DEF Next, Step, Send
<1>3. QED
  BY <1>1, <1>2, Invariance, PTL DEF Spec

(* A client that keeps to the protocol is told of a missing part only      *)
(* after a fault (MSG_ERROR_PATH_NOT_EXISTS of sliceComplete).             *)
THEOREM MissingOnlyAfterFaultHolds == Spec => MissingOnlyAfterFault
<1> DEFINE After == \A w \in Workers : w \in waits /\ Missing(w) /\ spoiled = "no" => faults' > 0
<1>1. TypeOK /\ TypeOK' /\ FaultFree /\ [Next]_vars => [After]_vars
  <2> SUFFICES ASSUME TypeOK, TypeOK', FaultFree, Next, NEW w \in Workers, Missing(w), spoiled = "no"
               PROVE  faults' > 0
    OBVIOUS
  <2>1. faults # 0
    <3>1. pc[w] = "append" /\ part[arg[w]] = "none" /\ arg[w] \in Chunks /\ arg[w] >= arg[w]
      BY DEF Missing, TypeOK
    <3>2. Completing(w)
      BY <3>1 DEF Completing, CompleteSteps
    <3>3. part[arg[w]] # "full"
      BY <3>1
    <3>4. QED
      BY <3>1, <3>2, <3>3 DEF FaultFree
  <2>2. faults' = faults \/ faults' = faults + 1
    BY DEF Next, Step, Send, SendPush, SendComplete, Timeout, PushOpen, PushWrite, Fails,
           CompleteOpen, CompleteAppend, CompleteRemove, CompleteClose, Crash, vars
  <2>3. QED
    BY <2>1, <2>2 DEF TypeOK
<1>2. QED
  BY <1>1, TypeCorrect, FaultFreeInvariance, PTL DEF Spec, MissingOnlyAfterFault
=============================================================================
