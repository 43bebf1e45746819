--------------------------- MODULE FileTreeProofs ---------------------------
(* The walk of FileTree removes what it was asked to, and an undisturbed   *)
(* one succeeds: for every set of paths, every tree and any workers.       *)
EXTENDS FileTree, SequenceTheorems, TLAPS

-----------------------------------------------------------------------------
(* Paths.                                                                  *)

(* The directory of a path is a path, one name shorter.                    *)
LEMMA ParentPath ==
  ASSUME NEW q \in Paths, q # Root
  PROVE  /\ Len(q) \in Nat \ {0}
         /\ Parent(q) \in Paths
         /\ Len(Parent(q)) = Len(q) - 1
         /\ Length[Parent(q)] < Length[q]
         /\ Length[q] \in Nat /\ Length[Parent(q)] \in Nat
         /\ Parent(q) # q
<1>1. q \in Seq(STRING) /\ Len(q) \in Nat \ {0}
  BY PathsAssumption, EmptySeq DEF Root
<1>2. Parent(q) \in Paths
  BY <1>1, PathsAssumption DEF Parent
<1>3. Len(Parent(q)) = Len(q) - 1
  <2>1. \A i \in 1..(Len(q) - 1) : q[i] \in STRING
    BY <1>1
  <2>2. Len(SubSeq(q, 1, Len(q) - 1)) = IF 1 <= Len(q) - 1 THEN Len(q) - 1 - 1 + 1 ELSE 0
    BY <1>1, <2>1, SubSeqProperties
  <2>3. Len(SubSeq(q, 1, Len(q) - 1)) = Len(q) - 1
    <3>1. CASE Len(q) = 1
      BY <2>2, <3>1
    <3>2. CASE Len(q) # 1
      <4> \A n \in Nat \ {0} : n # 1 => 1 <= n - 1 /\ n - 1 - 1 + 1 = n - 1
        OBVIOUS
      <4>1. 1 <= Len(q) - 1 /\ Len(q) - 1 - 1 + 1 = Len(q) - 1
        BY <1>1, <3>2, Zenon
      <4>2. QED
        BY <2>2, <4>1, Zenon
    <3>3. QED
      BY <3>1, <3>2
  <2>4. QED
    BY <2>3 DEF Parent
<1>4. Parent(q) # q
  BY <1>1, <1>3
<1>5. Below(Parent(q), q)
  BY <1>1, <1>3 DEF Below, Parent
<1>6. QED
  BY <1>1, <1>2, <1>3, <1>4, <1>5, PathsAssumption

(* Every path lies below itself.                                           *)
LEMMA BelowSelf ==
  ASSUME NEW p \in Paths
  PROVE  Below(p, p)
BY PathsAssumption, SubSeqFull DEF Below

(* What lies in a directory below p lies below p.                          *)
LEMMA BelowChild ==
  ASSUME NEW p \in Paths, NEW q \in Paths, q # Root, Below(p, Parent(q))
  PROVE  Below(p, q)
<1>1. p \in Seq(STRING) /\ q \in Seq(STRING) /\ Len(p) \in Nat
  BY PathsAssumption
<1>2. SubSeq(Parent(q), 1, Len(p)) = SubSeq(q, 1, Len(p))
  <2>1. CASE Len(p) = 0
    BY <2>1, SubSeqEmpty
  <2>2. CASE Len(p) # 0
    BY <1>1, <2>2, ParentPath, SubSeqOfSubSeq DEF Below, Parent
  <2>3. QED
    BY <2>1, <2>2
<1>3. QED
  BY <1>1, <1>2, ParentPath DEF Below

(* Between a path and one below it lies a child of the first.              *)
LEMMA ChildBetween ==
  ASSUME NEW p \in Paths, NEW q \in Paths, Below(p, q), p # q
  PROVE  \E c \in Paths \ {Root} : Parent(c) = p /\ Below(c, q)
<1> DEFINE c == SubSeq(q, 1, Len(p) + 1)
<1>1. p \in Seq(STRING) /\ q \in Seq(STRING) /\ Len(p) \in Nat /\ Len(q) \in Nat
  BY PathsAssumption
<1>2. Len(p) < Len(q)
  <2>1. Len(p) # Len(q)
    BY <1>1, SubSeqFull DEF Below
  <2>2. QED
    BY <1>1, <2>1 DEF Below
<1>3. c \in Paths /\ c \in Seq(STRING)
  BY <1>1, <1>2, PathsAssumption
<1>4. Len(c) = Len(p) + 1
  <2>1. \A i \in 1..(Len(p) + 1) : q[i] \in STRING
    BY <1>1, <1>2
  <2>2. Len(c) = IF 1 <= Len(p) + 1 THEN Len(p) + 1 - 1 + 1 ELSE 0
    BY <1>1, <2>1, SubSeqProperties
  <2>3. QED
    BY <1>1, <2>2
<1>5. c # Root
  <2>1. Len(<<>>) = 0
    BY EmptySeq
  <2>2. Len(c) # 0
    BY <1>1, <1>4
  <2>3. QED
    BY <2>1, <2>2 DEF Root
<1>6. Parent(c) = p
  <2>1. SubSeq(c, 1, Len(p)) = SubSeq(q, 1, Len(p))
    <3>1. CASE Len(p) = 0
      BY <3>1, SubSeqEmpty
    <3>2. CASE Len(p) # 0
      <4>1. 1 \in 1..Len(q) /\ Len(p) + 1 \in 1..Len(q)
        BY <1>1, <1>2
      <4>2. 1 \in 1..(Len(p) + 1) - 1 + 1 /\ Len(p) \in 1..(Len(p) + 1) - 1 + 1
        BY <1>1, <3>2
      <4>3. SubSeq(c, 1, Len(p)) = SubSeq(q, 1 + 1 - 1, 1 + Len(p) - 1)
        BY <1>1, <1>3, <4>1, <4>2, SubSeqOfSubSeq
      <4>4. 1 + 1 - 1 = 1 /\ 1 + Len(p) - 1 = Len(p)
        BY <1>1
      <4>5. QED
        BY <4>3, <4>4
    <3>3. QED
      BY <3>1, <3>2
  <2>2. Len(c) - 1 = Len(p)
    BY <1>1, <1>4
  <2>3. QED
    BY <2>1, <2>2 DEF Below, Parent
<1>7. Below(c, q)
  BY <1>1, <1>2, <1>4 DEF Below
<1>8. QED
  BY <1>3, <1>5, <1>6, <1>7

(* Below a path lies everything that lies below its children; what lies    *)
(* below p and is not p has a parent there.                                *)
LEMMA BelowParent ==
  ASSUME NEW p \in Paths, NEW q \in Paths, Below(p, q), p # q
  PROVE  q # Root /\ Below(p, Parent(q))
<1>1. p \in Seq(STRING) /\ q \in Seq(STRING) /\ Len(p) \in Nat /\ Len(q) \in Nat
  BY PathsAssumption
<1>2. Len(p) < Len(q)
  <2>1. Len(p) # Len(q)
    BY <1>1, SubSeqFull DEF Below
  <2>2. QED
    BY <1>1, <2>1 DEF Below
<1>3. q # Root
  BY <1>1, <1>2, EmptySeq DEF Root
<1>4. SubSeq(Parent(q), 1, Len(p)) = SubSeq(q, 1, Len(p))
  <2>1. CASE Len(p) = 0
    BY <2>1, SubSeqEmpty
  <2>2. CASE Len(p) # 0
    BY <1>1, <1>2, <1>3, <2>2, ParentPath, SubSeqOfSubSeq, PathsAssumption DEF Parent
  <2>3. QED
    BY <2>1, <2>2
<1>5. QED
  BY <1>1, <1>2, <1>3, <1>4, ParentPath DEF Below

(* No path lies below one of its children.                                 *)
LEMMA NotBelowChild ==
  ASSUME NEW q \in Paths, q # Root
  PROVE  ~Below(q, Parent(q))
BY ParentPath DEF Below

-----------------------------------------------------------------------------
(* Types.                                                                  *)

ControlOK == /\ pc \in [Workers -> Steps \union {"idle"}]
             /\ req \in [Workers -> Request]
             /\ reply \in [Workers -> Replies]

TouchedOK == /\ kind \in [Paths -> {"none", "file", "dir"}]
             /\ disturbed \in SUBSET Workers

(* A new request has no walk yet.                                          *)
LEMMA NewRequestType ==
  ASSUME NEW o \in Ops, NEW p \in Paths
  PROVE  NewRequest(o, p) \in Request
BY PathsAssumption DEF NewRequest, Request

(* Answering and going on keep the types of the control state.             *)
LEMMA AnswerType ==
  ASSUME TypeOK, NEW w \in Workers, NEW code \in Replies, Answer(w, code)
  PROVE  ControlOK'
<1>1. NoRequest \in Request
  BY NewRequestType, PathsAssumption DEF NoRequest, Ops
<1>2. QED
  BY <1>1 DEF TypeOK, Answer, ControlOK, NoReplies, Replies

LEMMA GotoType ==
  ASSUME TypeOK, NEW w \in Workers, NEW step \in Steps, NEW r \in Request, Goto(w, step, r)
  PROVE  ControlOK'
BY DEF TypeOK, Goto, ControlOK, NoReplies, Replies

(* So does the end of a round of the walk.                                 *)
LEMMA ProceedType ==
  ASSUME TypeOK, NEW w \in Workers, NEW r \in Request, Proceed(w, r)
  PROVE  ControlOK'
BY GotoType, AnswerType DEF Proceed, Steps, Replies

(* The file system's calls keep the types of its state.                    *)
LEMMA PutType ==
  ASSUME TypeOK, NEW w \in Workers, NEW p \in Paths, NEW k \in {"none", "file", "dir"}, Put(w, p, k)
  PROVE  TouchedOK'
BY DEF TypeOK, Put, TouchedOK

LEMMA TouchedType ==
  ASSUME TypeOK, UNCHANGED Touched
  PROVE  TouchedOK'
BY DEF TypeOK, Touched, TouchedOK

(* Every action keeps the types.                                           *)
LEMMA TypeStep ==
  ASSUME TypeOK, [Next]_vars
  PROVE  TypeOK'
<1> SUFFICES ControlOK' /\ TouchedOK'
  BY DEF TypeOK, ControlOK, TouchedOK
<1> USE DEF Steps, Replies
<1>1. ASSUME NEW w \in Workers, NEW p \in Paths, NEW o \in {"delete", "clear"}, TreeBegin(w, o, p)
      PROVE  ControlOK' /\ TouchedOK'
  BY <1>1, NewRequestType, AnswerType, GotoType DEF TreeBegin, Ops, TypeOK, TouchedOK
<1>2. ASSUME NEW w \in Workers, NEW p \in Paths, NEW o \in {"create_file", "create_dir"},
             CreateBegin(w, o, p)
      PROVE  ControlOK' /\ TouchedOK'
  BY <1>2, NewRequestType, AnswerType, GotoType DEF CreateBegin, Ops, TypeOK, TouchedOK
<1>3. ASSUME NEW w \in Workers, Make(w)
      PROVE  ControlOK' /\ TouchedOK'
  <2>1. req[w].target \in Paths
    BY DEF TypeOK, Request
  <2>2. TouchedOK'
    BY <1>3, <2>1, PutType, TouchedType DEF Make
  <2>3. ControlOK'
    BY <1>3, AnswerType DEF Make
  <2>4. QED
    BY <2>2, <2>3
<1>4. ASSUME NEW w \in Workers, Stat(w)
      PROVE  ControlOK' /\ TouchedOK'
  <2>1. req[w] \in Request /\ [req[w] EXCEPT !.stack = {req[w].target}, !.later = {}] \in Request
    BY ZenonT(60) DEF TypeOK, Request
  <2>2. QED
    BY <1>4, <2>1, AnswerType, GotoType, TouchedType DEF Stat
<1>5. ASSUME NEW w \in Workers, WipeDelete(w) \/ WipeClear(w)
      PROVE  ControlOK' /\ TouchedOK'
  <2>1. req[w].target \in Paths
    BY DEF TypeOK, Request
  <2>2. QED
    BY <1>5, <2>1, AnswerType, PutType, TouchedType DEF WipeDelete, WipeClear
<1>6. ASSUME NEW w \in Workers, Open(w)
      PROVE  ControlOK' /\ TouchedOK'
  <2>1. PICK p \in req[w].stack :
          \/ ~IsDir(p) /\ Answer(w, "SYSTEM")
          \/ IsDir(p) /\ Goto(w, "list", [req[w] EXCEPT !.stack = @ \ {p}, !.cur = p,
                                            !.left = Children(p), !.subs = "no"])
    BY <1>6 DEF Open
  <2>2. [req[w] EXCEPT !.stack = @ \ {p}, !.cur = p, !.left = Children(p), !.subs = "no"] \in Request
    BY ZenonT(60) DEF TypeOK, Request, Children
  <2>3. QED
    BY <1>6, <2>1, <2>2, AnswerType, GotoType, TouchedType DEF Open
<1>7. ASSUME NEW w \in Workers, List(w)
      PROVE  ControlOK' /\ TouchedOK'
  <2> DEFINE Seen(e) == [req[w] EXCEPT !.left = @ \ {e}]
  <2>1. PICK e \in req[w].left \union (Children(req[w].cur) \ req[w].stack) :
          \/ ~Exists(e) /\ Answer(w, "SYSTEM")
          \/ kind[e] = "file" /\ Goto(w, "unlink", [Seen(e) EXCEPT !.entry = e])
          \/ IsDir(e) /\ Goto(w, "list", [Seen(e) EXCEPT !.stack = @ \union {e}, !.subs = "yes"])
    BY <1>7 DEF List
  <2>2. e \in Paths
    BY DEF TypeOK, Request, Children
  <2>3. /\ [Seen(e) EXCEPT !.entry = e] \in Request
        /\ [Seen(e) EXCEPT !.stack = @ \union {e}, !.subs = "yes"] \in Request
    BY <2>2, ZenonT(60) DEF TypeOK, Request
  <2>4. QED
    BY <1>7, <2>1, <2>3, AnswerType, GotoType, TouchedType DEF List
<1>8. ASSUME NEW w \in Workers, Unlink(w)
      PROVE  ControlOK' /\ TouchedOK'
  <2>1. req[w].entry \in Paths /\ [req[w] EXCEPT !.entry = Root] \in Request
    BY PathsAssumption, ZenonT(60) DEF TypeOK, Request
  <2>2. QED
    BY <1>8, <2>1, AnswerType, GotoType, PutType, TouchedType DEF Unlink
<1>9. ASSUME NEW w \in Workers, ListEnd(w)
      PROVE  ControlOK' /\ TouchedOK'
  <2> DEFINE listed == [req[w] EXCEPT !.left = {}, !.subs = "no"]
  <2>1. listed \in Request /\ [listed EXCEPT !.later = @ \union {req[w].cur}] \in Request
    <3>1. listed \in Request
      BY ZenonT(60) DEF TypeOK, Request
    <3>2. req[w].cur \in Paths
      BY DEF TypeOK, Request
    <3> HIDE DEF listed
    <3>3. [listed EXCEPT !.later = @ \union {req[w].cur}] \in Request
      BY <3>1, <3>2 DEF Request
    <3>4. QED
      BY <3>1, <3>3
  <2>2. QED
    BY <1>9, <2>1, GotoType, ProceedType, TouchedType DEF ListEnd
<1>10. ASSUME NEW w \in Workers, Rmdir(w)
       PROVE  ControlOK' /\ TouchedOK'
  <2>1. req[w] \in Request /\ req[w].cur \in Paths
    BY DEF TypeOK, Request
  <2>2. QED
    BY <1>10, <2>1, AnswerType, ProceedType, PutType, TouchedType DEF Rmdir
<1>11. ASSUME NEW w \in Workers, Sweep(w)
       PROVE  ControlOK' /\ TouchedOK'
  <2>1. PICK d \in Longest(req[w].later) :
          \/ CanRmdir(d) /\ Put(w, d, "none") /\ Proceed(w, [req[w] EXCEPT !.later = @ \ {d}])
          \/ ~CanRmdir(d) /\ Answer(w, "SYSTEM") /\ UNCHANGED Touched
    BY <1>11 DEF Sweep
  <2>2. d \in Paths /\ [req[w] EXCEPT !.later = @ \ {d}] \in Request
    BY ZenonT(60) DEF Longest, TypeOK, Request
  <2>3. QED
    BY <2>1, <2>2, AnswerType, ProceedType, PutType, TouchedType
<1>12. ASSUME NEW w \in Workers, Crash(w)
       PROVE  ControlOK' /\ TouchedOK'
  BY <1>12, AnswerType, TouchedType DEF Crash
<1>13. CASE UNCHANGED vars
  BY <1>13 DEF vars, TypeOK, ControlOK, TouchedOK
<1>14. QED
  BY <1>1, <1>2, <1>3, <1>4, <1>5, <1>6, <1>7, <1>8, <1>9, <1>10, <1>11, <1>12, <1>13
     DEF Next, Work, DeleteBegin, ClearBegin

(* Types hold initially.                                                   *)
LEMMA TypeInit ==
  ASSUME Init
  PROVE  TypeOK
BY NewRequestType, PathsAssumption DEF Init, TypeOK, NoRequest, Ops, NoReplies, Replies

(* Type correctness.                                                       *)
THEOREM TypeCorrect == Spec => []TypeOK
<1>1. Init => TypeOK
  BY TypeInit
<1>2. TypeOK /\ [Next]_vars => TypeOK'
  BY TypeStep
<1>3. QED
  BY <1>1, <1>2, PTL DEF Spec

-----------------------------------------------------------------------------
(* The tree.                                                               *)

(* Removing an empty directory or a file, and making something in a        *)
(* directory, keeps the tree.                                              *)
LEMMA PutTree ==
  ASSUME TypeOK, IsTree, NEW w \in Workers, NEW p \in Paths, NEW k \in {"none", "file", "dir"},
         Put(w, p, k),
         \/ k = "none" /\ CanRemove(p)
         \/ k # "none" /\ ParentIsDir(p) /\ ~IsDir(p)
  PROVE  IsTree'
<1> SUFFICES ASSUME NEW a \in Paths, NEW b \in Paths, Below(a, b), a # b, kind'[b] # "none"
             PROVE  kind'[a] = "dir"
  BY DEF IsTree, Exists, IsDir
<1>1. \A x \in Paths : kind'[x] = IF x = p THEN k ELSE kind[x]
  BY DEF Put, TypeOK
<1>2. CASE k = "none"
  <2>1. b # p /\ Exists(b) /\ IsDir(a)
    BY <1>1, <1>2 DEF IsTree, Exists
  <2>2. a # p
    <3> SUFFICES ASSUME a = p PROVE FALSE
      OBVIOUS
    <3>1. Children(p) = {}
      BY <1>2, <2>1 DEF CanRemove, CanRmdir, IsDir
    <3>2. PICK c \in Paths \ {Root} : Parent(c) = p /\ Below(c, b)
      BY ChildBetween
    <3>3. Exists(c)
      BY <2>1, <3>2 DEF IsTree, Exists, IsDir
    <3>4. QED
      BY <3>1, <3>2, <3>3 DEF Children
  <2>3. QED
    BY <1>1, <2>1, <2>2 DEF IsDir
<1>3. CASE k # "none"
  <2>1. a # p /\ IsDir(a)
    <3>1. CASE b = p
      <4>1. p # Root /\ Below(a, Parent(p)) /\ IsDir(Parent(p)) /\ Parent(p) \in Paths
        BY <1>3, <3>1, BelowParent, ParentPath DEF ParentIsDir
      <4>2. QED
        BY <3>1, <4>1 DEF IsTree, IsDir, Exists
    <3>2. CASE b # p
      BY <1>1, <1>3, <3>2 DEF IsTree, Exists, IsDir
    <3>3. QED
      BY <3>1, <3>2
  <2>2. QED
    BY <1>1, <2>1 DEF IsDir
<1>4. QED
  BY <1>2, <1>3

(* Every action keeps the tree.                                            *)
LEMMA TreeStep ==
  ASSUME TypeOK, IsTree, [Next]_vars
  PROVE  IsTree'
<1>1. CASE kind' = kind
  BY <1>1 DEF IsTree, Exists, IsDir
<1>2. ASSUME NEW w \in Workers, Make(w), kind' # kind
      PROVE  IsTree'
  <2>1. req[w].target \in Paths
    BY DEF TypeOK, Request
  <2>2. \E k \in {"file", "dir"} : Put(w, req[w].target, k)
    BY <1>2 DEF Make, Touched
  <2>3. ParentIsDir(req[w].target) /\ ~Exists(req[w].target)
    BY <1>2 DEF Make, Touched
  <2>4. QED
    BY <2>1, <2>2, <2>3, PutTree DEF Exists, IsDir
<1>3. ASSUME NEW w \in Workers, WipeDelete(w), kind' # kind
      PROVE  IsTree'
  <2>1. req[w].target \in Paths
    BY DEF TypeOK, Request
  <2>2. QED
    BY <1>3, <2>1, PutTree DEF WipeDelete, Touched
<1>4. ASSUME NEW w \in Workers, WipeClear(w), kind' # kind
      PROVE  IsTree'
  <2>1. req[w].target \in Paths
    BY DEF TypeOK, Request
  <2>2. QED
    BY <1>4, <2>1, PutTree DEF WipeClear, Touched
<1>5. ASSUME NEW w \in Workers, Unlink(w), kind' # kind
      PROVE  IsTree'
  <2>1. req[w].entry \in Paths
    BY DEF TypeOK, Request
  <2>2. QED
    BY <1>5, <2>1, PutTree DEF Unlink, Touched
<1>6. ASSUME NEW w \in Workers, Rmdir(w), kind' # kind
      PROVE  IsTree'
  <2>1. req[w].cur \in Paths
    BY DEF TypeOK, Request
  <2>2. QED
    BY <1>6, <2>1, PutTree DEF Rmdir, Touched, CanRemove
<1>7. ASSUME NEW w \in Workers, Sweep(w), kind' # kind
      PROVE  IsTree'
  <2>1. PICK d \in req[w].later : CanRmdir(d) /\ Put(w, d, "none")
    BY <1>7 DEF Sweep, Longest, Touched
  <2>2. d \in Paths
    BY DEF TypeOK, Request
  <2>3. QED
    BY <2>1, <2>2, PutTree DEF CanRemove
<1>8. QED
  BY <1>1, <1>2, <1>3, <1>4, <1>5, <1>6, <1>7
     DEF Next, Work, DeleteBegin, ClearBegin, TreeBegin, CreateBegin, Stat, Open, List, ListEnd,
         Crash, Touched, vars

-----------------------------------------------------------------------------
(* The other workers' walks.                                               *)

(* A step of another worker leaves the walk of v as it is, and what lies   *)
(* below its target too unless v is disturbed.                             *)
LEMMA OtherWorker ==
  ASSUME TypeOK, TypeOK', NEW w \in Workers, NEW v \in Workers \ {w},
         pc'[v] = pc[v], req'[v] = req[v], WalkInv(v), QuietInv(v),
         \/ kind' = kind /\ (v \in disturbed' <=> v \in disturbed)
         \/ \E p \in Paths, k \in {"none", "file", "dir"} : Put(w, p, k)
  PROVE  WalkInv(v)' /\ QuietInv(v)'
<1> DEFINE t == req[v].target
<1>0. t \in Paths /\ req[v] \in Request
  BY DEF TypeOK, Request
<1>1. WalkInv(v)'
  BY DEF WalkInv, Known, Active, InList, Walking
<1>2. ASSUME v \notin disturbed', pc[v] # "idle"
      PROVE  /\ v \notin disturbed
             /\ \A x \in Paths : Below(t, x) => kind'[x] = kind[x] /\ Children(x)' = Children(x)
  <2>1. v \notin disturbed
    BY <1>2 DEF Put
  <2>2. \A x \in Paths : Below(t, x) => kind'[x] = kind[x]
    BY <1>2 DEF Put, TypeOK
  <2>3. ASSUME NEW x \in Paths, Below(t, x)
        PROVE  Children(x)' = Children(x)
    <3>1. \A c \in Paths \ {Root} : Parent(c) = x => kind'[c] = kind[c]
      BY <1>0, <2>2, <2>3, BelowChild
    <3>2. QED
      BY <3>1 DEF Children, Exists
  <2>4. QED
    BY <2>1, <2>2, <2>3
<1>3. QuietInv(v)'
  <2> SUFFICES ASSUME v \notin disturbed'
               PROVE  StillThere(v)' /\ FoundOnce(v)' /\ Kept(v)' /\ Accounted(v)'
    BY DEF QuietInv
  <2>1. CASE pc[v] \in {"idle", "make"}
    BY <2>1 DEF StillThere, FoundOnce, Kept, Accounted, WalkSteps
  <2>2. CASE pc[v] \in {"stat", "wipe"}
    BY <1>0, <1>2, <2>2, BelowSelf
       DEF StillThere, FoundOnce, Kept, Accounted, WalkSteps, QuietInv, Exists
  <2>3. CASE pc[v] \in WalkSteps
    <3>1. \A d \in Known(v) : d \in Paths /\ Below(t, d)
      BY <1>0, <2>3 DEF WalkInv, Known, Request
    <3>2. Active(v) => req[v].cur \in Known(v)
      BY DEF Known
    <3>3. v \notin disturbed /\ StillThere(v) /\ FoundOnce(v) /\ Kept(v) /\ Accounted(v)
      BY <1>2, <2>3 DEF QuietInv, WalkSteps
    <3>4. \A x \in Paths : Below(t, x) => kind'[x] = kind[x] /\ Children(x)' = Children(x)
      BY <1>2, <2>3 DEF WalkSteps
    <3>5. Known(v)' = Known(v) /\ (Active(v)' <=> Active(v))
      BY DEF Known, Active
    <3>6. \A e \in Paths : pc[v] \in {"list", "unlink"} /\ InList(v, e) => Below(t, e)
      BY <1>0, <3>1, <3>2, BelowChild DEF InList, Active
    <3>7. StillThere(v)'
      <4>1. pc[v] \in {"list", "unlink"} => \A e \in req[v].left : Exists(e)'
        BY <1>0, <3>3, <3>4, <3>6 DEF StillThere, WalkInv, Exists, InList
      <4>2. pc[v] = "unlink" => kind'[req[v].entry] = "file"
        BY <1>0, <3>3, <3>4, <3>6 DEF StillThere, WalkInv, InList
      <4>3. \A d \in Known(v) : IsDir(d)'
        BY <2>3, <3>1, <3>3, <3>4 DEF StillThere, IsDir
      <4>4. req[v].op = "clear" => IsDir(t)'
        BY <1>0, <2>3, <3>3, <3>4, BelowSelf DEF StillThere, IsDir
      <4>5. QED
        BY <2>3, <3>5, <4>1, <4>2, <4>3, <4>4 DEF StillThere, WalkSteps
    <3>8. FoundOnce(v)'
      BY <3>3, <3>5 DEF FoundOnce, Listed
    <3>9. Kept(v)'
      BY <1>0, <2>3, <3>1, <3>3, <3>4, <3>5, BelowSelf DEF Kept, Known
    <3>10. Accounted(v)'
      BY <1>0, <3>1, <3>2, <3>3, <3>4 DEF Accounted, Active
    <3>11. QED
      BY <3>7, <3>8, <3>9, <3>10
  <2>4. QED
    BY <2>1, <2>2, <2>3 DEF TypeOK, Steps, WalkSteps
<1>4. QED
  BY <1>1, <1>3

-----------------------------------------------------------------------------
(* A worker's own walk: between two directories.                           *)

In(tree, d) == {q \in Paths \ {Root} : Parent(q) = d /\ tree[q] # "none"}
ListedIn(r, d) == d \in r.later \/ (r.op = "clear" /\ d = r.target)

(* What WalkInv and QuietInv say of a request r when no directory is being *)
(* listed or removed; a delete with nothing left has removed its target.   *)
WalkOK(r) ==
  /\ r.op \in {"delete", "clear"}
  /\ \A d \in r.stack \union r.later : Below(r.target, d)
  /\ r.op = "delete" => r.stack \union r.later = {} \/ r.target \in r.stack \union r.later
  /\ r.op = "clear" => r.target \notin r.later
  /\ r.target \in r.stack => r.stack = {r.target} /\ r.later = {}

QuietOK(tree, r) ==
  /\ \A d \in r.stack \union r.later : tree[d] = "dir"
  /\ r.op = "clear" => tree[r.target] = "dir"
  /\ r.stack \intersect r.later = {}
  /\ \A d \in r.stack \union r.later : d = r.target \/ ListedIn(r, Parent(d))
  /\ \A d \in r.later : In(tree, d) \subseteq r.stack \union r.later
  /\ r.op = "clear" => \/ r.target \in r.stack \union r.later
                       \/ In(tree, r.target) \subseteq r.stack \union r.later

(* An answered request has nothing left to keep.                           *)
LEMMA Answered ==
  ASSUME NEW w \in Workers, pc'[w] \in {"idle", "make"}
  PROVE  WalkInv(w)' /\ QuietInv(w)'
BY DEF WalkInv, Walking, Steps, WalkSteps, QuietInv, StillThere, FoundOnce, Kept, Accounted

LEMMA AnswerKeeps ==
  ASSUME TypeOK, NEW w \in Workers, NEW code, Answer(w, code)
  PROVE  WalkInv(w)' /\ QuietInv(w)'
<1>1. pc'[w] = "idle"
  BY DEF Answer, TypeOK
<1>2. QED
  BY <1>1, Answered

(* The request that goes on to the next directory.                         *)
LEMMA RoundKeeps ==
  ASSUME NEW w \in Workers, pc'[w] \in {"open", "sweep"},
         pc'[w] = "open" => req'[w].stack # {},
         pc'[w] = "sweep" => req'[w].stack = {} /\ req'[w].later # {},
         WalkOK(req'[w]), w \notin disturbed' => QuietOK(kind', req'[w])
  PROVE  WalkInv(w)' /\ QuietInv(w)'
<1>1. Known(w)' = req'[w].stack \union req'[w].later /\ ~Active(w)'
  BY DEF Known, Active
<1>2. WalkInv(w)'
  BY <1>1 DEF WalkInv, WalkOK
<1>3. ASSUME w \notin disturbed'
      PROVE  StillThere(w)' /\ FoundOnce(w)' /\ Kept(w)' /\ Accounted(w)'
  <2>1. StillThere(w)'
    BY <1>1, <1>3 DEF StillThere, QuietOK, IsDir
  <2>2. FoundOnce(w)'
    BY <1>1, <1>3 DEF FoundOnce, Listed, ListedIn, QuietOK
  <2>3. Kept(w)'
    BY <1>1, <1>3 DEF Kept, QuietOK, In, Children, Exists
  <2>4. QED
    BY <2>1, <2>2, <2>3 DEF Accounted
<1>4. QED
  BY <1>2, <1>3 DEF QuietInv

LEMMA ProceedKeeps ==
  ASSUME TypeOK, NEW w \in Workers, NEW r \in Request, Proceed(w, r),
         WalkOK(r), w \notin disturbed' => QuietOK(kind', r)
  PROVE  WalkInv(w)' /\ QuietInv(w)'
<1>1. CASE Answer(w, "SUCCESS")
  BY <1>1, AnswerKeeps
<1>2. CASE r.stack # {} /\ Goto(w, "open", r)
  <2>1. pc'[w] = "open" /\ req'[w] = r
    BY <1>2 DEF Goto, TypeOK
  <2>2. QED
    BY <1>2, <2>1, RoundKeeps
<1>3. CASE r.stack = {} /\ r.later # {} /\ Goto(w, "sweep", r)
  <2>1. pc'[w] = "sweep" /\ req'[w] = r
    BY <1>3 DEF Goto, TypeOK
  <2>2. QED
    BY <1>3, <2>1, RoundKeeps
<1>4. QED
  BY <1>1, <1>2, <1>3 DEF Proceed

-----------------------------------------------------------------------------
(* A worker's own walk: its steps.                                         *)

LEMMA TreeBeginKeeps ==
  ASSUME TypeOK, NEW w \in Workers, NEW p \in Paths, NEW o \in {"delete", "clear"}, TreeBegin(w, o, p)
  PROVE  WalkInv(w)' /\ QuietInv(w)'
<1>1. CASE ~Exists(p)
  BY <1>1, AnswerKeeps DEF TreeBegin
<1>2. CASE Exists(p)
  <2>1. /\ pc'[w] = "stat"
        /\ req'[w].op = o /\ req'[w].target = p
        /\ kind' = kind
    BY <1>2 DEF TreeBegin, Goto, NewRequest, TypeOK
  <2>2. QED
    BY <1>2, <2>1 DEF WalkInv, Walking, WalkSteps, QuietInv, StillThere, FoundOnce, Kept,
                      Accounted, Exists
<1>3. QED
  BY <1>1, <1>2

LEMMA StatKeeps ==
  ASSUME TypeOK, NEW w \in Workers, WalkInv(w), Stat(w)
  PROVE  WalkInv(w)' /\ QuietInv(w)'
<1> DEFINE r == req[w]
<1>0. r \in Request /\ r.op \in {"delete", "clear"} /\ r.target \in Paths /\ kind' = kind
  BY DEF Stat, WalkInv, Walking, Steps, TypeOK, Request, Touched
<1>1. CASE Answer(w, "SYSTEM")
  BY <1>1, AnswerKeeps
<1>2. CASE kind[r.target] = "file" /\ Goto(w, "wipe", r)
  <2>1. pc'[w] = "wipe" /\ req'[w] = r
    BY <1>2 DEF Goto, TypeOK
  <2>2. QED
    BY <1>0, <1>2, <2>1 DEF WalkInv, Walking, WalkSteps, QuietInv, StillThere, FoundOnce, Kept,
                            Accounted
<1>3. CASE IsDir(r.target) /\ Goto(w, "open", [r EXCEPT !.stack = {r.target}, !.later = {}])
  <2>1. /\ pc'[w] = "open"
        /\ req'[w].stack = {r.target} /\ req'[w].later = {}
        /\ req'[w].op = r.op /\ req'[w].target = r.target
    BY <1>0, <1>3 DEF Goto, TypeOK, Request
  <2>2. WalkOK(req'[w])
    BY <1>0, <2>1, BelowSelf DEF WalkOK
  <2>3. QuietOK(kind', req'[w])
    BY <1>0, <1>3, <2>1 DEF QuietOK, IsDir
  <2>4. QED
    BY <2>1, <2>2, <2>3, RoundKeeps
<1>4. QED
  BY <1>1, <1>2, <1>3 DEF Stat

LEMMA OpenKeeps ==
  ASSUME TypeOK, NEW w \in Workers, WalkInv(w), QuietInv(w), Open(w)
  PROVE  WalkInv(w)' /\ QuietInv(w)'
<1> DEFINE r == req[w]
<1>0. /\ r \in Request /\ r.target \in Paths /\ r.stack \subseteq Paths /\ r.later \subseteq Paths
      /\ pc[w] = "open" /\ kind' = kind /\ disturbed' = disturbed
      /\ Known(w) = r.stack \union r.later /\ ~Active(w)
  BY DEF Open, TypeOK, Request, Touched, Known, Active
<1>1. PICK p \in r.stack :
        \/ ~IsDir(p) /\ Answer(w, "SYSTEM")
        \/ IsDir(p) /\ Goto(w, "list", [r EXCEPT !.stack = @ \ {p}, !.cur = p,
                                                 !.left = Children(p), !.subs = "no"])
  BY DEF Open
<1>2. CASE ~IsDir(p) /\ Answer(w, "SYSTEM")
  BY <1>2, AnswerKeeps
<1>3. CASE IsDir(p) /\ Goto(w, "list", [r EXCEPT !.stack = @ \ {p}, !.cur = p,
                                                 !.left = Children(p), !.subs = "no"])
  <2>1. /\ pc'[w] = "list"
        /\ req'[w].op = r.op /\ req'[w].target = r.target /\ req'[w].stack = r.stack \ {p}
        /\ req'[w].cur = p /\ req'[w].left = Children(p) /\ req'[w].subs = "no"
        /\ req'[w].later = r.later
    BY <1>0, <1>3 DEF Goto, TypeOK, Request
  <2>2. Known(w)' = Known(w) /\ Active(w)' /\ p \in Paths
    BY <1>0, <2>1 DEF Known, Active
  <2>3. WalkInv(w)'
    <3>1. \A e \in Children(p) : InList(w, e)'
      BY <2>1 DEF InList, Children
    <3>2. QED
      BY <1>0, <2>1, <2>2, <3>1 DEF WalkInv, Walking, WalkSteps, Steps
  <2>4. ASSUME w \notin disturbed'
        PROVE  StillThere(w)' /\ FoundOnce(w)' /\ Kept(w)' /\ Accounted(w)'
    <3>1. StillThere(w) /\ FoundOnce(w) /\ Kept(w)
      BY <1>0, <2>4 DEF QuietInv
    <3>2. StillThere(w)'
      BY <1>0, <2>1, <2>2, <3>1 DEF StillThere, WalkSteps, IsDir, Exists, Children
    <3>3. FoundOnce(w)'
      BY <1>0, <2>1, <2>2, <3>1 DEF FoundOnce, Listed, WalkSteps, WalkInv
    <3>4. Kept(w)'
      BY <1>0, <2>1, <2>2, <3>1 DEF Kept, WalkSteps, Children, Exists
    <3>5. Children(p) \intersect r.stack = {}
      <4> SUFFICES ASSUME NEW e \in Paths \ {Root}, Parent(e) = p, e \in r.stack
                   PROVE  FALSE
        BY DEF Children
      <4>1. e # r.target
        BY <1>0, NotBelowChild DEF WalkInv, WalkSteps
      <4>2. p \notin r.later /\ (p = r.target => r.stack = {p})
        BY <1>0, <3>1 DEF FoundOnce, WalkInv, WalkSteps
      <4>3. e # p
        BY ParentPath
      <4>4. e = r.target \/ Listed(w, p)
        BY <1>0, <3>1 DEF FoundOnce, WalkSteps
      <4>5. QED
        BY <4>1, <4>2, <4>3, <4>4 DEF Listed
    <3>6. Accounted(w)'
      BY <1>0, <2>1, <3>5 DEF Accounted, Children, Exists
    <3>7. QED
      BY <3>2, <3>3, <3>4, <3>6
  <2>5. QED
    BY <2>3, <2>4 DEF QuietInv
<1>4. QED
  BY <1>1, <1>2, <1>3

LEMMA ListKeeps ==
  ASSUME TypeOK, NEW w \in Workers, WalkInv(w), QuietInv(w), List(w)
  PROVE  WalkInv(w)' /\ QuietInv(w)'
<1> DEFINE r == req[w]
           Seen(e) == [r EXCEPT !.left = @ \ {e}]
<1>0. /\ r \in Request /\ r.target \in Paths /\ r.stack \subseteq Paths /\ r.later \subseteq Paths
      /\ r.cur \in Paths
      /\ pc[w] = "list" /\ kind' = kind /\ disturbed' = disturbed
      /\ Known(w) = r.stack \union r.later \union {r.cur} /\ Active(w)
  BY DEF List, TypeOK, Request, Touched, Known, Active
<1>1. PICK e \in r.left \union (Children(r.cur) \ r.stack) :
        \/ ~Exists(e) /\ Answer(w, "SYSTEM")
        \/ kind[e] = "file" /\ Goto(w, "unlink", [Seen(e) EXCEPT !.entry = e])
        \/ IsDir(e) /\ Goto(w, "list", [Seen(e) EXCEPT !.stack = @ \union {e}, !.subs = "yes"])
  BY DEF List
<1>2. e \in Paths \ {Root} /\ Parent(e) = r.cur
  BY <1>0, <1>1 DEF WalkInv, InList, Children
<1>3. e # r.target /\ e # r.cur /\ Below(r.target, e)
  <2>1. Below(r.target, r.cur)
    BY <1>0 DEF WalkInv, WalkSteps
  <2>2. QED
    BY <1>0, <1>2, <2>1, BelowChild, ParentPath, NotBelowChild
<1>4. CASE ~Exists(e) /\ Answer(w, "SYSTEM")
  BY <1>4, AnswerKeeps
<1>5. CASE kind[e] = "file" /\ Goto(w, "unlink", [Seen(e) EXCEPT !.entry = e])
  <2>1. /\ pc'[w] = "unlink"
        /\ req'[w].op = r.op /\ req'[w].target = r.target /\ req'[w].stack = r.stack
        /\ req'[w].cur = r.cur /\ req'[w].left = r.left \ {e} /\ req'[w].subs = r.subs
        /\ req'[w].later = r.later /\ req'[w].entry = e
    BY <1>0, <1>5 DEF Goto, TypeOK, Request
  <2>2. Known(w)' = Known(w) /\ Active(w)' /\ (\A x : InList(w, x)' <=> InList(w, x))
    BY <1>0, <2>1 DEF Known, Active, InList
  <2>3. WalkInv(w)'
    BY <1>0, <1>2, <2>1, <2>2 DEF WalkInv, Walking, WalkSteps, Steps, InList
  <2>4. ASSUME w \notin disturbed'
        PROVE  StillThere(w)' /\ FoundOnce(w)' /\ Kept(w)' /\ Accounted(w)'
    <3>1. StillThere(w) /\ FoundOnce(w) /\ Kept(w) /\ Accounted(w)
      BY <1>0, <2>4 DEF QuietInv
    <3>2. StillThere(w)'
      BY <1>0, <1>5, <2>1, <2>2, <3>1 DEF StillThere, WalkSteps, IsDir, Exists
    <3>3. FoundOnce(w)'
      BY <1>0, <2>1, <2>2, <3>1 DEF FoundOnce, Listed, WalkSteps
    <3>4. Kept(w)'
      BY <1>0, <2>1, <2>2, <3>1 DEF Kept, WalkSteps, Children, Exists
    <3>5. Accounted(w)'
      BY <1>0, <2>1, <3>1 DEF Accounted, Children, Exists
    <3>6. QED
      BY <3>2, <3>3, <3>4, <3>5
  <2>5. QED
    BY <2>3, <2>4 DEF QuietInv
<1>6. CASE IsDir(e) /\ Goto(w, "list", [Seen(e) EXCEPT !.stack = @ \union {e}, !.subs = "yes"])
  <2>1. /\ pc'[w] = "list"
        /\ req'[w].op = r.op /\ req'[w].target = r.target /\ req'[w].stack = r.stack \union {e}
        /\ req'[w].cur = r.cur /\ req'[w].left = r.left \ {e} /\ req'[w].subs = "yes"
        /\ req'[w].later = r.later
    BY <1>0, <1>6 DEF Goto, TypeOK, Request
  <2>2. /\ Known(w)' = Known(w) \union {e} /\ Active(w)'
        /\ \A x : InList(w, x)' <=> InList(w, x)
    BY <1>0, <2>1 DEF Known, Active, InList
  <2>3. WalkInv(w)'
    BY <1>0, <1>3, <2>1, <2>2 DEF WalkInv, Walking, WalkSteps, Steps
  <2>4. ASSUME w \notin disturbed'
        PROVE  StillThere(w)' /\ FoundOnce(w)' /\ Kept(w)' /\ Accounted(w)'
    <3>1. StillThere(w) /\ FoundOnce(w) /\ Kept(w) /\ Accounted(w)
      BY <1>0, <2>4 DEF QuietInv
    <3>2. StillThere(w)'
      BY <1>0, <1>6, <2>1, <2>2, <3>1 DEF StillThere, WalkSteps, IsDir, Exists
    <3>3. e \notin r.later
      BY <1>0, <1>2, <1>3, <3>1 DEF FoundOnce, Listed, WalkInv, WalkSteps
    <3>4. FoundOnce(w)'
      BY <1>0, <1>2, <1>3, <2>1, <2>2, <3>1, <3>3 DEF FoundOnce, Listed, WalkSteps
    <3>5. Kept(w)'
      BY <1>0, <2>1, <2>2, <3>1 DEF Kept, WalkSteps, Children, Exists
    <3>6. Accounted(w)'
      BY <1>0, <2>1, <3>1 DEF Accounted, Children, Exists
    <3>7. QED
      BY <3>2, <3>4, <3>5, <3>6
  <2>5. QED
    BY <2>3, <2>4 DEF QuietInv
<1>7. QED
  BY <1>1, <1>4, <1>5, <1>6

LEMMA UnlinkKeeps ==
  ASSUME TypeOK, NEW w \in Workers, WalkInv(w), QuietInv(w), Unlink(w)
  PROVE  WalkInv(w)' /\ QuietInv(w)'
<1> DEFINE r == req[w]
           e == r.entry
<1>0. /\ r \in Request /\ r.target \in Paths /\ e \in Paths
      /\ pc[w] = "unlink"
      /\ Known(w) = r.stack \union r.later \union {r.cur} /\ Active(w)
  BY DEF Unlink, TypeOK, Request, Known, Active
<1>1. CASE Answer(w, "SYSTEM")
  BY <1>1, AnswerKeeps
<1>2. CASE Put(w, e, "none") /\ Goto(w, "list", [r EXCEPT !.entry = Root])
  <2>1. /\ pc'[w] = "list"
        /\ req'[w].op = r.op /\ req'[w].target = r.target /\ req'[w].stack = r.stack
        /\ req'[w].cur = r.cur /\ req'[w].left = r.left /\ req'[w].subs = r.subs
        /\ req'[w].later = r.later
    BY <1>0, <1>2 DEF Goto, TypeOK, Request
  <2>2. Known(w)' = Known(w) /\ Active(w)' /\ (\A x : InList(w, x)' <=> InList(w, x))
    BY <1>0, <2>1 DEF Known, Active, InList
  <2>3. WalkInv(w)'
    BY <1>0, <2>1, <2>2 DEF WalkInv, Walking, WalkSteps, Steps
  <2>4. ASSUME w \notin disturbed'
        PROVE  StillThere(w)' /\ FoundOnce(w)' /\ Kept(w)' /\ Accounted(w)'
    <3>1. StillThere(w) /\ FoundOnce(w) /\ Kept(w) /\ Accounted(w)
      BY <1>2, <2>4 DEF QuietInv, Put
    <3>2. /\ \A x \in Paths : kind'[x] = IF x = e THEN "none" ELSE kind[x]
          /\ \A x : Children(x)' = Children(x) \ {e}
      BY <1>2 DEF Put, TypeOK, Children, Exists
    <3>3. /\ kind[e] = "file"
          /\ \A d \in Known(w) : d \in Paths /\ IsDir(d)
          /\ \A x \in r.left : x \in Paths /\ x # e /\ Exists(x)
      BY <1>0, <3>1 DEF StillThere, Accounted, WalkSteps, Request, Known
    <3>4. StillThere(w)'
      BY <1>0, <2>1, <2>2, <3>1, <3>2, <3>3 DEF StillThere, WalkSteps, IsDir, Exists
    <3>5. FoundOnce(w)'
      BY <1>0, <2>1, <2>2, <3>1 DEF FoundOnce, Listed, WalkSteps
    <3>6. Kept(w)'
      BY <1>0, <2>1, <2>2, <3>1, <3>2 DEF Kept, WalkSteps
    <3>7. Accounted(w)'
      BY <1>0, <2>1, <3>1, <3>2 DEF Accounted
    <3>8. QED
      BY <3>4, <3>5, <3>6, <3>7
  <2>5. QED
    BY <2>3, <2>4 DEF QuietInv
<1>3. QED
  BY <1>1, <1>2 DEF Unlink

LEMMA ListEndKeeps ==
  ASSUME TypeOK, NEW w \in Workers, WalkInv(w), QuietInv(w), ListEnd(w)
  PROVE  WalkInv(w)' /\ QuietInv(w)'
<1> DEFINE r == req[w]
           listed == [r EXCEPT !.left = {}, !.subs = "no"]
           kept == [listed EXCEPT !.later = @ \union {r.cur}]
<1>0. /\ r \in Request /\ r.target \in Paths /\ r.stack \subseteq Paths /\ r.later \subseteq Paths
      /\ r.cur \in Paths /\ r.op \in {"delete", "clear"} /\ r.subs \in {"no", "yes"}
      /\ pc[w] = "list" /\ kind' = kind /\ disturbed' = disturbed
      /\ Known(w) = r.stack \union r.later \union {r.cur} /\ Active(w)
  BY DEF ListEnd, TypeOK, Request, Touched, Known, Active, WalkInv, Walking, Steps
<1>1. /\ listed \in Request
      /\ listed.op = r.op /\ listed.target = r.target /\ listed.stack = r.stack
      /\ listed.later = r.later /\ listed.cur = r.cur /\ listed.subs = "no"
  BY <1>0 DEF Request
<1>2. /\ kept \in Request
      /\ kept.op = r.op /\ kept.target = r.target /\ kept.stack = r.stack
      /\ kept.later = r.later \union {r.cur}
  <2> HIDE DEF listed
  <2>1. QED
    BY <1>0, <1>1 DEF Request
<1>3. w \notin disturbed' =>
        /\ StillThere(w) /\ FoundOnce(w) /\ Kept(w) /\ Accounted(w)
        /\ Children(r.cur) \subseteq r.stack
        /\ \A x : Children(x) = In(kind', x)
  <2>1. w \notin disturbed' =>
          StillThere(w) /\ FoundOnce(w) /\ Kept(w) /\ Accounted(w)
    BY <1>0 DEF QuietInv
  <2>2. w \notin disturbed' => r.left = {}
    BY <1>0, <2>1 DEF ListEnd, StillThere
  <2>3. QED
    BY <1>0, <2>1, <2>2 DEF Accounted, Children, In, Exists
<1> HIDE DEF listed, kept
<1>4. CASE r.op = "clear" /\ r.cur = r.target /\ Proceed(w, listed)
  <2>1. WalkOK(listed)
    BY <1>0, <1>1, <1>4 DEF WalkOK, WalkInv, WalkSteps
  <2>2. w \notin disturbed' => QuietOK(kind', listed)
    BY <1>0, <1>1, <1>3, <1>4
       DEF QuietOK, StillThere, FoundOnce, Listed, ListedIn, WalkInv, WalkSteps, IsDir
  <2>3. QED
    BY <1>1, <1>4, <2>1, <2>2, ProceedKeeps
<1>5. CASE (r.op = "delete" \/ r.cur # r.target) /\ r.subs = "yes" /\ Proceed(w, kept)
  <2>1. WalkOK(kept)
    BY <1>0, <1>2, <1>5 DEF WalkOK, WalkInv, WalkSteps
  <2>2. ASSUME w \notin disturbed'
        PROVE  QuietOK(kind', kept)
    <3>1. /\ \A d \in kept.stack \union kept.later : kind'[d] = "dir"
          /\ kept.op = "clear" => kind'[kept.target] = "dir"
      BY <1>0, <1>2, <1>3, <2>2 DEF StillThere, IsDir, WalkSteps
    <3>2. /\ kept.stack \intersect kept.later = {}
          /\ \A d \in kept.stack \union kept.later : d = kept.target \/ ListedIn(kept, Parent(d))
      BY <1>0, <1>2, <1>3, <2>2 DEF FoundOnce, Listed, ListedIn, WalkSteps
    <3>3. /\ \A d \in kept.later : In(kind', d) \subseteq kept.stack \union kept.later
          /\ kept.op = "clear" => \/ kept.target \in kept.stack \union kept.later
                                  \/ In(kind', kept.target) \subseteq kept.stack \union kept.later
      BY <1>0, <1>2, <1>3, <2>2 DEF Kept, WalkSteps
    <3>4. QED
      BY <3>1, <3>2, <3>3 DEF QuietOK
  <2>3. QED
    BY <1>2, <1>5, <2>1, <2>2, ProceedKeeps
<1>6. CASE (r.op = "delete" \/ r.cur # r.target) /\ r.subs = "no" /\ Goto(w, "rmdir", listed)
  <2>1. pc'[w] = "rmdir" /\ req'[w] = listed
    BY <1>6 DEF Goto, TypeOK
  <2>2. Known(w)' = Known(w) /\ Active(w)'
    BY <1>0, <1>1, <2>1 DEF Known, Active
  <2>3. WalkInv(w)'
    BY <1>0, <1>1, <1>6, <2>1, <2>2 DEF WalkInv, Walking, WalkSteps, Steps
  <2>4. ASSUME w \notin disturbed'
        PROVE  StillThere(w)' /\ FoundOnce(w)' /\ Kept(w)' /\ Accounted(w)'
    <3>1. StillThere(w)'
      BY <1>0, <1>1, <1>3, <2>1, <2>2, <2>4 DEF StillThere, WalkSteps, IsDir
    <3>2. FoundOnce(w)'
      BY <1>0, <1>1, <1>3, <2>1, <2>2, <2>4 DEF FoundOnce, Listed, WalkSteps
    <3>3. Kept(w)'
      BY <1>0, <1>1, <1>3, <2>1, <2>2, <2>4 DEF Kept, WalkSteps, Children, Exists
    <3>4. Accounted(w)'
      BY <1>0, <1>1, <1>3, <1>6, <2>1, <2>4 DEF Accounted, Children, Exists
    <3>5. QED
      BY <3>1, <3>2, <3>3, <3>4
  <2>5. QED
    BY <2>3, <2>4 DEF QuietInv
<1>7. QED
  BY <1>0, <1>4, <1>5, <1>6 DEF ListEnd, listed, kept

LEMMA RmdirKeeps ==
  ASSUME TypeOK, NEW w \in Workers, WalkInv(w), QuietInv(w), Rmdir(w)
  PROVE  WalkInv(w)' /\ QuietInv(w)'
<1> DEFINE r == req[w]
           d == r.cur
<1>0. /\ r \in Request /\ r.target \in Paths /\ r.stack \subseteq Paths /\ r.later \subseteq Paths
      /\ d \in Paths /\ r.op \in {"delete", "clear"} /\ pc[w] = "rmdir"
      /\ Known(w) = r.stack \union r.later \union {d} /\ Active(w)
  BY DEF Rmdir, TypeOK, Request, Known, Active, WalkInv, Walking, Steps
<1>1. CASE Answer(w, "SYSTEM")
  BY <1>1, AnswerKeeps
<1>2. CASE Put(w, d, "none") /\ Proceed(w, r)
  <2>1. WalkOK(r)
    BY <1>0 DEF WalkOK, WalkInv, WalkSteps
  <2>2. ASSUME w \notin disturbed'
        PROVE  QuietOK(kind', r)
    <3>1. StillThere(w) /\ FoundOnce(w) /\ Kept(w) /\ Accounted(w)
      BY <1>2, <2>2 DEF QuietInv, Put
    <3>2. /\ \A x \in Paths : kind'[x] = IF x = d THEN "none" ELSE kind[x]
          /\ \A x : In(kind', x) = Children(x) \ {d}
      BY <1>2 DEF Put, TypeOK, Children, Exists, In
    <3>3. d \notin r.stack \union r.later /\ (r.op = "clear" => d # r.target)
      BY <1>0, <3>1 DEF FoundOnce, WalkInv, WalkSteps
    <3>4. /\ \A x \in r.stack \union r.later : kind'[x] = "dir"
          /\ r.op = "clear" => kind'[r.target] = "dir"
      BY <1>0, <3>1, <3>2, <3>3 DEF StillThere, IsDir, WalkSteps
    <3>5. ASSUME NEW x \in r.stack, Parent(x) = d, x # r.target
          PROVE  FALSE
      <4>1. x # Root
        <5> SUFFICES ASSUME x = Root PROVE FALSE
          OBVIOUS
        <5>1. Below(r.target, Root)
          BY <1>0 DEF WalkInv, WalkSteps
        <5>2. QED
          BY <1>0, <3>5, <5>1, BelowParent
      <4>2. IsDir(x) /\ x \in Paths
        BY <1>0, <3>1 DEF StillThere, WalkSteps
      <4>3. x \in Children(d)
        BY <3>5, <4>1, <4>2 DEF Children, Exists, IsDir
      <4>4. QED
        BY <1>0, <3>1, <4>3 DEF Accounted
    <3>6. /\ r.stack \intersect r.later = {}
          /\ \A x \in r.stack \union r.later : x = r.target \/ ListedIn(r, Parent(x))
      BY <1>0, <3>1, <3>5 DEF FoundOnce, Listed, ListedIn, WalkSteps
    <3>7. /\ \A x \in r.later : In(kind', x) \subseteq r.stack \union r.later
          /\ r.op = "clear" => \/ r.target \in r.stack \union r.later
                               \/ In(kind', r.target) \subseteq r.stack \union r.later
      BY <1>0, <3>1, <3>2, <3>3 DEF Kept, WalkSteps
    <3>8. QED
      BY <3>4, <3>6, <3>7 DEF QuietOK
  <2>3. QED
    BY <1>0, <1>2, <2>1, <2>2, ProceedKeeps
<1>3. QED
  BY <1>1, <1>2 DEF Rmdir

(* The longest path of a set has none of the set in it, and a set of paths *)
(* below p has p as its longest only if it has no other.                   *)
LEMMA LongestIsDeepest ==
  ASSUME NEW S \in SUBSET Paths, NEW d \in Longest(S)
  PROVE  /\ d \in S
         /\ \A e \in S : e # Root => Parent(e) # d
         /\ (\A e \in S : Below(d, e)) => S = {d}
<1>1. d \in S /\ \A e \in S : Length[e] <= Length[d]
  BY DEF Longest
<1>2. ASSUME NEW e \in S, e # Root, Parent(e) = d
      PROVE  FALSE
  BY <1>1, <1>2, ParentPath
<1>3. ASSUME \A e \in S : Below(d, e)
      PROVE  S = {d}
  <2>1. \A e \in S : e # d => Length[d] < Length[e] /\ Length[e] \in Nat /\ Length[d] \in Nat
    BY <1>1, <1>3, PathsAssumption
  <2>2. QED
    BY <1>1, <2>1
<1>4. QED
  BY <1>1, <1>2, <1>3

LEMMA SweepKeeps ==
  ASSUME TypeOK, NEW w \in Workers, WalkInv(w), QuietInv(w), Sweep(w)
  PROVE  WalkInv(w)' /\ QuietInv(w)'
<1> DEFINE r == req[w]
<1>0. /\ r \in Request /\ r.target \in Paths /\ r.later \subseteq Paths /\ r.stack = {}
      /\ r.op \in {"delete", "clear"} /\ pc[w] = "sweep"
      /\ Known(w) = r.later /\ ~Active(w)
  BY DEF Sweep, TypeOK, Request, Known, Active, WalkInv, Walking, Steps
<1>1. PICK d \in Longest(r.later) :
        \/ CanRmdir(d) /\ Put(w, d, "none") /\ Proceed(w, [r EXCEPT !.later = @ \ {d}])
        \/ ~CanRmdir(d) /\ Answer(w, "SYSTEM") /\ UNCHANGED Touched
  BY DEF Sweep
<1>2. CASE Answer(w, "SYSTEM")
  BY <1>2, AnswerKeeps
<1>3. CASE Put(w, d, "none") /\ Proceed(w, [r EXCEPT !.later = @ \ {d}])
  <2> DEFINE rest == [r EXCEPT !.later = @ \ {d}]
  <2>1. /\ rest \in Request
        /\ rest.op = r.op /\ rest.target = r.target /\ rest.stack = {} /\ rest.later = r.later \ {d}
    BY <1>0 DEF Request
  <2>2. d \in r.later /\ d \in Paths
    BY <1>0, <1>1, LongestIsDeepest
  <2> HIDE DEF rest
  <2>3. WalkOK(rest)
    <3>1. \A x \in r.later : Below(r.target, x)
      BY <1>0 DEF WalkInv, WalkSteps
    <3>2. r.op = "delete" => r.target \in r.later
      BY <1>0 DEF WalkInv, WalkSteps
    <3>3. d = r.target => r.later = {d}
      BY <1>0, <1>1, <3>1, LongestIsDeepest
    <3>4. r.op = "clear" => r.target \notin r.later
      BY <1>0 DEF WalkInv, WalkSteps
    <3>5. QED
      BY <1>0, <2>1, <3>1, <3>2, <3>3, <3>4 DEF WalkOK
  <2>4. ASSUME w \notin disturbed'
        PROVE  QuietOK(kind', rest)
    <3>1. StillThere(w) /\ FoundOnce(w) /\ Kept(w)
      BY <1>3, <2>4 DEF QuietInv, Put
    <3>2. /\ \A x \in Paths : kind'[x] = IF x = d THEN "none" ELSE kind[x]
          /\ \A x : In(kind', x) = Children(x) \ {d}
      BY <1>3 DEF Put, TypeOK, Children, Exists, In
    <3>3. r.op = "clear" => r.target \notin r.later
      BY <1>0 DEF WalkInv, WalkSteps
    <3>4. /\ \A x \in r.later \ {d} : kind'[x] = "dir"
          /\ r.op = "clear" => kind'[r.target] = "dir"
      BY <1>0, <2>2, <3>1, <3>2, <3>3 DEF StillThere, IsDir, WalkSteps
    <3>5. \A x \in r.later \ {d} : x = r.target \/ ListedIn(rest, Parent(x))
      <4> SUFFICES ASSUME NEW x \in r.later \ {d}, x # r.target
                   PROVE  ListedIn(rest, Parent(x))
        OBVIOUS
      <4>1. Below(r.target, x)
        BY <1>0 DEF WalkInv, WalkSteps
      <4>2. x # Root
        BY <1>0, <4>1, BelowParent
      <4>3. Parent(x) # d
        BY <1>0, <1>1, <4>2, LongestIsDeepest
      <4>4. Listed(w, Parent(x))
        BY <1>0, <3>1 DEF FoundOnce, WalkSteps
      <4>5. QED
        BY <2>1, <4>3, <4>4 DEF Listed, ListedIn
    <3>6. /\ \A x \in r.later : Children(x) \subseteq r.later
          /\ r.op = "clear" => Children(r.target) \subseteq r.later
      BY <1>0, <3>1, <3>3 DEF Kept, WalkSteps
    <3>7. QED
      BY <1>0, <2>1, <3>2, <3>4, <3>5, <3>6 DEF QuietOK
  <2>5. Proceed(w, rest)
    BY <1>3 DEF rest
  <2>6. QED
    BY <2>1, <2>3, <2>4, <2>5, ProceedKeeps
<1>4. QED
  BY <1>1, <1>2, <1>3

-----------------------------------------------------------------------------
(* The invariant.                                                          *)

StepOf(w) ==
  \/ \E p \in Paths : DeleteBegin(w, p) \/ ClearBegin(w, p)
  \/ \E p \in Paths \ {Root}, o \in {"create_file", "create_dir"} : CreateBegin(w, o, p)
  \/ Work(w)
  \/ Crash(w)

(* A step of one worker moves no other, and reaches the others' trees only *)
(* through Put.                                                            *)
LEMMA StepFrame ==
  ASSUME TypeOK, NEW w \in Workers, StepOf(w), NEW v \in Workers \ {w}
  PROVE  /\ pc'[v] = pc[v] /\ req'[v] = req[v] /\ reply'[v] = "none"
         /\ \/ kind' = kind /\ (v \in disturbed' <=> v \in disturbed)
            \/ \E p \in Paths, k \in {"none", "file", "dir"} : Put(w, p, k)
<1> DEFINE Still == kind' = kind /\ (v \in disturbed' <=> v \in disturbed)
           Puts == \E p \in Paths, k \in {"none", "file", "dir"} : Put(w, p, k)
           Moves == (\E code \in Replies : Answer(w, code)) \/ (\E s \in Steps : \E r : Goto(w, s, r))
<1>1. Moves => pc'[v] = pc[v] /\ req'[v] = req[v] /\ reply'[v] = "none"
  BY DEF TypeOK, Answer, Goto, NoReplies
<1>2. \A r : Proceed(w, r) => Moves
  BY DEF Proceed, Steps, Replies
<1>3. UNCHANGED Touched => Still
  BY DEF Touched
<1>4. \A p \in Paths : \A o : TreeBegin(w, o, p) \/ CreateBegin(w, o, p) => Moves /\ Still
  BY DEF TreeBegin, CreateBegin, Steps, Replies
<1>5. /\ req[w].target \in Paths /\ req[w].entry \in Paths /\ req[w].cur \in Paths
      /\ req[w].later \subseteq Paths
  BY DEF TypeOK, Request
<1>6. ASSUME Make(w) \/ WipeDelete(w) \/ WipeClear(w)
      PROVE  Moves /\ (Still \/ Puts)
  BY <1>3, <1>5, <1>6 DEF Make, WipeDelete, WipeClear, Replies
<1>7. ASSUME Stat(w) \/ Open(w) \/ List(w) \/ Crash(w)
      PROVE  Moves /\ Still
  BY <1>3, <1>7 DEF Stat, Open, List, Crash, Steps, Replies
<1>8. ASSUME ListEnd(w)
      PROVE  Moves /\ Still
  BY <1>2, <1>3, <1>8 DEF ListEnd, Steps
<1>9. ASSUME Unlink(w) \/ Rmdir(w) \/ Sweep(w)
      PROVE  Moves /\ (Still \/ Puts)
  BY <1>2, <1>3, <1>5, <1>9 DEF Unlink, Rmdir, Sweep, Longest, Steps, Replies
<1>10. QED
  BY <1>1, <1>4, <1>6, <1>7, <1>8, <1>9 DEF StepOf, Work, DeleteBegin, ClearBegin

(* A worker's own step keeps what the invariant says of its walk.          *)
LEMMA OwnStep ==
  ASSUME TypeOK, NEW w \in Workers, WalkInv(w), QuietInv(w), StepOf(w)
  PROVE  WalkInv(w)' /\ QuietInv(w)'
<1>1. ASSUME NEW p \in Paths, DeleteBegin(w, p) \/ ClearBegin(w, p)
      PROVE  WalkInv(w)' /\ QuietInv(w)'
  BY <1>1, TreeBeginKeeps DEF DeleteBegin, ClearBegin
<1>2. ASSUME NEW p \in Paths, NEW o \in {"create_file", "create_dir"}, CreateBegin(w, o, p)
      PROVE  WalkInv(w)' /\ QuietInv(w)'
  <2>1. pc'[w] \in {"idle", "make"}
    BY <1>2 DEF CreateBegin, Answer, Goto, TypeOK
  <2>2. QED
    BY <2>1, Answered
<1>3. ASSUME Make(w) \/ WipeDelete(w) \/ WipeClear(w) \/ Crash(w)
      PROVE  WalkInv(w)' /\ QuietInv(w)'
  BY <1>3, AnswerKeeps DEF Make, WipeDelete, WipeClear, Crash
<1>4. QED
  BY <1>1, <1>2, <1>3, StatKeeps, OpenKeeps, ListKeeps, UnlinkKeeps, ListEndKeeps, RmdirKeeps,
     SweepKeeps DEF StepOf, Work

(* The invariant is inductive.                                             *)
LEMMA InvInit ==
  ASSUME Init
  PROVE  IInv
<1>1. ASSUME NEW w \in Workers
      PROVE  WalkInv(w) /\ QuietInv(w)
  BY DEF Init, WalkInv, Walking, Steps, WalkSteps, QuietInv, StillThere, FoundOnce, Kept, Accounted
<1>2. QED
  BY <1>1, TypeInit DEF Init, IInv

LEMMA InvStep ==
  ASSUME IInv, [Next]_vars
  PROVE  IInv'
<1>1. TypeOK /\ TypeOK' /\ IsTree'
  BY TypeStep, TreeStep DEF IInv
<1>2. ASSUME NEW v \in Workers
      PROVE  WalkInv(v)' /\ QuietInv(v)'
  <2>1. WalkInv(v) /\ QuietInv(v)
    BY DEF IInv
  <2>2. CASE UNCHANGED vars
    BY <2>1, <2>2 DEF vars, WalkInv, Walking, QuietInv, StillThere, FoundOnce, Kept, Accounted,
       Known, Active, InList, Listed, IsDir, Exists, Children
  <2>3. ASSUME NEW w \in Workers, StepOf(w)
        PROVE  WalkInv(v)' /\ QuietInv(v)'
    <3>1. CASE v = w
      BY <1>1, <2>1, <2>3, <3>1, OwnStep
    <3>2. CASE v # w
      BY <1>1, <2>1, <2>3, <3>2, StepFrame, OtherWorker
    <3>3. QED
      BY <3>1, <3>2
  <2>4. QED
    BY <2>2, <2>3 DEF Next, StepOf
<1>3. QED
  BY <1>1, <1>2 DEF IInv

(* The tree stays a tree, and every walk knows what it has to know of the  *)
(* directories it has still to remove.                                     *)
THEOREM Invariance == Spec => []IInv
<1>1. Init => IInv
  BY InvInit
<1>2. IInv /\ [Next]_vars => IInv'
  BY InvStep
<1>3. QED
  BY <1>1, <1>2, PTL DEF Spec

-----------------------------------------------------------------------------
(* What a walk answers.                                                    *)

(* A reply is the worker's own.                                            *)
LEMMA ReplyOfAnswer ==
  ASSUME TypeOK, NEW w \in Workers
  PROVE  /\ \A code : Answer(w, code) => reply'[w] = code
         /\ \A s, r : Goto(w, s, r) => reply'[w] = "none"
         /\ \A r : Proceed(w, r) =>
              \/ reply'[w] = "none"
              \/ reply'[w] = "SUCCESS" /\ r.stack = {} /\ r.later = {}
BY DEF TypeOK, Answer, Goto, Proceed, NoReplies

(* By itself, a walk never finds what it did not expect.                   *)
LEMMA QuietStep ==
  ASSUME IInv, NEW w \in Workers, StepOf(w), Walking(w), w \notin disturbed
  PROVE  reply'[w] # "SYSTEM"
<1> DEFINE r == req[w]
<1>1. /\ TypeOK /\ IsTree /\ WalkInv(w)
      /\ StillThere(w) /\ FoundOnce(w) /\ Kept(w) /\ Accounted(w)
      /\ r \in Request /\ r.target \in Paths /\ r.later \subseteq Paths
  BY DEF IInv, QuietInv, TypeOK, Request
<1>2. ASSUME \/ \E p \in Paths : \E o : TreeBegin(w, o, p) \/ CreateBegin(w, o, p)
             \/ Make(w)
      PROVE  FALSE
  BY <1>2 DEF TreeBegin, CreateBegin, Make, Walking, Steps
<1>3. CASE Crash(w)
  BY <1>1, <1>3, ReplyOfAnswer DEF Crash
<1>4. CASE Stat(w) \/ WipeDelete(w)
  BY <1>1, <1>4, ReplyOfAnswer DEF Stat, WipeDelete, StillThere, CanRemove
<1>5. CASE WipeClear(w)
  <2>1. kind[r.target] = "file"
    BY <1>1, <1>5 DEF StillThere, WipeClear
  <2>2. ParentIsDir(r.target)
    <3>1. r.target # Root => /\ Parent(r.target) \in Paths /\ Parent(r.target) # r.target
                             /\ Below(Parent(r.target), r.target)
      BY <1>1, ParentPath, BelowSelf, BelowChild
    <3>2. QED
      BY <1>1, <2>1, <3>1 DEF IsTree, ParentIsDir, Exists
  <2>3. QED
    BY <1>1, <1>5, <2>1, <2>2, ReplyOfAnswer DEF WipeClear, IsDir
<1>6. CASE Open(w)
  <2>1. \A p \in r.stack : IsDir(p)
    BY <1>1, <1>6 DEF StillThere, Open, Known, WalkSteps
  <2>2. QED
    BY <1>1, <1>6, <2>1, ReplyOfAnswer DEF Open
<1>7. CASE List(w)
  <2>1. \A e \in r.left \union (Children(r.cur) \ r.stack) : Exists(e)
    BY <1>1, <1>7 DEF StillThere, List, Children
  <2>2. QED
    BY <1>1, <1>7, <2>1, ReplyOfAnswer DEF List
<1>8. CASE Unlink(w)
  BY <1>1, <1>8, ReplyOfAnswer DEF Unlink, StillThere, CanRemove
<1>9. CASE ListEnd(w)
  BY <1>1, <1>9, ReplyOfAnswer DEF ListEnd
<1>10. CASE Rmdir(w)
  <2>1. CanRmdir(r.cur)
    BY <1>1, <1>10 DEF Rmdir, StillThere, Accounted, Known, Active, WalkSteps, CanRmdir
  <2>2. QED
    BY <1>1, <1>10, <2>1, ReplyOfAnswer DEF Rmdir
<1>11. CASE Sweep(w)
  <2>1. pc[w] = "sweep" /\ r.stack = {} /\ Known(w) = r.later
    BY <1>1, <1>11 DEF Sweep, WalkInv, Known, Active
  <2>2. ASSUME NEW d \in Longest(r.later)
        PROVE  CanRmdir(d)
    <3>1. d \in r.later /\ \A e \in r.later : e # Root => Parent(e) # d
      BY <1>1, LongestIsDeepest
    <3>2. IsDir(d) /\ Children(d) \subseteq r.later
      BY <1>1, <2>1, <3>1 DEF StillThere, Kept, WalkSteps
    <3>3. QED
      BY <3>1, <3>2 DEF CanRmdir, Children
  <2>3. QED
    BY <1>1, <1>11, <2>2, ReplyOfAnswer DEF Sweep
<1>12. QED
  BY <1>2, <1>3, <1>4, <1>5, <1>6, <1>7, <1>8, <1>9, <1>10, <1>11
     DEF StepOf, Work, DeleteBegin, ClearBegin

(* QuietSucceeds: a delete or clear that nobody disturbs is never answered *)
(* with an error.                                                          *)
THEOREM QuietSucceedsHolds == Spec => QuietSucceeds
<1>1. IInv /\ [Next]_vars =>
        [\A w \in Workers : Walking(w) /\ reply'[w] = "SYSTEM" => w \in disturbed]_vars
  <2> SUFFICES ASSUME IInv, NEW v \in Workers, StepOf(v),
                      NEW w \in Workers, Walking(w), reply'[w] = "SYSTEM"
               PROVE  w \in disturbed
    BY DEF Next, StepOf
  <2>1. TypeOK
    BY DEF IInv
  <2>2. v = w
    BY <2>1, StepFrame
  <2>3. QED
    BY <2>2, QuietStep
<1>2. QED
  BY <1>1, Invariance, PTL DEF Spec, QuietSucceeds

(* Nothing lies below what is not a directory, or has no children.         *)
LEMMA EmptyTree ==
  ASSUME IsTree', NEW p \in Paths, kind'[p] # "dir" \/ In(kind', p) = {}
  PROVE  EmptyIn(kind', p)
<1> SUFFICES ASSUME NEW q \in Paths, Below(p, q), q # p, kind'[q] # "none"
             PROVE  FALSE
  BY DEF EmptyIn
<1>1. kind'[p] = "dir"
  BY DEF IsTree, Exists, IsDir
<1>2. PICK c \in Paths \ {Root} : Parent(c) = p /\ Below(c, q)
  BY ChildBetween
<1>3. kind'[c] # "none"
  BY <1>2 DEF IsTree, Exists, IsDir
<1>4. QED
  BY <1>1, <1>2, <1>3 DEF In

Done(w, r) ==
  /\ r.op = "delete" => kind'[r.target] = "none" /\ EmptyIn(kind', r.target)
  /\ r.op = "clear" /\ w \notin disturbed =>
       kind'[r.target] = kind[r.target] /\ EmptyIn(kind', r.target)

(* The last directory a walk removes: a delete's target, or the only child *)
(* that was left of a clear's.                                             *)
LEMMA LastRemoved ==
  ASSUME IInv, IsTree', NEW w \in Workers, pc[w] \in WalkSteps, NEW d \in Paths,
         Known(w) = {d}, Put(w, d, "none"), req[w].op = "clear" => d # req[w].target
  PROVE  Done(w, req[w])
<1> DEFINE t == req[w].target
<1>1. TypeOK /\ t \in Paths /\ WalkInv(w) /\ QuietInv(w)
  BY DEF IInv, TypeOK, Request
<1>2. \A x \in Paths : kind'[x] = IF x = d THEN "none" ELSE kind[x]
  BY <1>1 DEF Put, TypeOK
<1>3. CASE req[w].op = "delete"
  <2>1. t = d
    BY <1>1, <1>3 DEF WalkInv
  <2>2. kind'[t] = "none"
    BY <1>1, <1>2, <2>1
  <2>3. QED
    BY <1>1, <1>3, <2>2, EmptyTree DEF Done
<1>4. CASE req[w].op = "clear"
  <2> SUFFICES ASSUME w \notin disturbed
               PROVE  kind'[t] = kind[t] /\ EmptyIn(kind', t)
    BY <1>4 DEF Done
  <2>1. Children(t) \subseteq {d}
    BY <1>1, <1>4 DEF QuietInv, Kept
  <2>2. In(kind', t) = {}
    BY <1>2, <2>1 DEF Children, Exists, In
  <2>3. QED
    BY <1>1, <1>2, <1>4, <2>2, EmptyTree
<1>5. CASE req[w].op \notin {"delete", "clear"}
  BY <1>5 DEF Done
<1>6. QED
  BY <1>3, <1>4, <1>5

(* A walk that is answered with success has done what it was asked to.     *)
LEMMA DoneStep ==
  ASSUME IInv, IsTree', NEW w \in Workers, StepOf(w), Walking(w), reply'[w] = "SUCCESS"
  PROVE  Done(w, req[w])
<1> DEFINE r == req[w]
<1>1. /\ TypeOK /\ IsTree /\ WalkInv(w) /\ QuietInv(w)
      /\ r \in Request /\ r.target \in Paths /\ r.later \subseteq Paths /\ r.cur \in Paths
  BY DEF IInv, TypeOK, Request
<1>2. ASSUME \/ \E p \in Paths : \E o : TreeBegin(w, o, p) \/ CreateBegin(w, o, p)
             \/ Make(w)
      PROVE  FALSE
  BY <1>2 DEF TreeBegin, CreateBegin, Make, Walking, Steps
<1>3. ASSUME Crash(w) \/ Stat(w) \/ Open(w) \/ List(w) \/ Unlink(w)
      PROVE  FALSE
  BY <1>1, <1>3, ReplyOfAnswer DEF Crash, Stat, Open, List, Unlink
<1>4. CASE WipeDelete(w)
  <2>1. Put(w, r.target, "none") /\ r.op = "delete"
    BY <1>1, <1>4, ReplyOfAnswer DEF WipeDelete
  <2>2. kind'[r.target] = "none"
    BY <1>1, <2>1 DEF Put, TypeOK
  <2>3. QED
    BY <1>1, <2>1, <2>2, EmptyTree DEF Done
<1>5. CASE WipeClear(w)
  <2>1. Put(w, r.target, "file") /\ r.op = "clear" /\ pc[w] = "wipe"
    BY <1>1, <1>5, ReplyOfAnswer DEF WipeClear
  <2>2. kind'[r.target] = "file"
    BY <1>1, <2>1 DEF Put, TypeOK
  <2>3. w \notin disturbed => kind[r.target] = "file"
    BY <1>1, <2>1 DEF QuietInv, StillThere
  <2>4. QED
    BY <1>1, <2>1, <2>2, <2>3, EmptyTree DEF Done
<1>6. CASE ListEnd(w)
  <2> DEFINE listed == [r EXCEPT !.left = {}, !.subs = "no"]
  <2>1. /\ listed \in Request /\ listed.stack = r.stack /\ listed.later = r.later
        /\ r.cur \in [listed EXCEPT !.later = @ \union {r.cur}].later
    BY <1>1 DEF Request
  <2>2. r.op = "clear" /\ r.cur = r.target /\ r.stack = {}
    BY <1>1, <1>6, <2>1, ReplyOfAnswer DEF ListEnd
  <2>3. kind' = kind /\ pc[w] = "list"
    BY <1>6 DEF ListEnd, Touched
  <2>4. ASSUME w \notin disturbed
        PROVE  In(kind', r.target) = {}
    <3>1. r.left = {}
      BY <1>1, <1>6, <2>3, <2>4 DEF QuietInv, StillThere, ListEnd
    <3>2. Children(r.cur) = {}
      BY <1>1, <2>2, <2>3, <2>4, <3>1 DEF QuietInv, Accounted
    <3>3. QED
      BY <2>2, <2>3, <3>2 DEF Children, Exists, In
  <2>5. QED
    BY <1>1, <2>2, <2>3, <2>4, EmptyTree DEF Done
<1>7. CASE Rmdir(w)
  <2>1. Put(w, r.cur, "none") /\ r.stack = {} /\ r.later = {} /\ pc[w] = "rmdir"
    BY <1>1, <1>7, ReplyOfAnswer DEF Rmdir
  <2>2. Known(w) = {r.cur} /\ (r.op = "clear" => r.cur # r.target)
    BY <1>1, <2>1 DEF Known, Active, WalkInv
  <2>3. QED
    BY <1>1, <2>1, <2>2, LastRemoved DEF WalkSteps
<1>8. CASE Sweep(w)
  <2>1. PICK d \in Longest(r.later) :
          CanRmdir(d) /\ Put(w, d, "none") /\ Proceed(w, [r EXCEPT !.later = @ \ {d}])
    BY <1>1, <1>8, ReplyOfAnswer DEF Sweep
  <2>2. pc[w] = "sweep" /\ r.stack = {}
    BY <1>1, <1>8 DEF Sweep, WalkInv
  <2>3. d \in r.later
    BY <2>1 DEF Longest
  <2>4. [r EXCEPT !.later = @ \ {d}].later = r.later \ {d}
    BY <1>1 DEF Request
  <2>5. r.later \ {d} = {}
    BY <1>1, <2>1, <2>4, ReplyOfAnswer
  <2>6. Known(w) = {d} /\ (r.op = "clear" => d # r.target)
    BY <1>1, <2>2, <2>3, <2>5 DEF Known, Active, WalkInv, WalkSteps
  <2>7. QED
    BY <1>1, <2>1, <2>2, <2>3, <2>6, LastRemoved DEF WalkSteps
<1>9. QED
  BY <1>2, <1>3, <1>4, <1>5, <1>6, <1>7, <1>8 DEF StepOf, Work, DeleteBegin, ClearBegin

(* AnsweredIsDone: a delete answered with success has removed its target   *)
(* and everything below it, whatever the others did; an undisturbed clear  *)
(* has removed what lay below its target and kept the target.              *)
THEOREM AnsweredIsDoneHolds == Spec => AnsweredIsDone
<1>1. IInv /\ [Next]_vars =>
        [\A w \in Workers :
           LET r == req[w] IN
           Walking(w) /\ reply'[w] = "SUCCESS" =>
             /\ r.op = "delete" => kind'[r.target] = "none" /\ EmptyIn(kind', r.target)
             /\ r.op = "clear" /\ w \notin disturbed =>
                  kind'[r.target] = kind[r.target] /\ EmptyIn(kind', r.target)]_vars
  <2> SUFFICES ASSUME IInv, NEW v \in Workers, StepOf(v), Next,
                      NEW w \in Workers, Walking(w), reply'[w] = "SUCCESS"
               PROVE  Done(w, req[w])
    BY DEF Next, StepOf, Done
  <2>1. TypeOK /\ IsTree'
    BY TreeStep DEF IInv
  <2>2. v = w
    BY <2>1, StepFrame
  <2>3. QED
    BY <2>1, <2>2, DoneStep
<1>2. QED
  BY <1>1, Invariance, PTL DEF Spec, AnsweredIsDone
=============================================================================
