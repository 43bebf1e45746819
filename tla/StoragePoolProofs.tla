-------------------------- MODULE StoragePoolProofs --------------------------
(***************************************************************************)
(* Proofs about StoragePool, for any finite set of workers and any devices.*)
(***************************************************************************)
EXTENDS StoragePool, FiniteSetTheorems, SequenceTheorems, TLAPS

USE WorkersAssumption, TypesAssumption, BoundAssumption, NoneAssumption
    DEF WorkersAssumption, TypesAssumption, BoundAssumption, NoneAssumption

-----------------------------------------------------------------------------
(* Lemmas about the operators the actions are built from.                  *)

(* The locals of an idle worker are a request.                             *)
LEMMA NoRequestType == NoRequest \in Request
<1>1. SomeType \in Types
  BY DEF SomeType
<1>2. QED
  BY <1>1 DEF NoRequest, Request, Rows

(* The locals stay a request when one field is given a value of its type.  *)
LEMMA RequestChanges ==
  ASSUME NEW r \in Request
  PROVE  /\ \A d \in Devs : [r EXCEPT !.dev = d] \in Request
         /\ \A u \in Uuids \union {None} : [r EXCEPT !.uuid = u] \in Request
         /\ \A t \in Types : [r EXCEPT !.type = t] \in Request
         /\ \A S \in SUBSET Rows : [r EXCEPT !.list = S, !.todo = S] \in Request
         /\ \A S \in SUBSET Rows : [r EXCEPT !.todo = S] \in Request
         /\ \A S \in SUBSET Rows, c \in Rows : [r EXCEPT !.cur = c, !.todo = S] \in Request
         /\ \A S \in SUBSET Rows : [r EXCEPT !.mounts = S] \in Request
BY DEF Request

(* The fields of a request have their types.                               *)
LEMMA ReqFields ==
  ASSUME NEW r \in Request
  PROVE  /\ r.dev \in Devs \union {None}
         /\ r.uuid \in Uuids \union {None}
         /\ r.type \in Types
         /\ [uuid |-> r.uuid, type |-> r.type] \in Rows
         /\ r.list \in SUBSET Rows
         /\ r.todo \in SUBSET Rows
         /\ r.cur \in Rows
         /\ r.cur.uuid \in Uuids \union {None}
         /\ r.mounts \in SUBSET Rows
BY DEF Request, Rows

(* A step, an answer and a start keep the types of pc, req and answer.     *)
ControlOK ==
  /\ pc \in [Workers -> Steps \union {"idle"}]
  /\ req \in [Workers -> Request]
  /\ \A w \in Workers : pc[w] \in ImageSteps => req[w].cur.uuid # None
  /\ answer \in {"none", "SUCCESS", "SYSTEM"}

LEMMA GotoWithType ==
  ASSUME TypeOK, NEW w \in Workers, NEW step \in Steps, NEW r \in Request, GotoWith(w, step, r),
         step \in ImageSteps => r.cur.uuid # None
  PROVE  ControlOK'
BY DEF TypeOK, GotoWith, ControlOK

LEMMA GotoType ==
  ASSUME TypeOK, NEW w \in Workers, NEW step \in Steps, Goto(w, step),
         step \in ImageSteps => req[w].cur.uuid # None
  PROVE  ControlOK'
BY DEF TypeOK, Goto, GotoWith, ControlOK

LEMMA AnswerType ==
  ASSUME TypeOK, NEW w \in Workers, NEW code \in {"none", "SUCCESS", "SYSTEM"}, Answer(w, code)
  PROVE  ControlOK'
BY NoRequestType DEF TypeOK, Answer, ControlOK, ImageSteps

LEMMA BeginType ==
  ASSUME TypeOK, NEW w \in Workers, NEW step \in Steps, NEW r \in Request, Begin(w, step, r),
         step \notin ImageSteps
  PROVE  ControlOK' /\ tidy' \in SUBSET Workers
BY DEF TypeOK, Begin, ControlOK

(* What blkid reports is a UUID of the device, or none.                    *)
LEMMA UuidType ==
  ASSUME TypeOK, NEW d \in Devs \union {None}
  PROVE  Uuid(d) \in Uuids \union {None}
BY DEF TypeOK, Uuid, Uuids

(* umount keeps the type of mounted.                                       *)
LEMMA UnmountType ==
  ASSUME TypeOK, NEW u, Unmount(u)
  PROVE  mounted' \in SUBSET Uuids
BY DEF TypeOK, Unmount

(* A union stays a stack of sets of rows when one is put on or taken off.  *)
LEMMA StackType ==
  ASSUME NEW s \in Seq(SUBSET Rows), NEW m \in SUBSET Rows
  PROVE  /\ <<m>> \o s \in Seq(SUBSET Rows)
         /\ Len(<<m>> \o s) = Len(s) + 1
         /\ s # <<>> => Tail(s) \in Seq(SUBSET Rows) /\ Len(Tail(s)) = Len(s) - 1
OBVIOUS

-----------------------------------------------------------------------------
(* Every variable keeps its type.                                          *)
THEOREM TypeCorrect == Spec => []TypeOK
<1>1. Init => TypeOK
  BY NoRequestType DEF Init, TypeOK, ImageSteps
<1>2. TypeOK /\ [Next]_vars => TypeOK'
  <2> SUFFICES ASSUME TypeOK, [Next]_vars
               PROVE  TypeOK'
    OBVIOUS
  <2> USE DEF devVars, mntVars
  <2>b. \A w \in Workers : req[w] \in Request
    BY DEF TypeOK
  <2>c. rows \in SUBSET Rows
    BY DEF TypeOK
  <2>1. ASSUME NEW w \in Workers, AppendUmount(w)
         PROVE  TypeOK'
    <3>1. ControlOK'
      BY <2>1, <2>b, GotoType DEF AppendUmount, Steps, AppendSteps, MountSteps, ImageSteps
    <3>2. QED
      BY <2>1, <3>1, UnmountType DEF AppendUmount, TypeOK, ControlOK
  <2>2. ASSUME NEW w \in Workers, AppendProbe(w)
         PROVE  TypeOK'
    <3>1. ControlOK'
      BY <2>2, <2>b, GotoWithType, UuidType, RequestChanges, ReqFields DEF AppendProbe, Steps, AppendSteps, MountSteps, ImageSteps
    <3>2. QED
      BY <2>2, <3>1 DEF AppendProbe, TypeOK, ControlOK
  <2>3. ASSUME NEW w \in Workers, AppendMkfs(w)
         PROVE  TypeOK'
    <3>1. ControlOK'
      BY <2>3, <2>b, GotoType DEF AppendMkfs, Steps, AppendSteps, MountSteps, ImageSteps
    <3>2. fs' \in [Devs -> 0..MaxGen]
      BY <2>3 DEF AppendMkfs, TypeOK
    <3>3. QED
      BY <2>3, <3>1, <3>2 DEF AppendMkfs, TypeOK, ControlOK
  <2>4. ASSUME NEW w \in Workers, AppendReprobe(w)
         PROVE  TypeOK'
    <3>1. ControlOK'
      BY <2>4, <2>b, GotoWithType, UuidType, RequestChanges, ReqFields DEF AppendReprobe, Steps, AppendSteps, MountSteps, ImageSteps
    <3>2. QED
      BY <2>4, <3>1 DEF AppendReprobe, TypeOK, ControlOK
  <2>5. ASSUME NEW w \in Workers, AppendInfo(w)
         PROVE  TypeOK'
    <3>1. ControlOK'
      BY <2>5, <2>b, GotoType, AnswerType DEF AppendInfo, Steps, AppendSteps, MountSteps, ImageSteps
    <3>2. QED
      BY <2>5, <3>1 DEF AppendInfo, TypeOK, ControlOK
  <2>6. ASSUME NEW w \in Workers, AppendInsert(w)
         PROVE  TypeOK'
    <3>1. ControlOK'
      BY <2>6, <2>b, GotoType, AnswerType DEF AppendInsert, Steps, AppendSteps, MountSteps, ImageSteps
    <3>2. QED
      BY <2>6, <3>1, <2>b, ReqFields DEF AppendInsert, TypeOK, ControlOK
  <2>7. ASSUME NEW w \in Workers, AppendSelect(w)
         PROVE  TypeOK'
    <3>1. ControlOK'
      BY <2>7, <2>b, GotoWithType, AnswerType, RequestChanges, <2>c DEF AppendSelect, Selected, Steps, AppendSteps, MountSteps, ImageSteps
    <3>2. QED
      BY <2>7, <3>1 DEF AppendSelect, Selected, TypeOK, ControlOK
  <2>8. ASSUME NEW w \in Workers, RemoveRow(w)
         PROVE  TypeOK'
    <3>1. ControlOK'
      BY <2>8, <2>b, GotoType, AnswerType DEF RemoveRow, Steps, AppendSteps, MountSteps, ImageSteps
    <3>2. QED
      BY <2>8, <3>1 DEF RemoveRow, TypeOK, ControlOK
  <2>9. ASSUME NEW w \in Workers, RemoveSelect(w)
         PROVE  TypeOK'
    <3>1. ControlOK'
      BY <2>9, <2>b, GotoWithType, AnswerType, RequestChanges, <2>c DEF RemoveSelect, Selected, Steps, AppendSteps, MountSteps, ImageSteps
    <3>2. QED
      BY <2>9, <3>1 DEF RemoveSelect, Selected, TypeOK, ControlOK
  <2>10. ASSUME NEW w \in Workers, ApplyCheck(w)
         PROVE  TypeOK'
    <3>1. ControlOK'
      BY <2>10, <2>b, GotoWithType, AnswerType, RequestChanges, ReqFields DEF ApplyCheck, Steps, AppendSteps, MountSteps, ImageSteps
    <3>2. QED
      BY <2>10, <3>1 DEF ApplyCheck, TypeOK, ControlOK
  <2>11. ASSUME NEW w \in Workers, ApplyUmountNfs(w)
         PROVE  TypeOK'
    <3>1. ControlOK'
      BY <2>11, <2>b, GotoType, AnswerType DEF ApplyUmountNfs, Steps, AppendSteps, MountSteps, ImageSteps
    <3>2. nfs' \in Seq(SUBSET Rows)
      <4>1. nfs \in Seq(SUBSET Rows)
        BY DEF TypeOK
      <4>2. nfs # <<>> => Tail(nfs) \in Seq(SUBSET Rows)
        BY <4>1, HeadTailProperties
      <4>3. QED
        BY <2>11, <4>1, <4>2 DEF ApplyUmountNfs
    <3>3. QED
      BY <2>11, <3>1, <3>2 DEF ApplyUmountNfs, TypeOK, ControlOK
  <2>12. ASSUME NEW w \in Workers, ApplyNext(w)
         PROVE  TypeOK'
    <3>1. ControlOK'
      <4>1. ASSUME NEW r \in req[w].todo, NEW step \in {"loop_off", "disk_off", "disk"},
                   GotoWith(w, step, [req[w] EXCEPT !.cur = r, !.todo = @ \ {r}])
            PROVE  ControlOK'
        <5>1. [req[w] EXCEPT !.cur = r, !.todo = @ \ {r}] \in Request
          BY <2>b, RequestChanges, ReqFields
        <5>2. QED
          BY <4>1, <5>1, GotoWithType DEF Steps, MountSteps, ImageSteps
      <4>2. \A r \in req[w].todo : r.type \in {"IMG", "BLK", "VHD"}
        BY <2>b, ReqFields, ZenonT(60) DEF Rows
      <4>3. ASSUME req[w].todo = {},
                   IF req[w].mounts = {} THEN Answer(w, "SUCCESS") ELSE Goto(w, "union")
            PROVE  ControlOK'
        BY <4>3, GotoType, AnswerType DEF Steps, MountSteps, ImageSteps
      <4>4. QED
        BY <2>12, <4>1, <4>2, <4>3 DEF ApplyNext
    <3>2. QED
      BY <2>12, <3>1 DEF ApplyNext, TypeOK, ControlOK
  <2>13. ASSUME NEW w \in Workers, LoopOff(w)
         PROVE  TypeOK'
    <3>1. ControlOK'
      BY <2>13, <2>b, GotoType DEF LoopOff, Steps, AppendSteps, MountSteps, ImageSteps
    <3>2. QED
      BY <2>13, <3>1 DEF LoopOff, TypeOK, ControlOK
  <2>14. ASSUME NEW w \in Workers, DiskOff(w)
         PROVE  TypeOK'
    <3>1. ControlOK'
      BY <2>14, <2>b, GotoType DEF DiskOff, Steps, AppendSteps, MountSteps, ImageSteps
    <3>2. QED
      BY <2>14, <3>1, UnmountType DEF DiskOff, TypeOK, ControlOK
  <2>15. ASSUME NEW w \in Workers, DiskOn(w)
         PROVE  TypeOK'
    <3>1. ControlOK'
      BY <2>15, <2>b, GotoWithType, GotoType, RequestChanges, ReqFields, ZenonT(60) DEF DiskOn, Mounted, GiveUp, Active, Steps, AppendSteps, MountSteps, ImageSteps
    <3>2. QED
      BY <2>15, <3>1, <2>b, ReqFields, ZenonT(60) DEF DiskOn, Mounted, GiveUp, Active, TypeOK, ControlOK
  <2>16. ASSUME NEW w \in Workers, ImageProbe(w)
         PROVE  TypeOK'
    <3>1. ControlOK'
      BY <2>16, GotoType DEF ImageProbe, TypeOK, Steps, AppendSteps, MountSteps, ImageSteps
    <3>2. QED
      BY <2>16, <3>1 DEF ImageProbe, TypeOK, ControlOK
  <2>17. ASSUME NEW w \in Workers, ImageAllocate(w)
         PROVE  TypeOK'
    <3>1. ControlOK'
      BY <2>17, GotoType DEF ImageAllocate, GiveUp, TypeOK, Steps, AppendSteps, MountSteps, ImageSteps
    <3>2. QED
      BY <2>17, <3>1, <2>b, ReqFields DEF ImageAllocate, GiveUp, TypeOK, ControlOK
  <2>18. ASSUME NEW w \in Workers, ImageFormat(w)
         PROVE  TypeOK'
    <3>1. ControlOK'
      BY <2>18, GotoType DEF ImageFormat, TypeOK, Steps, AppendSteps, MountSteps, ImageSteps
    <3>2. QED
      BY <2>18, <3>1 DEF ImageFormat, TypeOK, ControlOK
  <2>19. ASSUME NEW w \in Workers, LoopOn(w)
         PROVE  TypeOK'
    <3>1. ControlOK'
      BY <2>19, <2>b, GotoWithType, GotoType, RequestChanges, ReqFields, ZenonT(60) DEF LoopOn, Mounted, GiveUp, Image, Steps, AppendSteps, MountSteps, ImageSteps
    <3>2. Image(req[w].cur.uuid) \in Images
      BY <2>19, <2>b, ReqFields DEF LoopOn, TypeOK, ImageSteps, Image, Images
    <3>3. QED
      BY <2>19, <3>1, <3>2 DEF LoopOn, Mounted, GiveUp, TypeOK, ControlOK
  <2>20. ASSUME NEW w \in Workers, ApplyUnion(w)
         PROVE  TypeOK'
    <3>1. ControlOK'
      BY <2>20, <2>b, AnswerType DEF ApplyUnion, Steps, AppendSteps, MountSteps, ImageSteps
    <3>2. nfs' \in Seq(SUBSET Rows)
      <4>1. nfs \in Seq(SUBSET Rows) /\ req[w].mounts \in SUBSET Rows
        BY <2>b, ReqFields DEF TypeOK
      <4>2. <<req[w].mounts>> \o nfs \in Seq(SUBSET Rows)
        BY <4>1, StackType
      <4>3. QED
        BY <2>20, <4>1, <4>2 DEF ApplyUnion
    <3>3. QED
      BY <2>20, <3>1, <3>2 DEF ApplyUnion, TypeOK, ControlOK
  <2>21. ASSUME NEW w \in Workers, Crash(w)
         PROVE  TypeOK'
    <3>1. ControlOK'
      BY <2>21, <2>b, AnswerType DEF Crash, Steps, AppendSteps, MountSteps, ImageSteps
    <3>2. QED
      BY <2>21, <3>1 DEF Crash, TypeOK, ControlOK
  <2>22. ASSUME NEW w \in Workers, NEW d \in Devs, NEW type \in Types, AppendBegin(w, d, type)
         PROVE  TypeOK'
    <3>1. [NoRequest EXCEPT !.dev = d, !.type = type] \in Request
      BY NoRequestType DEF Request
    <3>2. ControlOK' /\ tidy' \in SUBSET Workers
      BY <2>22, <3>1, BeginType DEF AppendBegin, Steps, AppendSteps, ImageSteps
    <3>3. QED
      BY <2>22, <3>2 DEF AppendBegin, TypeOK, ControlOK
  <2>23. ASSUME NEW w \in Workers, NEW r \in rows, RemoveBegin(w, r)
         PROVE  TypeOK'
    <3>1. [NoRequest EXCEPT !.uuid = r.uuid] \in Request
      BY NoRequestType, RequestChanges DEF TypeOK, Rows
    <3>2. ControlOK' /\ tidy' \in SUBSET Workers
      BY <2>23, <3>1, BeginType DEF RemoveBegin, Steps, AppendSteps, MountSteps, ImageSteps
    <3>3. QED
      BY <2>23, <3>2 DEF RemoveBegin, TypeOK, ControlOK
  <2>24. ASSUME NEW d \in Devs, Replug(d)
         PROVE  TypeOK'
    BY <2>24 DEF Replug, TypeOK
  <2>25. CASE Reboot
    BY <2>25, NoRequestType DEF Reboot, TypeOK, ImageSteps
  <2>26. CASE UNCHANGED vars
    BY <2>26 DEF vars, TypeOK
  <2>27. QED
    BY <2>1, <2>2, <2>3, <2>4, <2>5, <2>6, <2>7, <2>8, <2>9, <2>10, <2>11, <2>12, <2>13, <2>14, <2>15, <2>16, <2>17, <2>18, <2>19, <2>20, <2>21, <2>22, <2>23, <2>24, <2>25, <2>26 DEF Next, Step
<1>3. QED
  BY <1>1, <1>2, PTL DEF Spec

-----------------------------------------------------------------------------
(* Layers on /nfs.                                                         *)

LEMMA ApplyingFinite ==
  /\ IsFiniteSet(Workers) /\ Cardinality(Workers) \in Nat
  /\ IsFiniteSet(Applying) /\ Cardinality(Applying) \in Nat
  /\ Cardinality(Applying) <= Cardinality(Workers)
<1>1. Applying \subseteq Workers
  BY DEF Applying
<1>2. QED
  BY <1>1, FS_Subset, FS_CardinalityType

(* Nobody starts to apply and /nfs and stuck stay: the bound stays.        *)
LEMMA FewerApplying ==
  ASSUME TypeOK, TypeOK', LayersBounded, UNCHANGED <<nfs, stuck>>, Applying' \subseteq Applying
  PROVE  LayersBounded'
<1>1. Cardinality(Applying') <= Cardinality(Applying) /\ Cardinality(Applying') \in Nat
  BY ApplyingFinite, FS_Subset, FS_CardinalityType
<1>2. Len(nfs) \in Nat /\ stuck \in Nat
  BY LenProperties DEF TypeOK
<1>3. QED
  BY <1>1, <1>2, ApplyingFinite DEF LayersBounded

(* Each union put on /nfs by a worker is paid for by one taken off, by an  *)
(* empty /nfs, or by a umount that failed.                                 *)
THEOREM LayersInvariance == Spec => []LayersBounded
<1>1. Init => LayersBounded
  <2> SUFFICES ASSUME Init PROVE LayersBounded
    OBVIOUS
  <2>1. Applying = {}
    BY DEF Init, Applying, MountSteps, ImageSteps
  <2>2. Len(nfs) = 0 /\ stuck = 0
    BY DEF Init
  <2>3. QED
    BY <2>1, <2>2, ApplyingFinite, FS_EmptySet DEF LayersBounded
<1>2. TypeOK /\ TypeOK' /\ LayersBounded /\ [Next]_vars => LayersBounded'
  <2> SUFFICES ASSUME TypeOK, TypeOK', LayersBounded, [Next]_vars
               PROVE  LayersBounded'
    OBVIOUS
  <2>a. /\ Len(nfs) \in Nat /\ stuck \in Nat
        /\ nfs \in Seq(SUBSET Rows)
        /\ Cardinality(Applying) \in Nat /\ Cardinality(Workers) \in Nat
    BY LenProperties, ApplyingFinite DEF TypeOK
  <2>1. ASSUME NEW w \in Workers, ApplyUmountNfs(w)
        PROVE  LayersBounded'
    <3>1. w \notin Applying /\ Applying' \subseteq Applying \union {w}
      BY <2>1 DEF ApplyUmountNfs, Answer, Goto, GotoWith, Applying, MountSteps, ImageSteps, TypeOK
    <3>2. /\ Cardinality(Applying') \in Nat
          /\ Cardinality(Applying') <= Cardinality(Applying) + 1
          /\ Cardinality(Applying') <= Cardinality(Workers)
      <4>1. /\ IsFiniteSet(Applying \union {w})
            /\ Cardinality(Applying \union {w}) = Cardinality(Applying) + 1
        BY <3>1, ApplyingFinite, FS_AddElement
      <4>2. Applying' \subseteq Workers
        BY DEF Applying
      <4>3. QED
        BY <3>1, <4>1, <4>2, ApplyingFinite, FS_Subset, FS_CardinalityType
    <3>3. CASE nfs = <<>>
      BY <2>1, <2>a, <3>2, <3>3 DEF ApplyUmountNfs, LayersBounded
    <3>4. CASE nfs # <<>> /\ nfs' = Tail(nfs) /\ UNCHANGED stuck
      <4>1. Len(nfs') = Len(nfs) - 1
        BY <2>a, <3>4, HeadTailProperties
      <4>2. QED
        BY <2>a, <3>2, <3>4, <4>1 DEF LayersBounded
    <3>5. CASE stuck' = stuck + 1 /\ UNCHANGED nfs
      BY <2>a, <3>2, <3>5 DEF LayersBounded
    <3>6. QED
      BY <2>1, <3>3, <3>4, <3>5 DEF ApplyUmountNfs
  <2>2. ASSUME NEW w \in Workers, ApplyUnion(w)
        PROVE  LayersBounded'
    <3>1. w \in Applying /\ Applying' = Applying \ {w}
      BY <2>2 DEF ApplyUnion, Answer, Applying, MountSteps, ImageSteps, TypeOK
    <3>2. Cardinality(Applying') = Cardinality(Applying) - 1
      BY <3>1, ApplyingFinite, FS_RemoveElement
    <3>3. Len(nfs') <= Len(nfs) + 1 /\ Len(nfs') \in Nat
      <4>1. req[w].mounts \in SUBSET Rows
        BY ReqFields DEF TypeOK
      <4>2. Len(<<req[w].mounts>> \o nfs) = Len(nfs) + 1
        BY <2>a, <4>1, StackType
      <4>3. QED
        BY <2>2, <2>a, <4>2 DEF ApplyUnion
    <3>4. stuck' = stuck
      BY <2>2 DEF ApplyUnion
    <3>5. QED
      BY <2>a, <3>2, <3>3, <3>4 DEF LayersBounded
  <2>3. CASE Reboot
    <3>1. Applying' = {} /\ Len(nfs') = 0 /\ stuck' = stuck
      BY <2>3 DEF Reboot, Applying, MountSteps, ImageSteps
    <3>2. QED
      BY <2>a, <3>1, FS_EmptySet DEF LayersBounded
  <2>4. ASSUME NEW w \in Workers,
               \/ AppendUmount(w) \/ AppendProbe(w) \/ AppendMkfs(w) \/ AppendReprobe(w)
               \/ AppendInfo(w) \/ AppendInsert(w) \/ AppendSelect(w)
               \/ RemoveRow(w) \/ RemoveSelect(w) \/ ApplyCheck(w) \/ Crash(w)
        PROVE  LayersBounded'
    <3>1. Applying' \subseteq Applying
      BY <2>4 DEF AppendUmount, AppendProbe, AppendMkfs, AppendReprobe, AppendInfo, AppendInsert,
                  AppendSelect, RemoveRow, RemoveSelect, ApplyCheck, Crash, Selected, Answer,
                  Goto, GotoWith, Applying, MountSteps, ImageSteps, TypeOK
    <3>2. UNCHANGED <<nfs, stuck>>
      BY <2>4 DEF AppendUmount, AppendProbe, AppendMkfs, AppendReprobe, AppendInfo, AppendInsert,
                  AppendSelect, RemoveRow, RemoveSelect, ApplyCheck, Crash, mntVars
    <3>3. QED
      BY <3>1, <3>2, FewerApplying
  <2>5. ASSUME NEW w \in Workers,
               \/ ApplyNext(w) \/ LoopOff(w) \/ DiskOff(w) \/ DiskOn(w) \/ ImageProbe(w)
               \/ ImageAllocate(w) \/ ImageFormat(w) \/ LoopOn(w)
        PROVE  LayersBounded'
    <3>1. w \in Applying
      BY <2>5 DEF ApplyNext, LoopOff, DiskOff, DiskOn, ImageProbe, ImageAllocate, ImageFormat,
                  LoopOn, Applying, MountSteps, ImageSteps
    <3>2. \A x \in Workers \ {w} : pc'[x] = pc[x]
      BY <2>5, ZenonT(60) DEF ApplyNext, LoopOff, DiskOff, DiskOn, ImageProbe, ImageAllocate, ImageFormat,
                  LoopOn, Mounted, GiveUp, Answer, Goto, GotoWith, TypeOK
    <3>3. UNCHANGED <<nfs, stuck>>
      BY <2>5 DEF ApplyNext, LoopOff, DiskOff, DiskOn, ImageProbe, ImageAllocate, ImageFormat,
                  LoopOn, mntVars
    <3>4. Applying' \subseteq Applying
      BY <3>1, <3>2 DEF Applying
    <3>5. QED
      BY <3>3, <3>4, FewerApplying
  <2>6. ASSUME NEW w \in Workers,
               \/ \E d \in Devs, type \in Types : AppendBegin(w, d, type)
               \/ \E r \in rows : RemoveBegin(w, r)
        PROVE  LayersBounded'
    <3>1. Applying' \subseteq Applying /\ UNCHANGED <<nfs, stuck>>
      BY <2>6, ZenonT(60) DEF AppendBegin, RemoveBegin, Begin, Applying, MountSteps, ImageSteps, TypeOK, mntVars
    <3>2. QED
      BY <3>1, FewerApplying
  <2>7. CASE UNCHANGED vars \/ \E d \in Devs : Replug(d)
    <3>1. Applying' = Applying /\ UNCHANGED <<nfs, stuck>>
      BY <2>7 DEF vars, Replug, Applying, mntVars
    <3>2. QED
      BY <3>1, FewerApplying
  <2>8. QED
    BY <2>1, <2>2, <2>3, <2>4, <2>5, <2>6, <2>7 DEF Next, Step
<1>3. QED
  BY <1>1, <1>2, TypeCorrect, PTL DEF Spec

-----------------------------------------------------------------------------
(* Rows and file systems.                                                  *)

DiskInv == RowsAreCurrent /\ SoleAppender /\ AppendInv

(* A step that adds no row, leaves the devices alone and moves no worker   *)
(* within or into an append keeps the invariant.                           *)
LEMMA QuietStep ==
  ASSUME DiskInv, rows' \subseteq rows, UNCHANGED <<fs, attached, disturbed>>,
         \A x \in Workers : pc'[x] \in AppendSteps => pc'[x] = pc[x] /\ req'[x] = req[x]
  PROVE  DiskInv'
<1>1. RowsAreCurrent'
  BY DEF DiskInv, RowsAreCurrent
<1>2. SoleAppender'
  BY DEF DiskInv, SoleAppender, Undisturbed
<1>3. AppendInv'
  BY DEF DiskInv, AppendInv, Undisturbed, AppendSteps
<1>4. QED
  BY <1>1, <1>2, <1>3 DEF DiskInv

(* One worker goes on within its append, for the same device, and touches  *)
(* neither rows nor devices: only what AppendInv says of it is to show.    *)
LEMMA AppendGoesOn ==
  ASSUME TypeOK, DiskInv, UNCHANGED <<rows, fs, attached, disturbed>>,
         NEW w \in Workers, NEW step \in AppendSteps, NEW r \in Request, GotoWith(w, step, r),
         pc[w] \in AppendSteps, r.dev = req[w].dev,
         req[w].dev \notin disturbed /\ step = "mkfs" => fs[r.dev] = 0 \/ r.dev \notin attached,
         step \in {"info", "insert"} /\ r.uuid # None =>
           r.uuid.dev = r.dev /\ (req[w].dev \notin disturbed => r.uuid.gen = fs[r.dev])
  PROVE  DiskInv'
<1>1. /\ pc'[w] = step /\ req'[w] = r
      /\ \A x \in Workers \ {w} : pc'[x] = pc[x] /\ req'[x] = req[x]
  BY DEF GotoWith, TypeOK
<1>2. RowsAreCurrent'
  BY DEF DiskInv, RowsAreCurrent
<1>3. SoleAppender'
  BY <1>1 DEF DiskInv, SoleAppender, Undisturbed
<1>4. AppendInv'
  BY <1>1 DEF DiskInv, AppendInv, Undisturbed
<1>5. QED
  BY <1>2, <1>3, <1>4 DEF DiskInv

(* The UUID blkid reports names the device and its newest file system.     *)
LEMMA UuidIsCurrent ==
  ASSUME NEW d, Uuid(d) # None
  PROVE  Uuid(d).dev = d /\ Uuid(d).gen = fs[d]
BY DEF Uuid

(* The table names the file systems that are there, but for disks an       *)
(* append of which was disturbed.                                          *)
THEOREM DiskInvariance == Spec => []DiskInv
<1>1. Init => DiskInv
  BY DEF Init, DiskInv, RowsAreCurrent, SoleAppender, AppendInv, Undisturbed, AppendSteps
<1>2. TypeOK /\ TypeOK' /\ DiskInv /\ [Next]_vars => DiskInv'
  <2> SUFFICES ASSUME TypeOK, TypeOK', DiskInv, [Next]_vars
               PROVE  DiskInv'
    OBVIOUS
  <2>a. \A w \in Workers : req[w] \in Request
    BY DEF TypeOK
  <2>b. \A w \in Workers : pc[w] \in AppendSteps => req[w].dev \in Devs
    BY <2>a, ReqFields DEF DiskInv, AppendInv
  <2>1. ASSUME NEW w \in Workers, AppendUmount(w)
        PROVE  DiskInv'
    BY <2>1, <2>a, AppendGoesOn DEF AppendUmount, Goto, AppendSteps, devVars
  <2>2. ASSUME NEW w \in Workers, AppendProbe(w)
        PROVE  DiskInv'
    <3> DEFINE u == Uuid(req[w].dev)
               r == [req[w] EXCEPT !.uuid = u]
               step == IF u = None THEN "mkfs" ELSE "info"
    <3>1. req[w] \in Request /\ req[w].dev \in Devs /\ pc[w] \in AppendSteps
      BY <2>2, <2>a, <2>b DEF AppendProbe, AppendSteps
    <3>2. u \in Uuids \union {None} /\ r \in Request
      BY <3>1, UuidType, RequestChanges
    <3>3. r.dev = req[w].dev /\ r.uuid = u
      BY <3>1 DEF Request
    <3>4. step = "mkfs" => fs[r.dev] = 0 \/ r.dev \notin attached
      BY <3>1, <3>3 DEF Uuid, Uuids, TypeOK
    <3>5. step = "info" /\ r.uuid # None => r.uuid.dev = r.dev /\ r.uuid.gen = fs[r.dev]
      BY <3>3, UuidIsCurrent
    <3>6. GotoWith(w, step, r) /\ UNCHANGED <<rows, fs, attached, disturbed>>
      BY <2>2 DEF AppendProbe, devVars
    <3>7. step \in AppendSteps /\ step # "insert"
      BY DEF AppendSteps
    <3> HIDE DEF u, r, step
    <3>8. QED
      BY <3>1, <3>2, <3>3, <3>4, <3>5, <3>6, <3>7, AppendGoesOn
  <2>3. ASSUME NEW w \in Workers, AppendMkfs(w)
        PROVE  DiskInv'
    <3> DEFINE d == req[w].dev
    <3>1. /\ d \in Devs /\ pc[w] = "mkfs" /\ pc'[w] = "reprobe" /\ req' = req
          /\ \A x \in Workers \ {w} : pc'[x] = pc[x]
          /\ UNCHANGED <<rows, attached, disturbed>>
          /\ \A e \in Devs \ {d} : fs'[e] = fs[e]
      BY <2>3, <2>b DEF AppendMkfs, Goto, GotoWith, TypeOK, AppendSteps
    <3>2. fs' = fs \/ (d \in attached /\ (d \notin disturbed => fs[d] = 0))
      BY <2>3, <3>1 DEF AppendMkfs, DiskInv, AppendInv, Undisturbed, AppendSteps
    <3>3. RowsAreCurrent'
      <4>1. \A q \in rows : q.uuid # None => q.uuid.dev \in Devs /\ q.uuid.gen # 0
        BY DEF TypeOK, Rows, Uuids
      <4>2. QED
        BY <3>1, <3>2, <4>1 DEF DiskInv, RowsAreCurrent
    <3>4. SoleAppender'
      BY <3>1 DEF DiskInv, SoleAppender, Undisturbed, AppendSteps
    <3>5. AppendInv'
      BY <3>1, <2>b DEF DiskInv, AppendInv, SoleAppender, Undisturbed, AppendSteps
    <3>6. QED
      BY <3>3, <3>4, <3>5 DEF DiskInv
  <2>4. ASSUME NEW w \in Workers, AppendReprobe(w)
        PROVE  DiskInv'
    <3> DEFINE u == Uuid(req[w].dev)
               r == [req[w] EXCEPT !.uuid = u]
    <3>1. req[w] \in Request /\ req[w].dev \in Devs /\ pc[w] \in AppendSteps
      BY <2>4, <2>a, <2>b DEF AppendReprobe, AppendSteps
    <3>2. u \in Uuids \union {None} /\ r \in Request
      BY <3>1, UuidType, RequestChanges
    <3>3. r.dev = req[w].dev /\ r.uuid = u
      BY <3>1 DEF Request
    <3>4. r.uuid # None => r.uuid.dev = r.dev /\ r.uuid.gen = fs[r.dev]
      BY <3>3, UuidIsCurrent
    <3>5. GotoWith(w, "info", r) /\ UNCHANGED <<rows, fs, attached, disturbed>>
      BY <2>4 DEF AppendReprobe, devVars
    <3>6. "info" \in AppendSteps
      BY DEF AppendSteps
    <3> HIDE DEF u, r
    <3>7. QED
      BY <3>1, <3>2, <3>3, <3>4, <3>5, <3>6, AppendGoesOn
  <2>5. ASSUME NEW w \in Workers, AppendInfo(w)
        PROVE  DiskInv'
    <3>1. UNCHANGED <<rows, fs, attached, disturbed>> /\ pc[w] = "info"
      BY <2>5 DEF AppendInfo, devVars
    <3>2. CASE Goto(w, "insert")
      BY <2>a, <3>1, <3>2, AppendGoesOn DEF Goto, AppendSteps, DiskInv, AppendInv, Undisturbed
    <3>3. CASE Answer(w, "SYSTEM")
      BY <3>1, <3>3, QuietStep DEF Answer, TypeOK, AppendSteps
    <3>4. QED
      BY <2>5, <3>2, <3>3 DEF AppendInfo
  <2>6. ASSUME NEW w \in Workers, AppendInsert(w)
        PROVE  DiskInv'
    <3> DEFINE row == [uuid |-> req[w].uuid, type |-> req[w].type]
    <3>1. /\ rows' \subseteq rows \union {row}
          /\ UNCHANGED <<fs, attached, disturbed>>
          /\ pc[w] = "insert"
          /\ pc'[w] \in {"select_append", "idle"}
          /\ \A x \in Workers \ {w} : pc'[x] = pc[x] /\ req'[x] = req[x]
      BY <2>6 DEF AppendInsert, devVars, Goto, GotoWith, Answer, TypeOK
    <3>2. RowsAreCurrent'
      <4>1. row.uuid # None /\ row.uuid.dev \notin disturbed => fs[row.uuid.dev] = row.uuid.gen
        <5>1. SUFFICES ASSUME req[w].uuid # None, req[w].uuid.dev \notin disturbed
                       PROVE  fs[req[w].uuid.dev] = req[w].uuid.gen
          OBVIOUS
        <5>2. req[w].dev \notin disturbed =>
                req[w].uuid.dev = req[w].dev /\ req[w].uuid.gen = fs[req[w].dev]
          BY <3>1, <5>1 DEF DiskInv, AppendInv, Undisturbed, AppendSteps
        <5>3. req[w].uuid.dev = req[w].dev
          BY <3>1, <5>1 DEF DiskInv, AppendInv, AppendSteps
        <5>4. QED
          BY <5>1, <5>2, <5>3
      <4>2. QED
        BY <3>1, <4>1 DEF DiskInv, RowsAreCurrent
    <3>3. SoleAppender'
      BY <3>1 DEF DiskInv, SoleAppender, Undisturbed, AppendSteps
    <3>4. AppendInv'
      BY <3>1 DEF DiskInv, AppendInv, Undisturbed, AppendSteps
    <3>5. QED
      BY <3>2, <3>3, <3>4 DEF DiskInv
  <2>7. ASSUME NEW w \in Workers, RemoveRow(w)
        PROVE  DiskInv'
    <3>1. rows' \subseteq rows /\ UNCHANGED <<fs, attached, disturbed>>
      BY <2>7 DEF RemoveRow, devVars
    <3>2. \A x \in Workers : pc'[x] \in AppendSteps => pc'[x] = pc[x] /\ req'[x] = req[x]
      BY <2>7 DEF RemoveRow, Goto, GotoWith, Answer, TypeOK, AppendSteps
    <3>3. QED
      BY <3>1, <3>2, QuietStep
  <2>8. ASSUME NEW w \in Workers, AppendSelect(w)
        PROVE  DiskInv'
    BY <2>8, QuietStep DEF AppendSelect, Selected, devVars, Goto, GotoWith, Answer, TypeOK, AppendSteps
  <2>9. ASSUME NEW w \in Workers, RemoveSelect(w)
        PROVE  DiskInv'
    BY <2>9, QuietStep DEF RemoveSelect, Selected, devVars, Goto, GotoWith, Answer, TypeOK, AppendSteps
  <2>10. ASSUME NEW w \in Workers, ApplyCheck(w)
        PROVE  DiskInv'
    BY <2>10, QuietStep DEF ApplyCheck, devVars, Goto, GotoWith, Answer, TypeOK, AppendSteps
  <2>11. ASSUME NEW w \in Workers, ApplyUmountNfs(w)
        PROVE  DiskInv'
    BY <2>11, QuietStep DEF ApplyUmountNfs, devVars, Goto, GotoWith, Answer, TypeOK, AppendSteps
  <2>12. ASSUME NEW w \in Workers, ApplyNext(w)
        PROVE  DiskInv'
    <3>1. pc'[w] \in {"loop_off", "disk_off", "disk", "idle", "union"}
      <4>1. \A r \in req[w].todo : r.type \in {"IMG", "BLK", "VHD"}
        BY <2>a, ReqFields, ZenonT(60) DEF Rows
      <4>2. QED
        BY <2>12, <4>1, ZenonT(60) DEF ApplyNext, Goto, GotoWith, Answer, TypeOK
    <3>2. \A x \in Workers \ {w} : pc'[x] = pc[x] /\ req'[x] = req[x]
      BY <2>12, ZenonT(60) DEF ApplyNext, Goto, GotoWith, Answer, TypeOK
    <3>3. UNCHANGED <<rows, fs, attached, disturbed>>
      BY <2>12 DEF ApplyNext, devVars
    <3>4. QED
      BY <3>1, <3>2, <3>3, QuietStep DEF AppendSteps
  <2>13. ASSUME NEW w \in Workers, LoopOff(w)
        PROVE  DiskInv'
    BY <2>13, QuietStep DEF LoopOff, devVars, Goto, GotoWith, Answer, TypeOK, AppendSteps
  <2>14. ASSUME NEW w \in Workers, DiskOff(w)
        PROVE  DiskInv'
    BY <2>14, QuietStep DEF DiskOff, devVars, Goto, GotoWith, Answer, TypeOK, AppendSteps
  <2>15. ASSUME NEW w \in Workers, DiskOn(w)
        PROVE  DiskInv'
    BY <2>15, QuietStep DEF DiskOn, Mounted, GiveUp, devVars, Goto, GotoWith, Answer, TypeOK, AppendSteps
  <2>16. ASSUME NEW w \in Workers, ImageProbe(w)
        PROVE  DiskInv'
    BY <2>16, QuietStep DEF ImageProbe, devVars, Goto, GotoWith, Answer, TypeOK, AppendSteps
  <2>17. ASSUME NEW w \in Workers, ImageAllocate(w)
        PROVE  DiskInv'
    BY <2>17, QuietStep DEF ImageAllocate, GiveUp, devVars, Goto, GotoWith, Answer, TypeOK, AppendSteps
  <2>18. ASSUME NEW w \in Workers, ImageFormat(w)
        PROVE  DiskInv'
    BY <2>18, QuietStep DEF ImageFormat, devVars, Goto, GotoWith, Answer, TypeOK, AppendSteps
  <2>19. ASSUME NEW w \in Workers, LoopOn(w)
        PROVE  DiskInv'
    BY <2>19, QuietStep DEF LoopOn, Mounted, GiveUp, devVars, Goto, GotoWith, Answer, TypeOK, AppendSteps
  <2>20. ASSUME NEW w \in Workers, ApplyUnion(w)
        PROVE  DiskInv'
    BY <2>20, QuietStep DEF ApplyUnion, devVars, Goto, GotoWith, Answer, TypeOK, AppendSteps
  <2>21. ASSUME NEW w \in Workers, Crash(w)
        PROVE  DiskInv'
    BY <2>21, QuietStep DEF Crash, devVars, Goto, GotoWith, Answer, TypeOK, AppendSteps
  <2>22. ASSUME NEW w \in Workers, NEW d \in Devs, NEW type \in Types, AppendBegin(w, d, type)
         PROVE  DiskInv'
    <3>1. /\ UNCHANGED <<rows, fs, attached>> /\ disturbed \subseteq disturbed'
          /\ pc'[w] = "umount" /\ req'[w].dev = d
          /\ \A x \in Workers \ {w} : pc'[x] = pc[x] /\ req'[x] = req[x]
          /\ \A x \in Workers \ {w} : pc[x] \in AppendSteps /\ req[x].dev = d => d \in disturbed'
      BY <2>22 DEF AppendBegin, Begin, Appending, devVars, NoRequest, TypeOK
    <3>2. RowsAreCurrent'
      BY <3>1 DEF DiskInv, RowsAreCurrent
    <3>3. SoleAppender'
      BY <3>1 DEF DiskInv, SoleAppender, Undisturbed
    <3>4. AppendInv'
      BY <3>1 DEF DiskInv, AppendInv, Undisturbed
    <3>5. QED
      BY <3>2, <3>3, <3>4 DEF DiskInv
  <2>23. ASSUME NEW w \in Workers, NEW r \in rows, RemoveBegin(w, r)
         PROVE  DiskInv'
    BY <2>23, QuietStep DEF RemoveBegin, Begin, devVars, TypeOK, AppendSteps
  <2>24. ASSUME NEW d \in Devs, Replug(d)
         PROVE  DiskInv'
    <3>1. /\ UNCHANGED <<rows, fs, pc, req>> /\ disturbed \subseteq disturbed'
          /\ \A e \in Devs \ {d} : e \in attached' => e \in attached
          /\ \A x \in Workers : pc[x] \in AppendSteps /\ req[x].dev = d => d \in disturbed'
      BY <2>24 DEF Replug, Appending
    <3>2. RowsAreCurrent'
      BY <3>1 DEF DiskInv, RowsAreCurrent
    <3>3. SoleAppender'
      BY <3>1 DEF DiskInv, SoleAppender, Undisturbed
    <3>4. AppendInv'
      BY <3>1, <2>b DEF DiskInv, AppendInv, Undisturbed
    <3>5. QED
      BY <3>2, <3>3, <3>4 DEF DiskInv
  <2>25. CASE Reboot
    BY <2>25, QuietStep DEF Reboot, devVars, AppendSteps
  <2>26. CASE UNCHANGED vars
    BY <2>26, QuietStep DEF vars
  <2>27. QED
    BY <2>1, <2>2, <2>3, <2>4, <2>5, <2>6, <2>7, <2>8, <2>9, <2>10, <2>11, <2>12, <2>13, <2>14, <2>15, <2>16, <2>17, <2>18, <2>19, <2>20, <2>21, <2>22, <2>23, <2>24, <2>25, <2>26 DEF Next, Step
<1>3. QED
  BY <1>1, <1>2, TypeCorrect, PTL DEF Spec

(* The table names the file system on each disk, but for disturbed disks.  *)
THEOREM RowsAreCurrentHolds == Spec => []RowsAreCurrent
<1>1. DiskInv => RowsAreCurrent
  BY DEF DiskInv
<1>2. QED
  BY <1>1, DiskInvariance, PTL

-----------------------------------------------------------------------------
(* A request that runs alone.  While it is tidy no other worker moves, so  *)
(* the table stays as it was read; every row taken from the list is in the *)
(* union to be, on its disk, but the one that is being mounted; and since  *)
(* each row has a UUID of its own, unmounting that one disturbs no other.  *)

OneRow == \A r, s \in rows : r.uuid = s.uuid => r = s

TidyAlone == \A w \in tidy, x \in Workers : pc[w] # "idle" /\ x # w => pc[x] = "idle"

Shown == {r \in rows : r.type # "VHD"}

RowSteps == {"loop_off", "disk_off", "disk_on"} \union ImageSteps

ListInv(w) ==
  /\ pc[w] \in {"check", "umount_nfs"} \union MountSteps => req[w].list = rows
  /\ pc[w] \notin MountSteps => req[w].mounts = {}
  /\ pc[w] = "umount_nfs" => req[w].todo = rows
  /\ pc[w] \in MountSteps => req[w].todo \subseteq rows
  /\ pc[w] = "union" => req[w].todo = {}

RowInv(w) ==
  /\ pc[w] \in RowSteps => req[w].cur \in Shown \ req[w].todo
  /\ pc[w] \in {"loop_off"} \union ImageSteps => req[w].cur.type = "IMG"
  /\ pc[w] \in ImageSteps => req[w].cur.uuid \in mounted

MountedInv(w) ==
  pc[w] \in MountSteps =>
    /\ req[w].mounts = (Shown \ req[w].todo) \ (IF pc[w] \in RowSteps THEN {req[w].cur} ELSE {})
    /\ \A r \in req[w].mounts : OnItsDisk(r)

CleanInv ==
  /\ OneRow
  /\ TidyAlone
  /\ \A w \in tidy : ListInv(w) /\ RowInv(w) /\ MountedInv(w)

(* A step of a busy worker: if it is tidy, only what the invariant says of *)
(* its own request is to show, and if it is not, whoever is tidy is idle.  *)
LEMMA WorkerStep ==
  ASSUME TypeOK, CleanInv, OneRow', NEW w \in Workers, pc[w] # "idle", tidy' \subseteq tidy,
         \A x \in Workers \ {w} : pc'[x] = pc[x] /\ req'[x] = req[x],
         w \in tidy' => (ListInv(w) /\ RowInv(w) /\ MountedInv(w))'
  PROVE  CleanInv'
<1>1. \A v \in tidy' \ {w} : pc[v] = "idle" /\ pc'[v] = "idle" /\ req'[v] = req[v]
  BY DEF CleanInv, TidyAlone, TypeOK
<1>2. TidyAlone'
  BY <1>1 DEF CleanInv, TidyAlone
<1>3. ASSUME NEW v \in tidy'
      PROVE  (ListInv(v) /\ RowInv(v) /\ MountedInv(v))'
  <2>1. CASE v # w
    <3>1. pc'[v] = "idle" /\ req'[v].mounts = {}
      BY <1>1, <1>3, <2>1 DEF CleanInv, ListInv, MountSteps, ImageSteps
    <3>2. QED
      BY <3>1 DEF ListInv, RowInv, MountedInv, RowSteps, MountSteps, ImageSteps
  <2>2. QED
    BY <1>3, <2>1
<1>4. QED
  BY <1>2, <1>3 DEF CleanInv

(* A worker that is idle, or at a step before its list is read, and has    *)
(* mounted nothing, satisfies what is said of its request.                 *)
LEMMA NothingMounted ==
  ASSUME NEW w, pc'[w] \notin {"check", "umount_nfs"} \union MountSteps, req'[w].mounts = {}
  PROVE  (ListInv(w) /\ RowInv(w) /\ MountedInv(w))'
BY DEF ListInv, RowInv, MountedInv, RowSteps, MountSteps, ImageSteps

(* The steps before the list is read.                                      *)
LEMMA BeforeApply ==
  ASSUME TypeOK, CleanInv, NEW w \in Workers,
         \/ AppendUmount(w) \/ AppendProbe(w) \/ AppendMkfs(w) \/ AppendReprobe(w)
         \/ AppendInfo(w) \/ AppendInsert(w) \/ RemoveRow(w)
  PROVE  CleanInv'
<1> USE DEF devVars, mntVars
<1>1. pc[w] \in AppendSteps \union {"delete"} /\ tidy' = tidy
  BY DEF AppendUmount, AppendProbe, AppendMkfs, AppendReprobe, AppendInfo, AppendInsert, RemoveRow,
         AppendSteps
<1>2. OneRow'
  <2>1. \/ rows' \subseteq rows
        \/ \E row : rows' = rows \union {row} /\ \A r \in rows : r.uuid # row.uuid
    BY DEF AppendUmount, AppendProbe, AppendMkfs, AppendReprobe, AppendInfo, AppendInsert, RemoveRow
  <2>2. QED
    BY <2>1 DEF CleanInv, OneRow
<1>3. /\ \A x \in Workers \ {w} : pc'[x] = pc[x] /\ req'[x] = req[x]
      /\ pc'[w] \in AppendSteps \union {"select_append", "select_remove", "idle"}
  BY DEF AppendUmount, AppendProbe, AppendMkfs, AppendReprobe, AppendInfo, AppendInsert, RemoveRow,
         Goto, GotoWith, Answer, TypeOK, AppendSteps
<1>4. req'[w].mounts \in {req[w].mounts, {}}
  BY DEF AppendUmount, AppendProbe, AppendMkfs, AppendReprobe, AppendInfo, AppendInsert, RemoveRow,
         Goto, GotoWith, Answer, NoRequest, TypeOK, Request
<1>5. w \in tidy' => (ListInv(w) /\ RowInv(w) /\ MountedInv(w))'
  <2>1. w \in tidy => req[w].mounts = {}
    BY <1>1 DEF CleanInv, ListInv, AppendSteps, MountSteps, ImageSteps
  <2>2. pc'[w] \notin {"check", "umount_nfs"} \union MountSteps
    BY <1>3 DEF AppendSteps, MountSteps, ImageSteps
  <2>3. QED
    BY <1>1, <1>4, <2>1, <2>2, NothingMounted
<1>6. pc[w] # "idle"
  BY <1>1 DEF AppendSteps
<1>7. QED
  BY <1>1, <1>2, <1>3, <1>5, <1>6, WorkerStep

(* What the steps from the SELECT on have in common.                       *)
ApplyStep(w) ==
  \/ AppendSelect(w) \/ RemoveSelect(w) \/ ApplyCheck(w) \/ ApplyUmountNfs(w) \/ ApplyNext(w)
  \/ LoopOff(w) \/ DiskOff(w) \/ DiskOn(w) \/ ImageProbe(w) \/ ImageAllocate(w) \/ ImageFormat(w)
  \/ LoopOn(w) \/ ApplyUnion(w)

LEMMA ApplyFrame ==
  ASSUME TypeOK, NEW w \in Workers, ApplyStep(w)
  PROVE  /\ rows' = rows /\ tidy' \subseteq tidy /\ pc[w] # "idle"
         /\ \A x \in Workers \ {w} : pc'[x] = pc[x] /\ req'[x] = req[x]
<1> USE DEF devVars, mntVars
<1>1. rows' = rows /\ tidy' \subseteq tidy /\ pc[w] # "idle"
  BY DEF ApplyStep, AppendSelect, RemoveSelect, ApplyCheck, ApplyUmountNfs, ApplyNext, LoopOff,
         DiskOff, DiskOn, ImageProbe, ImageAllocate, ImageFormat, LoopOn, ApplyUnion, Mounted, GiveUp
<1>2. \/ \E step, r : GotoWith(w, step, r)
      \/ \E code : Answer(w, code)
  BY ZenonT(60) DEF ApplyStep, AppendSelect, RemoveSelect, ApplyCheck, ApplyUmountNfs, ApplyNext, LoopOff,
         DiskOff, DiskOn, ImageProbe, ImageAllocate, ImageFormat, LoopOn, ApplyUnion, Mounted, GiveUp,
         Selected, Goto
<1>3. \A x \in Workers \ {w} : pc'[x] = pc[x] /\ req'[x] = req[x]
  BY <1>2 DEF GotoWith, Answer, TypeOK
<1>4. QED
  BY <1>1, <1>3

(* An answer leaves nothing to say of the request.                         *)
LEMMA AnswerClean ==
  ASSUME TypeOK, NEW w \in Workers, NEW code, Answer(w, code)
  PROVE  (ListInv(w) /\ RowInv(w) /\ MountedInv(w))'
<1>1. pc'[w] = "idle" /\ req'[w] = NoRequest
  BY DEF Answer, TypeOK
<1>2. req'[w].mounts = {}
  BY <1>1 DEF NoRequest
<1>3. QED
  BY <1>1, <1>2, NothingMounted DEF MountSteps, ImageSteps

(* What the locals of a worker are after a step.                           *)
LEMMA GotoLocals ==
  ASSUME TypeOK, NEW w \in Workers, NEW step, NEW r, GotoWith(w, step, r)
  PROVE  pc'[w] = step /\ req'[w] = r
BY DEF GotoWith, TypeOK

(* The SELECT, the check and the unmounting of /nfs.                       *)
LEMMA ApplyStarts ==
  ASSUME TypeOK, CleanInv, NEW w \in tidy,
         AppendSelect(w) \/ RemoveSelect(w) \/ ApplyCheck(w) \/ ApplyUmountNfs(w)
  PROVE  (ListInv(w) /\ RowInv(w) /\ MountedInv(w))'
<1>1. w \in Workers /\ req[w] \in Request /\ rows' = rows
  BY DEF TypeOK, AppendSelect, RemoveSelect, ApplyCheck, ApplyUmountNfs
<1>2. /\ pc[w] \in {"check", "umount_nfs"} => req[w].list = rows
      /\ req[w].mounts = {}
      /\ pc[w] = "umount_nfs" => req[w].todo = rows
  BY DEF CleanInv, ListInv, AppendSelect, RemoveSelect, ApplyCheck, ApplyUmountNfs, MountSteps,
         ImageSteps
<1>3. \/ \E code : Answer(w, code)
      \/ pc'[w] = "check" /\ req'[w].list = rows /\ req'[w].mounts = {}
      \/ pc'[w] = "umount_nfs" /\ req'[w].list = rows /\ req'[w].mounts = {} /\ req'[w].todo = rows
      \/ pc'[w] = "disk" /\ req'[w].list = rows /\ req'[w].mounts = {} /\ req'[w].todo = rows
  <2>1. CASE AppendSelect(w) \/ RemoveSelect(w)
    <3>1. CASE Selected(w)
      <4>1. pc'[w] = "check" /\ req'[w] = [req[w] EXCEPT !.list = rows, !.todo = rows]
        BY <1>1, <3>1, GotoLocals DEF Selected
      <4>2. req'[w].list = rows /\ req'[w].mounts = req[w].mounts
        BY <1>1, <4>1 DEF Request
      <4>3. QED
        BY <1>2, <4>1, <4>2
    <3>2. QED
      BY <2>1, <3>1 DEF AppendSelect, RemoveSelect
  <2>2. CASE ApplyCheck(w)
    <3>1. pc[w] = "check"
      BY <2>2 DEF ApplyCheck
    <3>2. CASE GotoWith(w, "umount_nfs", [req[w] EXCEPT !.todo = req[w].list])
      BY <1>1, <1>2, <3>1, <3>2, GotoLocals DEF Request
    <3>3. ASSUME NEW r \in req[w].todo,
                 GotoWith(w, "check", [req[w] EXCEPT !.todo = @ \ {r}])
          PROVE  pc'[w] = "check" /\ req'[w].list = rows /\ req'[w].mounts = {}
      BY <1>1, <1>2, <3>1, <3>3, GotoLocals DEF Request
    <3>4. QED
      BY <2>2, <3>2, <3>3 DEF ApplyCheck
  <2>3. CASE ApplyUmountNfs(w)
    <3>1. CASE Goto(w, "disk")
      BY <1>1, <1>2, <2>3, <3>1, GotoLocals DEF Goto, ApplyUmountNfs
    <3>2. QED
      BY <2>3, <3>1 DEF ApplyUmountNfs
  <2>4. QED
    BY <2>1, <2>2, <2>3
<1>4. CASE \E code : Answer(w, code)
  BY <1>1, <1>4, AnswerClean
<1>5. CASE /\ pc'[w] \in {"check", "umount_nfs", "disk"} /\ req'[w].list = rows /\ req'[w].mounts = {}
           /\ pc'[w] # "check" => req'[w].todo = rows
  BY <1>1, <1>5 DEF ListInv, RowInv, MountedInv, Shown, RowSteps, MountSteps, ImageSteps
<1>6. QED
  BY <1>3, <1>4, <1>5

(* The next row is taken from the list, or the list is at its end.         *)
LEMMA NextRow ==
  ASSUME TypeOK, CleanInv, NEW w \in tidy, ApplyNext(w)
  PROVE  (ListInv(w) /\ RowInv(w) /\ MountedInv(w))'
<1>1. /\ w \in Workers /\ req[w] \in Request /\ pc[w] = "disk"
      /\ rows' = rows /\ mounted' = mounted /\ loops' = loops
  BY DEF TypeOK, ApplyNext, mntVars
<1>2. /\ req[w].list = rows /\ req[w].todo \subseteq rows
      /\ req[w].mounts = Shown \ req[w].todo
      /\ \A r \in req[w].mounts : OnItsDisk(r)
  BY <1>1 DEF CleanInv, ListInv, MountedInv, RowSteps, MountSteps, ImageSteps
<1>3. ASSUME NEW r \in req[w].todo, NEW step \in {"loop_off", "disk_off", "disk"},
             GotoWith(w, step, [req[w] EXCEPT !.cur = r, !.todo = @ \ {r}]),
             step = "loop_off" => r.type = "IMG",
             step = "disk" <=> r.type = "VHD"
      PROVE  (ListInv(w) /\ RowInv(w) /\ MountedInv(w))'
  <2>1. /\ pc'[w] = step /\ req'[w].cur = r /\ req'[w].todo = req[w].todo \ {r}
        /\ req'[w].list = rows /\ req'[w].mounts = req[w].mounts
    <3>1. pc'[w] = step /\ req'[w] = [req[w] EXCEPT !.cur = r, !.todo = @ \ {r}]
      BY <1>1, <1>3, GotoLocals
    <3>2. QED
      BY <1>1, <1>2, <3>1 DEF Request
  <2>2. r \in Shown <=> step # "disk"
    BY <1>2, <1>3 DEF Shown
  <2>3. ListInv(w)'
    BY <1>1, <1>2, <2>1 DEF ListInv, MountSteps, ImageSteps
  <2>4. RowInv(w)'
    BY <1>1, <1>3, <2>1, <2>2 DEF RowInv, Shown, RowSteps, ImageSteps
  <2>5. MountedInv(w)'
    <3>1. Shown' = Shown /\ \A s : OnItsDisk(s)' <=> OnItsDisk(s)
      BY <1>1 DEF Shown, OnItsDisk
    <3>2. req[w].mounts =
            (Shown \ (req[w].todo \ {r})) \ (IF step \in RowSteps THEN {r} ELSE {})
      BY <1>2, <2>2 DEF RowSteps, ImageSteps
    <3>3. QED
      BY <1>2, <2>1, <3>1, <3>2 DEF MountedInv
  <2>6. QED
    BY <2>3, <2>4, <2>5
<1>4. CASE req[w].todo = {} /\ Goto(w, "union")
  <2>1. pc'[w] = "union" /\ req'[w] = req[w]
    BY <1>1, <1>4, GotoLocals DEF Goto
  <2>2. QED
    BY <1>1, <1>2, <1>4, <2>1
       DEF ListInv, RowInv, MountedInv, OnItsDisk, Shown, RowSteps, MountSteps, ImageSteps
<1>5. CASE Answer(w, "SUCCESS")
  BY <1>1, <1>5, AnswerClean
<1>6. CASE \E r \in req[w].todo :
             GotoWith(w, CASE r.type = "IMG" -> "loop_off"
                           [] r.type = "BLK" -> "disk_off"
                           [] r.type = "VHD" -> "disk",
                      [req[w] EXCEPT !.cur = r, !.todo = @ \ {r}])
  <2>1. PICK r \in req[w].todo :
             GotoWith(w, CASE r.type = "IMG" -> "loop_off"
                           [] r.type = "BLK" -> "disk_off"
                           [] r.type = "VHD" -> "disk",
                      [req[w] EXCEPT !.cur = r, !.todo = @ \ {r}])
    BY <1>6
  <2>2. r.type \in {"IMG", "BLK", "VHD"}
    BY <1>1, ReqFields, ZenonT(60) DEF Rows
  <2>3. CASE r.type = "IMG"
    BY <1>3, <2>1, <2>3
  <2>4. CASE r.type = "BLK"
    BY <1>3, <2>1, <2>4
  <2>5. CASE r.type = "VHD"
    BY <1>3, <2>1, <2>5
  <2>6. QED
    BY <2>2, <2>3, <2>4, <2>5
<1>7. QED
  BY <1>4, <1>5, <1>6 DEF ApplyNext

(* One row is unmounted and mounted; the other rows keep their mounts,     *)
(* their UUIDs being others.                                               *)
LEMMA RowSteady ==
  ASSUME TypeOK, CleanInv, NEW w \in tidy, pc[w] \in RowSteps, rows' = rows,
         NEW step \in MountSteps \ {"union"}, pc'[w] = step,
         req'[w] = req[w],
         step \in RowSteps,
         \A v \in Uuids \union {None} : v \in mounted /\ v # req[w].cur.uuid => v \in mounted',
         \A v \in Uuids \union {None} :
           <<v, "disk">> \in loops /\ v # req[w].cur.uuid => <<v, "disk">> \in loops',
         step \in {"loop_off"} \union ImageSteps => req[w].cur.type = "IMG",
         step \in ImageSteps => req[w].cur.uuid \in mounted'
  PROVE  (ListInv(w) /\ RowInv(w) /\ MountedInv(w))'
<1>1. pc[w] \in MountSteps
  BY DEF RowSteps, MountSteps, ImageSteps
<1>2. ListInv(w)'
  BY <1>1 DEF CleanInv, ListInv, MountSteps, RowSteps, ImageSteps
<1>3. RowInv(w)'
  BY DEF CleanInv, RowInv, Shown
<1>4. MountedInv(w)'
  <2>1. req[w].cur \in rows /\ req[w].mounts \subseteq rows \ {req[w].cur}
    BY <1>1 DEF CleanInv, RowInv, MountedInv, Shown
  <2>2. \A r \in req[w].mounts :
          r.uuid # req[w].cur.uuid /\ r.uuid \in Uuids \union {None} /\ OnItsDisk(r)
    BY <1>1, <2>1 DEF CleanInv, OneRow, MountedInv, TypeOK, Rows
  <2>3. \A r \in req[w].mounts : OnItsDisk(r)'
    BY <2>2 DEF OnItsDisk
  <2>4. QED
    BY <1>1, <2>3 DEF CleanInv, MountedInv, Shown
<1>5. QED
  BY <1>2, <1>3, <1>4

(* The row is mounted: it joins the others.                                *)
LEMMA RowMounted ==
  ASSUME TypeOK, CleanInv, NEW w \in tidy, pc[w] \in RowSteps, rows' = rows, Mounted(w),
         mounted \subseteq mounted', loops \subseteq loops', OnItsDisk(req[w].cur)'
  PROVE  (ListInv(w) /\ RowInv(w) /\ MountedInv(w))'
<1>1. /\ w \in Workers /\ req[w] \in Request /\ pc[w] \in MountSteps
      /\ pc[w] \notin {"umount_nfs", "union"}
  BY DEF TypeOK, RowSteps, MountSteps, ImageSteps
<1>2. /\ pc'[w] = "disk" /\ req'[w].list = req[w].list /\ req'[w].todo = req[w].todo
      /\ req'[w].mounts = req[w].mounts \union {req[w].cur} /\ req'[w].cur = req[w].cur
  BY <1>1, GotoLocals DEF Request, Mounted
<1>3. ListInv(w)' /\ RowInv(w)'
  BY <1>1, <1>2 DEF CleanInv, ListInv, RowInv, RowSteps, MountSteps, ImageSteps
<1>4. MountedInv(w)'
  <2>1. /\ req[w].mounts = (Shown \ req[w].todo) \ {req[w].cur}
        /\ req[w].cur \in Shown \ req[w].todo
        /\ \A r \in req[w].mounts : OnItsDisk(r)
    BY <1>1 DEF CleanInv, RowInv, MountedInv
  <2>2. \A r \in req'[w].mounts : OnItsDisk(r)'
    BY <1>2, <2>1 DEF OnItsDisk
  <2>3. req'[w].mounts = Shown \ req[w].todo
    BY <1>2, <2>1
  <2>4. QED
    BY <1>2, <2>2, <2>3 DEF MountedInv, Shown, RowSteps, ImageSteps
<1>5. QED
  BY <1>3, <1>4

(* The steps that mount one row, or give it up and are tidy no more.       *)
LEMMA MountsRow ==
  ASSUME TypeOK, CleanInv, NEW w \in tidy, w \in tidy',
         \/ LoopOff(w) \/ DiskOff(w) \/ DiskOn(w) \/ ImageProbe(w) \/ ImageAllocate(w)
         \/ ImageFormat(w) \/ LoopOn(w)
  PROVE  (ListInv(w) /\ RowInv(w) /\ MountedInv(w))'
<1> USE DEF devVars, mntVars
<1>1. /\ w \in Workers /\ req[w] \in Request /\ pc[w] \in RowSteps /\ rows' = rows
      /\ req[w].cur \in Shown
      /\ req[w].cur.type \in {"IMG", "BLK"}
      /\ pc[w] \in {"loop_off"} \union ImageSteps => req[w].cur.type = "IMG"
      /\ pc[w] \in ImageSteps => req[w].cur.uuid \in mounted
  <2>1. w \in Workers /\ req[w] \in Request /\ pc[w] \in RowSteps /\ rows' = rows
    BY DEF TypeOK, LoopOff, DiskOff, DiskOn, ImageProbe, ImageAllocate, ImageFormat, LoopOn, RowSteps,
           ImageSteps
  <2>2. RowInv(w)
    BY DEF CleanInv
  <2>3. req[w].cur \in Shown
    BY <2>1, <2>2 DEF RowInv
  <2>4. req[w].cur.type \in Types /\ req[w].cur.type # "VHD"
    BY <2>1, <2>3 DEF Shown, Request, Rows
  <2>5. QED
    BY <2>1, <2>2, <2>3, <2>4 DEF RowInv
<1>2. ~GiveUp(w)
  BY DEF GiveUp
<1>3. CASE LoopOff(w)
  <2>1. pc'[w] = "disk_off" /\ req'[w] = req[w] /\ mounted' = mounted
    BY <1>1, <1>3, GotoLocals DEF LoopOff, Goto
  <2>2. \A v : <<v, "disk">> \in loops /\ v # req[w].cur.uuid => <<v, "disk">> \in loops'
    BY <1>3 DEF LoopOff
  <2>3. "disk_off" \in RowSteps /\ "disk_off" \in MountSteps \ {"union"}
        /\ "disk_off" \notin {"loop_off"} \union ImageSteps
    BY DEF RowSteps, MountSteps, ImageSteps
  <2>4. QED
    BY <1>1, <2>1, <2>2, <2>3, RowSteady
<1>4. CASE DiskOff(w)
  <2>1. pc'[w] = "disk_on" /\ req'[w] = req[w] /\ loops' = loops
    BY <1>1, <1>4, GotoLocals DEF DiskOff, Goto
  <2>2. \A v : v \in mounted /\ v # req[w].cur.uuid => v \in mounted'
    BY <1>4 DEF DiskOff, Unmount
  <2>3. "disk_on" \in RowSteps /\ "disk_on" \in MountSteps \ {"union"}
        /\ "disk_on" \notin {"loop_off"} \union ImageSteps
    BY DEF RowSteps, MountSteps, ImageSteps
  <2>4. QED
    BY <1>1, <2>1, <2>2, <2>3, RowSteady
<1>5. CASE DiskOn(w)
  <2>1. mounted' = mounted \union {req[w].cur.uuid} /\ loops' = loops
    BY <1>2, <1>5 DEF DiskOn
  <2>2. CASE req[w].cur.type = "BLK"
    <3>1. Mounted(w)
      BY <1>2, <1>5, <2>2 DEF DiskOn
    <3>2. OnItsDisk(req[w].cur)'
      <4>1. req'[w].cur = req[w].cur
        BY <1>1, <3>1, GotoLocals DEF Request, Mounted
      <4>2. QED
        BY <2>1, <2>2, <4>1 DEF OnItsDisk
    <3>3. QED
      BY <1>1, <2>1, <3>1, <3>2, RowMounted
  <2>3. CASE req[w].cur.type = "IMG"
    <3>1. pc'[w] = "image" /\ req'[w] = req[w]
      BY <1>1, <1>2, <1>5, <2>3, GotoLocals DEF DiskOn, Goto
    <3>2. "image" \in RowSteps /\ "image" \in MountSteps \ {"union"}
      BY DEF RowSteps, MountSteps, ImageSteps
    <3>3. QED
      BY <1>1, <2>1, <2>3, <3>1, <3>2, RowSteady
  <2>4. QED
    BY <1>1, <2>2, <2>3
<1>6. CASE ImageProbe(w) \/ ImageAllocate(w) \/ ImageFormat(w)
  <2>1. /\ pc[w] \in ImageSteps /\ pc'[w] \in ImageSteps /\ req'[w] = req[w]
        /\ mounted' = mounted /\ loops' = loops
    BY <1>1, <1>2, <1>6, GotoLocals DEF ImageProbe, ImageAllocate, ImageFormat, Goto, ImageSteps
  <2>2. ImageSteps \subseteq RowSteps /\ ImageSteps \subseteq MountSteps \ {"union"}
    BY DEF RowSteps, MountSteps, ImageSteps
  <2>3. QED
    BY <1>1, <2>1, <2>2, RowSteady
<1>7. CASE LoopOn(w)
  <2>1. /\ Mounted(w) /\ mounted' = mounted
        /\ loops' = loops \union {Image(req[w].cur.uuid)}
    BY <1>2, <1>7 DEF LoopOn
  <2>2. req[w].cur.uuid \in mounted
    BY <1>1, <1>7 DEF LoopOn, ImageSteps
  <2>3. OnItsDisk(req[w].cur)'
    <3>1. req'[w].cur = req[w].cur
      BY <1>1, <2>1, GotoLocals DEF Request, Mounted
    <3>2. QED
      BY <2>1, <2>2, <3>1 DEF OnItsDisk, Image
  <2>4. QED
    BY <1>1, <2>1, <2>3, RowMounted
<1>8. QED
  BY <1>3, <1>4, <1>5, <1>6, <1>7

(* A request that runs alone mounts what the table lists.                  *)
THEOREM CleanInvariance == Spec => []CleanInv
<1> USE DEF devVars, mntVars
<1>1. Init => CleanInv
  BY DEF Init, CleanInv, OneRow, TidyAlone
<1>2. TypeOK /\ CleanInv /\ [Next]_vars => CleanInv'
  <2> SUFFICES ASSUME TypeOK, CleanInv, [Next]_vars
               PROVE  CleanInv'
    OBVIOUS
  <2>1. ASSUME NEW w \in Workers, ApplyStep(w)
        PROVE  CleanInv'
    <3>1. /\ rows' = rows /\ tidy' \subseteq tidy /\ pc[w] # "idle"
          /\ \A x \in Workers \ {w} : pc'[x] = pc[x] /\ req'[x] = req[x]
      BY <2>1, ApplyFrame
    <3>2. OneRow'
      BY <3>1 DEF CleanInv, OneRow
    <3>3. ASSUME w \in tidy'
          PROVE  (ListInv(w) /\ RowInv(w) /\ MountedInv(w))'
      <4>1. w \in tidy
        BY <3>1, <3>3
      <4>2. CASE ApplyUnion(w)
        BY <4>2, AnswerClean DEF ApplyUnion
      <4>3. QED
        BY <2>1, <3>3, <4>1, <4>2, ApplyStarts, NextRow, MountsRow DEF ApplyStep
    <3>4. QED
      BY <3>1, <3>2, <3>3, WorkerStep
  <2>2. ASSUME NEW w \in Workers, Crash(w)
        PROVE  CleanInv'
    <3>1. /\ rows' = rows /\ tidy' = tidy /\ pc[w] # "idle"
          /\ \A x \in Workers \ {w} : pc'[x] = pc[x] /\ req'[x] = req[x]
      BY <2>2 DEF Crash, Answer, TypeOK
    <3>2. OneRow'
      BY <3>1 DEF CleanInv, OneRow
    <3>3. (ListInv(w) /\ RowInv(w) /\ MountedInv(w))'
      BY <2>2, AnswerClean DEF Crash
    <3>4. QED
      BY <3>1, <3>2, <3>3, WorkerStep
  <2>3. ASSUME NEW w \in Workers, NEW step \in {"umount", "delete"}, NEW r, r.mounts = {},
               Begin(w, step, r), rows' = rows
        PROVE  CleanInv'
    <3>1. /\ pc'[w] = step /\ req'[w] = r
          /\ \A x \in Workers \ {w} : pc'[x] = pc[x]
          /\ tidy' \subseteq {w}
          /\ tidy' # {} => \A x \in Workers \ {w} : pc[x] = "idle"
      BY <2>3 DEF Begin, TypeOK
    <3>2. OneRow'
      BY <2>3 DEF CleanInv, OneRow
    <3>3. TidyAlone'
      BY <3>1 DEF TidyAlone
    <3>4. (ListInv(w) /\ RowInv(w) /\ MountedInv(w))'
      BY <2>3, <3>1, NothingMounted DEF MountSteps, ImageSteps
    <3>5. QED
      BY <3>1, <3>2, <3>3, <3>4 DEF CleanInv
  <2>4. ASSUME NEW w \in Workers, NEW d \in Devs, NEW type \in Types, AppendBegin(w, d, type)
        PROVE  CleanInv'
    <3>1. [NoRequest EXCEPT !.dev = d, !.type = type].mounts = {}
      BY DEF NoRequest
    <3>2. QED
      BY <2>3, <2>4, <3>1 DEF AppendBegin
  <2>5. ASSUME NEW w \in Workers, NEW r \in rows, RemoveBegin(w, r)
        PROVE  CleanInv'
    <3>1. [NoRequest EXCEPT !.uuid = r.uuid].mounts = {}
      BY DEF NoRequest
    <3>2. QED
      BY <2>3, <2>5, <3>1 DEF RemoveBegin
  <2>6. CASE Reboot
    <3>1. /\ rows' = rows /\ tidy' = tidy
          /\ \A w \in Workers : pc'[w] = "idle" /\ req'[w].mounts = {}
      BY <2>6 DEF Reboot, NoRequest
    <3>2. OneRow' /\ TidyAlone'
      BY <3>1 DEF CleanInv, OneRow, TidyAlone
    <3>3. \A w \in tidy' : (ListInv(w) /\ RowInv(w) /\ MountedInv(w))'
      BY <3>1, NothingMounted DEF TypeOK, MountSteps, ImageSteps
    <3>4. QED
      BY <3>2, <3>3 DEF CleanInv
  <2>7. CASE UNCHANGED vars \/ \E d \in Devs : Replug(d)
    <3>1. UNCHANGED <<rows, tidy, pc, req, mounted, loops>>
      BY <2>7 DEF vars, Replug
    <3>2. QED
      BY <3>1 DEF CleanInv, OneRow, TidyAlone, ListInv, RowInv, MountedInv, OnItsDisk, Shown
  <2>8. QED
    BY <2>1, <2>2, <2>4, <2>5, <2>6, <2>7, BeforeApply DEF Next, Step, ApplyStep
<1>3. QED
  BY <1>1, <1>2, TypeCorrect, PTL DEF Spec

(* A request that ran alone and met neither an inactive disk nor a failing *)
(* mount makes /nfs show exactly the disks of the table, each on its disk, *)
(* whatever earlier races, crashes and failures left behind.               *)
THEOREM CleanApplyServesTableHolds == Spec => CleanApplyServesTable
<1> DEFINE Served(w) ==
      LET shown == {r \in rows : r.type # "VHD"}
      IN  Answers(w, "SUCCESS") /\ w \in tidy' /\ shown # {}
          => nfs' # <<>> /\ Head(nfs') = shown /\ \A r \in shown : OnItsDisk(r)'
<1>1. TypeOK /\ CleanInv /\ [Next]_vars => \A w \in Workers : Served(w)
  <2> SUFFICES ASSUME TypeOK, CleanInv, [Next]_vars, NEW w \in Workers,
                      Answers(w, "SUCCESS"), w \in tidy', Shown # {}
               PROVE  nfs' # <<>> /\ Head(nfs') = Shown /\ \A r \in Shown : OnItsDisk(r)'
    BY DEF Shown
  <2>1. pc[w] # "idle" /\ pc'[w] = "idle" /\ answer' = "SUCCESS"
    BY DEF Answers
  <2>2. Step(w)
    <3>1. ASSUME NEW x \in Workers \ {w}, Step(x) \/ Crash(x)
          PROVE  FALSE
      <4>1. pc'[w] = pc[w]
        BY <3>1, ApplyFrame
           DEF Step, ApplyStep, Crash, AppendUmount, AppendProbe, AppendMkfs, AppendReprobe, AppendInfo,
               AppendInsert, RemoveRow, Goto, GotoWith, Answer, TypeOK
      <4>2. QED
        BY <2>1, <4>1
    <3>2. ASSUME Crash(w) \/ Reboot
          PROVE  FALSE
      BY <2>1, <3>2 DEF Crash, Reboot, Answer
    <3>3. ASSUME NEW x \in Workers, NEW step \in {"umount", "delete"}, NEW r, Begin(x, step, r)
          PROVE  FALSE
      BY <2>1, <3>3 DEF Begin, TypeOK
    <3>4. ASSUME UNCHANGED vars \/ \E d \in Devs : Replug(d)
          PROVE  FALSE
      BY <2>1, <3>4 DEF vars, Replug
    <3>5. QED
      BY <3>1, <3>2, <3>3, <3>4 DEF Next, AppendBegin, RemoveBegin
  <2>3. CASE \/ AppendUmount(w) \/ AppendProbe(w) \/ AppendMkfs(w) \/ AppendReprobe(w)
             \/ AppendInfo(w) \/ AppendInsert(w) \/ RemoveRow(w) \/ RemoveSelect(w)
    BY <2>1, <2>3
       DEF AppendUmount, AppendProbe, AppendMkfs, AppendReprobe, AppendInfo, AppendInsert, RemoveRow,
           RemoveSelect, Selected, Goto, GotoWith, Answer
  <2>4. CASE AppendSelect(w)
    <3>1. rows = {}
      BY <2>1, <2>4 DEF AppendSelect, Selected, GotoWith, Answer
    <3>2. QED
      BY <3>1 DEF Shown
  <2>5. CASE ApplyCheck(w)
    BY <2>1, <2>5 DEF ApplyCheck, GotoWith
  <2>6. CASE ApplyUmountNfs(w)
    <3>1. req[w].list = {}
      BY <2>1, <2>6 DEF ApplyUmountNfs, Goto, GotoWith
    <3>2. req[w].list = rows
      BY <2>6 DEF CleanInv, ListInv, ApplyUmountNfs
    <3>3. QED
      BY <3>1, <3>2 DEF Shown
  <2>7. CASE ApplyNext(w)
    <3>1. req[w].todo = {} /\ req[w].mounts = {}
      BY <2>1, <2>7 DEF ApplyNext, Goto, GotoWith
    <3>2. pc[w] = "disk" /\ w \in tidy
      BY <2>7 DEF ApplyNext
    <3>3. QED
      BY <3>1, <3>2 DEF CleanInv, MountedInv, RowSteps, MountSteps, ImageSteps
  <2>8. CASE LoopOff(w) \/ DiskOff(w) \/ DiskOn(w) \/ ImageProbe(w) \/ ImageAllocate(w)
             \/ ImageFormat(w) \/ LoopOn(w)
    BY <2>1, <2>8
       DEF LoopOff, DiskOff, DiskOn, ImageProbe, ImageAllocate, ImageFormat, LoopOn, Mounted, GiveUp,
           Goto, GotoWith
  <2>9. CASE ApplyUnion(w)
    <3>1. /\ w \in tidy /\ pc[w] = "union" /\ nfs' = <<req[w].mounts>> \o nfs
          /\ mounted' = mounted /\ loops' = loops
      BY <2>9 DEF ApplyUnion
    <3>2. req[w].mounts = Shown /\ \A r \in Shown : OnItsDisk(r)
      BY <3>1 DEF CleanInv, ListInv, MountedInv, RowSteps, MountSteps, ImageSteps
    <3>3. nfs' # <<>> /\ Head(nfs') = Shown
      <4>1. req[w].mounts \in SUBSET Rows /\ nfs \in Seq(SUBSET Rows)
        BY ReqFields DEF TypeOK
      <4>2. QED
        BY <3>1, <3>2, <4>1
    <3>4. QED
      BY <3>1, <3>2, <3>3 DEF OnItsDisk
  <2>10. QED
    BY <2>2, <2>3, <2>4, <2>5, <2>6, <2>7, <2>8, <2>9 DEF Step
<1>2. QED
  BY <1>1, TypeCorrect, CleanInvariance, PTL DEF Spec, CleanApplyServesTable, Served
=============================================================================
