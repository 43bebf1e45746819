---------------------------- MODULE AccountProofs ----------------------------
(***************************************************************************)
(* Proofs about the accounts and the files of their users: AccountManager, *)
(* for any number of workers, users, passwords and disks; AdminAuth, for   *)
(* any number of workers, secrets and moments; FileTransfer, for any       *)
(* number of workers, names, texts and ranges.                             *)
(***************************************************************************)
EXTENDS AccountManager, AdminAuth, FileTransfer, FiniteSetTheorems, SequenceTheorems, TLAPS

USE RefusedAssumption, NoneAssumption DEF RefusedAssumption, NoneAssumption

(* Every variable keeps its type.                                          *)
THEOREM TypeCorrect == Spec => []TypeOK
<1>1. Init => TypeOK
  BY DEF Init, TypeOK, Codes
<1>2. TypeOK /\ [Next]_vars => TypeOK'
  <2> SUFFICES ASSUME TypeOK, [Next]_vars
               PROVE  TypeOK'
    OBVIOUS
  <2> USE DEF TypeOK, dbVars, osVars, reqVars, failVars, CreateSteps, RemoveSteps, Codes, Goto, Answer
  <2>1. ASSUME NEW w \in Workers, CreateSelect(w)
         PROVE  TypeOK'
    BY <2>1 DEF CreateSelect
  <2>2. ASSUME NEW w \in Workers, CreateDisks(w)
         PROVE  TypeOK'
    BY <2>2 DEF CreateDisks
  <2>3. ASSUME NEW w \in Workers, CreateBlkid(w)
         PROVE  TypeOK'
    BY <2>3 DEF CreateBlkid
  <2>4. ASSUME NEW w \in Workers, UserAdd(w)
         PROVE  TypeOK'
    BY <2>4 DEF UserAdd, UserAddWith
  <2>5. ASSUME NEW w \in Workers, ChPasswd(w)
         PROVE  TypeOK'
    BY <2>5 DEF ChPasswd, ChPasswdWith
  <2>6. ASSUME NEW w \in Workers, CreateRollback(w)
         PROVE  TypeOK'
    BY <2>6 DEF CreateRollback, UserDel
  <2>7. ASSUME NEW w \in Workers, UserMod(w)
         PROVE  TypeOK'
    BY <2>7 DEF UserMod
  <2>8. ASSUME NEW w \in Workers, CreateInsert(w)
         PROVE  TypeOK'
    BY <2>8 DEF CreateInsert, DbFails, DbFailsLate
  <2>9. ASSUME NEW w \in Workers, RemoveRow(w)
         PROVE  TypeOK'
    BY <2>9 DEF RemoveRow, DbFails, DbFailsLate
  <2>10. ASSUME NEW w \in Workers, RemoveAccount(w)
         PROVE  TypeOK'
    BY <2>10 DEF RemoveAccount, UserDel
  <2>11. ASSUME NEW w \in Workers, Crash(w)
         PROVE  TypeOK'
    BY <2>11 DEF Crash
  <2>12. ASSUME NEW w \in Workers, NEW u \in Users, RemoveBegin(w, u)
         PROVE  TypeOK'
    BY <2>12 DEF RemoveBegin, Begin
  <2>13. ASSUME NEW w \in Workers, NEW u \in Users, NEW p \in Passwords, CreateBegin(w, u, p)
         PROVE  TypeOK'
    BY <2>13 DEF CreateBegin, Begin
  <2>14. CASE PoolChanges
    BY <2>14 DEF PoolChanges
  <2>15. CASE UNCHANGED vars
    BY <2>15 DEF vars
  <2>16. QED
    BY <2>1, <2>2, <2>3, <2>4, <2>5, <2>6, <2>7, <2>8, <2>9, <2>10, <2>11, <2>12, <2>13, <2>14, <2>15 DEF Next, Step
<1>3. QED
  BY <1>1, <1>2, PTL DEF Spec

(* The inductive invariant; one step per action, one per conjunct.         *)
THEOREM Invariance == Spec => []IInv
<1>1. Init => IInv
  BY DEF Init, IInv, TypeOK, RowHasAccount, OneCreator, OverlapsAreMarked, OwnerInv, LeftInv, NoReplyYet, Owns,
         Creating, Removing, CreateSteps, RemoveSteps, Codes
<1>2. IInv /\ TypeOK' /\ [Next]_vars => IInv'
  <2> SUFFICES ASSUME TypeOK, RowHasAccount, OneCreator, OverlapsAreMarked, OwnerInv, LeftInv, NoReplyYet, TypeOK',
                      [Next]_vars
               PROVE  RowHasAccount' /\ OneCreator' /\ OverlapsAreMarked' /\ OwnerInv' /\ LeftInv' /\ NoReplyYet'
    BY DEF IInv
  <2> USE DEF TypeOK, dbVars, osVars, reqVars, failVars, CreateSteps, RemoveSteps, Goto, Answer,
              Owns, Creating, Removing
  <2>1. ASSUME NEW w \in Workers, CreateSelect(w)
         PROVE  RowHasAccount' /\ OneCreator' /\ OverlapsAreMarked' /\ OwnerInv' /\ LeftInv' /\ NoReplyYet'
    <3>1. RowHasAccount'
      BY <2>1 DEF CreateSelect, RowHasAccount, OwnerInv, OverlapsAreMarked
    <3>2. OneCreator'
      BY <2>1 DEF CreateSelect, OneCreator, OwnerInv
    <3>3. OverlapsAreMarked'
      BY <2>1 DEF CreateSelect, OverlapsAreMarked
    <3>4. OwnerInv'
      BY <2>1 DEF CreateSelect, OwnerInv, RowHasAccount, OneCreator, OverlapsAreMarked
    <3>5. LeftInv'
      BY <2>1 DEF CreateSelect, LeftInv, OwnerInv, OneCreator, OverlapsAreMarked
    <3>6. NoReplyYet'
      BY <2>1 DEF CreateSelect, NoReplyYet
    <3>7. QED
      BY <3>1, <3>2, <3>3, <3>4, <3>5, <3>6
  <2>2. ASSUME NEW w \in Workers, CreateDisks(w)
         PROVE  RowHasAccount' /\ OneCreator' /\ OverlapsAreMarked' /\ OwnerInv' /\ LeftInv' /\ NoReplyYet'
    <3>1. RowHasAccount'
      BY <2>2 DEF CreateDisks, RowHasAccount, OwnerInv, OverlapsAreMarked
    <3>2. OneCreator'
      BY <2>2 DEF CreateDisks, OneCreator, OwnerInv
    <3>3. OverlapsAreMarked'
      BY <2>2 DEF CreateDisks, OverlapsAreMarked
    <3>4. OwnerInv'
      BY <2>2 DEF CreateDisks, OwnerInv, RowHasAccount, OneCreator, OverlapsAreMarked
    <3>5. LeftInv'
      BY <2>2 DEF CreateDisks, LeftInv, OwnerInv, OneCreator, OverlapsAreMarked
    <3>6. NoReplyYet'
      BY <2>2 DEF CreateDisks, NoReplyYet
    <3>7. QED
      BY <3>1, <3>2, <3>3, <3>4, <3>5, <3>6
  <2>3. ASSUME NEW w \in Workers, CreateBlkid(w)
         PROVE  RowHasAccount' /\ OneCreator' /\ OverlapsAreMarked' /\ OwnerInv' /\ LeftInv' /\ NoReplyYet'
    <3>1. RowHasAccount'
      BY <2>3 DEF CreateBlkid, RowHasAccount, OwnerInv, OverlapsAreMarked
    <3>2. OneCreator'
      BY <2>3 DEF CreateBlkid, OneCreator, OwnerInv
    <3>3. OverlapsAreMarked'
      BY <2>3 DEF CreateBlkid, OverlapsAreMarked
    <3>4. OwnerInv'
      BY <2>3 DEF CreateBlkid, OwnerInv, RowHasAccount, OneCreator, OverlapsAreMarked
    <3>5. LeftInv'
      BY <2>3 DEF CreateBlkid, LeftInv, OwnerInv, OneCreator, OverlapsAreMarked
    <3>6. NoReplyYet'
      BY <2>3 DEF CreateBlkid, NoReplyYet
    <3>7. QED
      BY <3>1, <3>2, <3>3, <3>4, <3>5, <3>6
  <2>4. ASSUME NEW w \in Workers, UserAdd(w)
         PROVE  RowHasAccount' /\ OneCreator' /\ OverlapsAreMarked' /\ OwnerInv' /\ LeftInv' /\ NoReplyYet'
    <3>1. RowHasAccount'
      BY <2>4 DEF UserAdd, UserAddWith, RowHasAccount, OwnerInv, OverlapsAreMarked
    <3>2. OneCreator'
      BY <2>4 DEF UserAdd, UserAddWith, OneCreator, OwnerInv
    <3>3. OverlapsAreMarked'
      BY <2>4 DEF UserAdd, UserAddWith, OverlapsAreMarked
    <3>4. OwnerInv'
      BY <2>4 DEF UserAdd, UserAddWith, OwnerInv, RowHasAccount, OneCreator, OverlapsAreMarked
    <3>5. LeftInv'
      BY <2>4 DEF UserAdd, UserAddWith, LeftInv, OwnerInv, OneCreator, OverlapsAreMarked
    <3>6. NoReplyYet'
      BY <2>4 DEF UserAdd, UserAddWith, NoReplyYet
    <3>7. QED
      BY <3>1, <3>2, <3>3, <3>4, <3>5, <3>6
  <2>5. ASSUME NEW w \in Workers, ChPasswd(w)
         PROVE  RowHasAccount' /\ OneCreator' /\ OverlapsAreMarked' /\ OwnerInv' /\ LeftInv' /\ NoReplyYet'
    <3>1. RowHasAccount'
      BY <2>5 DEF ChPasswd, ChPasswdWith, RowHasAccount, OwnerInv, OverlapsAreMarked
    <3>2. OneCreator'
      BY <2>5 DEF ChPasswd, ChPasswdWith, OneCreator, OwnerInv
    <3>3. OverlapsAreMarked'
      BY <2>5 DEF ChPasswd, ChPasswdWith, OverlapsAreMarked
    <3>4. OwnerInv'
      BY <2>5 DEF ChPasswd, ChPasswdWith, OwnerInv, RowHasAccount, OneCreator, OverlapsAreMarked
    <3>5. LeftInv'
      BY <2>5 DEF ChPasswd, ChPasswdWith, LeftInv, OwnerInv, OneCreator, OverlapsAreMarked
    <3>6. NoReplyYet'
      BY <2>5 DEF ChPasswd, ChPasswdWith, NoReplyYet
    <3>7. QED
      BY <3>1, <3>2, <3>3, <3>4, <3>5, <3>6
  <2>6. ASSUME NEW w \in Workers, CreateRollback(w)
         PROVE  RowHasAccount' /\ OneCreator' /\ OverlapsAreMarked' /\ OwnerInv' /\ LeftInv' /\ NoReplyYet'
    <3>1. RowHasAccount'
      BY <2>6 DEF CreateRollback, UserDel, RowHasAccount, OwnerInv, OverlapsAreMarked
    <3>2. OneCreator'
      BY <2>6 DEF CreateRollback, UserDel, OneCreator, OwnerInv
    <3>3. OverlapsAreMarked'
      BY <2>6 DEF CreateRollback, UserDel, OverlapsAreMarked
    <3>4. OwnerInv'
      BY <2>6 DEF CreateRollback, UserDel, OwnerInv, RowHasAccount, OneCreator, OverlapsAreMarked
    <3>5. LeftInv'
      BY <2>6 DEF CreateRollback, UserDel, LeftInv, OwnerInv, OneCreator, OverlapsAreMarked
    <3>6. NoReplyYet'
      BY <2>6 DEF CreateRollback, UserDel, NoReplyYet
    <3>7. QED
      BY <3>1, <3>2, <3>3, <3>4, <3>5, <3>6
  <2>7. ASSUME NEW w \in Workers, UserMod(w)
         PROVE  RowHasAccount' /\ OneCreator' /\ OverlapsAreMarked' /\ OwnerInv' /\ LeftInv' /\ NoReplyYet'
    <3>1. RowHasAccount'
      BY <2>7 DEF UserMod, RowHasAccount, OwnerInv, OverlapsAreMarked
    <3>2. OneCreator'
      BY <2>7 DEF UserMod, OneCreator, OwnerInv
    <3>3. OverlapsAreMarked'
      BY <2>7 DEF UserMod, OverlapsAreMarked
    <3>4. OwnerInv'
      BY <2>7 DEF UserMod, OwnerInv, RowHasAccount, OneCreator, OverlapsAreMarked
    <3>5. LeftInv'
      BY <2>7 DEF UserMod, LeftInv, OwnerInv, OneCreator, OverlapsAreMarked
    <3>6. NoReplyYet'
      BY <2>7 DEF UserMod, NoReplyYet
    <3>7. QED
      BY <3>1, <3>2, <3>3, <3>4, <3>5, <3>6
  <2>8. ASSUME NEW w \in Workers, CreateInsert(w)
         PROVE  RowHasAccount' /\ OneCreator' /\ OverlapsAreMarked' /\ OwnerInv' /\ LeftInv' /\ NoReplyYet'
    <3>1. RowHasAccount'
      BY <2>8 DEF CreateInsert, DbFails, DbFailsLate, RowHasAccount, OwnerInv, OverlapsAreMarked
    <3>2. OneCreator'
      BY <2>8 DEF CreateInsert, DbFails, DbFailsLate, OneCreator, OwnerInv
    <3>3. OverlapsAreMarked'
      BY <2>8 DEF CreateInsert, DbFails, DbFailsLate, OverlapsAreMarked
    <3>4. OwnerInv'
      BY <2>8 DEF CreateInsert, DbFails, DbFailsLate, OwnerInv, RowHasAccount, OneCreator, OverlapsAreMarked
    <3>5. LeftInv'
      BY <2>8 DEF CreateInsert, DbFails, DbFailsLate, LeftInv, OwnerInv, OneCreator, OverlapsAreMarked
    <3>6. NoReplyYet'
      BY <2>8 DEF CreateInsert, NoReplyYet
    <3>7. QED
      BY <3>1, <3>2, <3>3, <3>4, <3>5, <3>6
  <2>9. ASSUME NEW w \in Workers, RemoveRow(w)
         PROVE  RowHasAccount' /\ OneCreator' /\ OverlapsAreMarked' /\ OwnerInv' /\ LeftInv' /\ NoReplyYet'
    <3>1. RowHasAccount'
      BY <2>9 DEF RemoveRow, DbFails, DbFailsLate, RowHasAccount, OwnerInv, OverlapsAreMarked
    <3>2. OneCreator'
      BY <2>9 DEF RemoveRow, DbFails, DbFailsLate, OneCreator, OwnerInv
    <3>3. OverlapsAreMarked'
      BY <2>9 DEF RemoveRow, DbFails, DbFailsLate, OverlapsAreMarked
    <3>4. OwnerInv'
      BY <2>9 DEF RemoveRow, DbFails, DbFailsLate, OwnerInv, RowHasAccount, OneCreator, OverlapsAreMarked
    <3>5. LeftInv'
      BY <2>9 DEF RemoveRow, DbFails, DbFailsLate, LeftInv, OwnerInv, OneCreator, OverlapsAreMarked
    <3>6. NoReplyYet'
      BY <2>9 DEF RemoveRow, NoReplyYet
    <3>7. QED
      BY <3>1, <3>2, <3>3, <3>4, <3>5, <3>6
  <2>10. ASSUME NEW w \in Workers, RemoveAccount(w)
         PROVE  RowHasAccount' /\ OneCreator' /\ OverlapsAreMarked' /\ OwnerInv' /\ LeftInv' /\ NoReplyYet'
    <3>1. RowHasAccount'
      BY <2>10 DEF RemoveAccount, UserDel, RowHasAccount, OwnerInv, OverlapsAreMarked
    <3>2. OneCreator'
      BY <2>10 DEF RemoveAccount, UserDel, OneCreator, OwnerInv
    <3>3. OverlapsAreMarked'
      BY <2>10 DEF RemoveAccount, UserDel, OverlapsAreMarked
    <3>4. OwnerInv'
      BY <2>10 DEF RemoveAccount, UserDel, OwnerInv, RowHasAccount, OneCreator, OverlapsAreMarked
    <3>5. LeftInv'
      BY <2>10 DEF RemoveAccount, UserDel, LeftInv, OwnerInv, OneCreator, OverlapsAreMarked
    <3>6. NoReplyYet'
      BY <2>10 DEF RemoveAccount, UserDel, NoReplyYet
    <3>7. QED
      BY <3>1, <3>2, <3>3, <3>4, <3>5, <3>6
  <2>11. ASSUME NEW w \in Workers, Crash(w)
         PROVE  RowHasAccount' /\ OneCreator' /\ OverlapsAreMarked' /\ OwnerInv' /\ LeftInv' /\ NoReplyYet'
    <3>1. RowHasAccount'
      BY <2>11 DEF Crash, RowHasAccount, OwnerInv, OverlapsAreMarked
    <3>2. OneCreator'
      BY <2>11 DEF Crash, OneCreator, OwnerInv
    <3>3. OverlapsAreMarked'
      BY <2>11 DEF Crash, OverlapsAreMarked
    <3>4. OwnerInv'
      BY <2>11 DEF Crash, OwnerInv, RowHasAccount, OneCreator, OverlapsAreMarked
    <3>5. LeftInv'
      BY <2>11 DEF Crash, LeftInv, OwnerInv, OneCreator, OverlapsAreMarked
    <3>6. NoReplyYet'
      BY <2>11 DEF Crash, NoReplyYet
    <3>7. QED
      BY <3>1, <3>2, <3>3, <3>4, <3>5, <3>6
  <2>12. ASSUME NEW w \in Workers, NEW u \in Users, RemoveBegin(w, u)
         PROVE  RowHasAccount' /\ OneCreator' /\ OverlapsAreMarked' /\ OwnerInv' /\ LeftInv' /\ NoReplyYet'
    <3>1. RowHasAccount'
      BY <2>12 DEF RemoveBegin, Begin, RowHasAccount, OwnerInv, OverlapsAreMarked
    <3>2. OneCreator'
      BY <2>12 DEF RemoveBegin, Begin, OneCreator, OwnerInv
    <3>3. OverlapsAreMarked'
      BY <2>12 DEF RemoveBegin, Begin, OverlapsAreMarked
    <3>4. OwnerInv'
      BY <2>12 DEF RemoveBegin, Begin, OwnerInv, RowHasAccount, OneCreator, OverlapsAreMarked
    <3>5. LeftInv'
      BY <2>12 DEF RemoveBegin, Begin, LeftInv, OwnerInv, OneCreator, OverlapsAreMarked
    <3>6. NoReplyYet'
      BY <2>12 DEF RemoveBegin, Begin, NoReplyYet
    <3>7. QED
      BY <3>1, <3>2, <3>3, <3>4, <3>5, <3>6
  <2>13. ASSUME NEW w \in Workers, NEW u \in Users, NEW p \in Passwords, CreateBegin(w, u, p)
         PROVE  RowHasAccount' /\ OneCreator' /\ OverlapsAreMarked' /\ OwnerInv' /\ LeftInv' /\ NoReplyYet'
    <3>1. RowHasAccount'
      BY <2>13 DEF CreateBegin, Begin, RowHasAccount, OwnerInv, OverlapsAreMarked
    <3>2. OneCreator'
      BY <2>13 DEF CreateBegin, Begin, OneCreator, OwnerInv
    <3>3. OverlapsAreMarked'
      BY <2>13 DEF CreateBegin, Begin, OverlapsAreMarked
    <3>4. OwnerInv'
      BY <2>13 DEF CreateBegin, Begin, OwnerInv, RowHasAccount, OneCreator, OverlapsAreMarked
    <3>5. LeftInv'
      BY <2>13 DEF CreateBegin, Begin, LeftInv, OwnerInv, OneCreator, OverlapsAreMarked
    <3>6. NoReplyYet'
      BY <2>13 DEF CreateBegin, Begin, NoReplyYet
    <3>7. QED
      BY <3>1, <3>2, <3>3, <3>4, <3>5, <3>6
  <2>14. CASE PoolChanges
    BY <2>14 DEF PoolChanges, RowHasAccount, OneCreator, OverlapsAreMarked, OwnerInv, LeftInv, NoReplyYet
  <2>15. CASE UNCHANGED vars
    BY <2>15 DEF vars, RowHasAccount, OneCreator, OverlapsAreMarked, OwnerInv, LeftInv, NoReplyYet
  <2>16. QED
    BY <2>1, <2>2, <2>3, <2>4, <2>5, <2>6, <2>7, <2>8, <2>9, <2>10, <2>11, <2>12, <2>13, <2>14, <2>15 DEF Next, Step
<1>3. QED
  BY <1>1, <1>2, TypeCorrect, PTL DEF Spec

(* Every registered user no create and remove of which overlapped has the  *)
(* account that belongs to the row.                                        *)
THEOREM RowHasAccountHolds == Spec => []RowHasAccount
<1>1. IInv => RowHasAccount
  BY DEF IInv
<1>2. QED
  BY <1>1, Invariance, PTL

(* Concurrent creates of a name are serialised by useradd.                 *)
THEOREM OneCreatorHolds == Spec => []OneCreator
<1>1. IInv => OneCreator
  BY DEF IInv
<1>2. QED
  BY <1>1, Invariance, PTL

(* The rollback of a create never takes a registered user's account.       *)
THEOREM RollbackIsHarmlessHolds == Spec => []RollbackIsHarmless
<1>1. IInv => RollbackIsHarmless
  BY DEF IInv, OwnerInv, RollbackIsHarmless, Owns
<1>2. QED
  BY <1>1, Invariance, PTL

(* A remove that answers SUCCESS leaves no row, and no account but one     *)
(* userdel failed on; such an account is nobody's until it is deleted.     *)
THEOREM RemovedIsGoneHolds == Spec => RemovedIsGone
<1> DEFINE Gone == \A w \in Workers :
                     Removing(w) /\ Answers(w, "SUCCESS") /\ user[w] \notin raced'
                     => /\ rows'[user[w]] = None
                        /\ account'[user[w]] = None \/ user[w] \in undeleted'
           Left == \A u \in (undeleted \intersect undeleted') \ raced' :
                     rows'[u] = None /\ account'[u] = account[u]
<1>1. IInv /\ [Next]_vars => [Gone]_vars
  <2> SUFFICES ASSUME IInv, [Next]_vars, NEW w \in Workers,
                      Removing(w), Answers(w, "SUCCESS"), user[w] \notin raced'
               PROVE  /\ rows'[user[w]] = None
                      /\ account'[user[w]] = None \/ user[w] \in undeleted'
    OBVIOUS
  <2> USE DEF IInv, TypeOK, Answers, Removing, RemoveSteps, dbVars, osVars, reqVars, failVars, Goto, Answer
  <2>1. PICK x \in Workers : RemoveAccount(x)
    <3>1. ASSUME NEW x \in Workers,
                 \/ CreateSelect(x) \/ CreateDisks(x) \/ CreateBlkid(x) \/ UserAdd(x) \/ ChPasswd(x)
                 \/ CreateRollback(x) \/ UserMod(x) \/ CreateInsert(x)
          PROVE  FALSE
      BY <3>1 DEF CreateSelect, CreateDisks, CreateBlkid, UserAdd, UserAddWith, ChPasswd, ChPasswdWith,
                  CreateRollback, UserMod, CreateInsert
    <3>2. ASSUME NEW x \in Workers, RemoveRow(x) \/ Crash(x)
          PROVE  FALSE
      BY <3>2 DEF RemoveRow, DbFails, DbFailsLate, Crash, NoReplyYet
    <3>3. ASSUME NEW x \in Workers, NEW u \in Users, RemoveBegin(x, u)
          PROVE  FALSE
      BY <3>3 DEF RemoveBegin, Begin
    <3>4. ASSUME NEW x \in Workers, NEW u \in Users, NEW p \in Passwords, CreateBegin(x, u, p)
          PROVE  FALSE
      BY <3>4 DEF CreateBegin, Begin
    <3>5. ~PoolChanges /\ ~UNCHANGED vars
      BY DEF PoolChanges, vars
    <3>6. QED
      BY <3>1, <3>2, <3>3, <3>4, <3>5 DEF Next, Step
  <2>2. x = w
    BY <2>1 DEF RemoveAccount
  <2>3. rows[user[w]] = None
    BY <2>1, <2>2 DEF RemoveAccount, OwnerInv
  <2>4. QED
    BY <2>1, <2>2, <2>3 DEF RemoveAccount, UserDel
<1>2. IInv /\ IInv' /\ [Next]_vars => [Left]_vars
  <2> SUFFICES ASSUME IInv, IInv', [Next]_vars,
                      NEW u \in Users, u \in undeleted, u \in undeleted', u \notin raced'
               PROVE  rows'[u] = None /\ account'[u] = account[u]
    BY DEF IInv, TypeOK
  <2>1. rows'[u] = None
    BY DEF IInv, LeftInv
  <2>2. u \notin raced
    BY DEF Next, Step, vars, CreateSelect, CreateDisks, CreateBlkid, UserAdd, UserAddWith, ChPasswd,
           ChPasswdWith, CreateRollback, UserMod, CreateInsert, RemoveRow, RemoveAccount, Crash,
           CreateBegin, RemoveBegin, PoolChanges
  <2>3. account[u] # None /\ \A w \in Workers : user[w] = u => ~Owns(w)
    BY <2>2 DEF IInv, LeftInv
  <2> USE DEF IInv, TypeOK, dbVars, osVars, reqVars, failVars, Goto, Answer
  <2>4. ASSUME NEW w \in Workers, UserAdd(w)
        PROVE  account'[u] = account[u]
    BY <2>3, <2>4 DEF UserAdd, UserAddWith
  <2>5. ASSUME NEW w \in Workers, ChPasswd(w)
        PROVE  account'[u] = account[u]
    BY <2>3, <2>5 DEF ChPasswd, ChPasswdWith, Owns
  <2>6. ASSUME NEW w \in Workers, CreateRollback(w) \/ RemoveAccount(w)
        PROVE  account'[u] = account[u]
    BY <2>6 DEF CreateRollback, RemoveAccount, UserDel
  <2>7. ASSUME NEW w \in Workers,
               \/ CreateSelect(w) \/ CreateDisks(w) \/ CreateBlkid(w) \/ UserMod(w) \/ CreateInsert(w)
               \/ RemoveRow(w) \/ Crash(w)
        PROVE  account' = account
    BY <2>7 DEF CreateSelect, CreateDisks, CreateBlkid, UserMod, CreateInsert, RemoveRow, Crash
  <2>8. ASSUME NEW w \in Workers, NEW v \in Users,
               RemoveBegin(w, v) \/ \E p \in Passwords : CreateBegin(w, v, p)
        PROVE  account' = account
    BY <2>8 DEF RemoveBegin, CreateBegin
  <2>9. CASE PoolChanges \/ UNCHANGED vars
    BY <2>1, <2>9 DEF PoolChanges, vars
  <2>10. QED
    BY <2>1, <2>4, <2>5, <2>6, <2>7, <2>8, <2>9 DEF Next, Step
<1>3. QED
  BY <1>1, <1>2, Invariance, PTL DEF Spec, RemovedIsGone

-----------------------------------------------------------------------------
(* The secret a login is compared with.                                    *)
InForce == IF secret = Absent THEN Default ELSE secret

(* What is in force may be so as far as clients can tell, and so may what  *)
(* changes under way are about to put in force.                            *)
PromiseInv ==
  /\ InForce \in promised
  /\ \A p \in Processes : Modifies(p) => act[p].secret \in promised

(* A login has heard of all that was promised since it began, and one that *)
(* is to insert the row has been compared with the default.                *)
LoginInv ==
  \A p \in Processes : LogsIn(p) =>
    /\ promised \subseteq heard[p]
    /\ act[p].at = "first" => act[p].secret \in heard[p]

(* Two changes under way have heard of each other; the one that is to be   *)
(* answered has been followed only by those it overlapped.                 *)
RivalInv ==
  /\ \A p, q \in Processes :
       p # q /\ Modifies(p) /\ Modifies(q) => act[q].secret \in heard[p]
  /\ \A p \in Processes : act[p].at = "updated" => InForce \in {act[p].secret} \union heard[p]

(* Row 1 stays once it is there; it comes with the first id, and a change  *)
(* gets to its UPDATE only when it has found the row.                      *)
RowInv ==
  /\ fresh => secret = Absent
  /\ \A p \in Processes :
       act[p].at \in {"update", "updated", "unchanged"} => secret # Absent

AdminInv == AdminTypeOK /\ PromiseInv /\ LoginInv /\ RivalInv /\ RowInv

USE DefaultAssumption, ClockAssumption DEF DefaultAssumption, ClockAssumption

(* A worker that goes on, refuses or gives a token keeps the type of every *)
(* variable if its step leaves the clock alone and writes a row of the     *)
(* right type.                                                             *)
WritesOK == secret' \in Secrets \union {Absent} /\ fresh' \in BOOLEAN /\ UNCHANGED timeVars

LEMMA TypeGoOn ==
  ASSUME AdminTypeOK, WritesOK, NEW p \in Processes,
         NEW step \in LoginSteps \union ModifySteps,
         step \in LoginSteps => act[p].token \in Tokens, GoOn(p, step)
  PROVE  AdminTypeOK'
<1> USE DEF AdminTypeOK, Acts, LogsIn, GoOn
<1>1. act' \in [Processes -> Acts]
  OBVIOUS
<1>2. \A q \in Processes : LogsIn(q)' => act'[q].token \in Tokens
  OBVIOUS
<1>3. told' \in [Processes -> Told]
  BY DEF Silence, Told
<1>4. key' \in Moments /\ clock' \in Moments
  BY DEF WritesOK, timeVars
<1>5. QED
  BY <1>1, <1>2, <1>3, <1>4 DEF WritesOK, Tokens, Moments

(* The same for an answer.                                                 *)
LEMMA TypeTell ==
  ASSUME AdminTypeOK, WritesOK, NEW p \in Processes, NEW code \in Told, Tell(p, code),
         tokens' \subseteq Tokens, promised' \subseteq Secrets
  PROVE  AdminTypeOK'
<1> USE DEF AdminTypeOK, Acts, LogsIn, Tell, Idle
<1>1. act' \in [Processes -> Acts]
  OBVIOUS
<1>2. \A q \in Processes : LogsIn(q)' => act'[q].token \in Tokens
  BY DEF LoginSteps
<1>3. told' \in [Processes -> Told]
  BY DEF Silence, Told
<1>4. key' \in Moments /\ clock' \in Moments
  BY DEF WritesOK, timeVars
<1>5. heard' \in [Processes -> SUBSET Secrets]
  OBVIOUS
<1>6. QED
  BY <1>1, <1>2, <1>3, <1>4, <1>5 DEF WritesOK, Tokens, Moments

(* A refusal is such an answer.                                            *)
LEMMA TypeRefuse ==
  ASSUME AdminTypeOK, WritesOK, NEW p \in Processes,
         NEW code \in {"SECRET", "SECRET_SAME", "SYSTEM"}, Refuse(p, code)
  PROVE  AdminTypeOK'
<1>1. code \in Told /\ Tell(p, code)
  BY DEF Told, Refuse
<1>2. tokens' \subseteq Tokens /\ promised' \subseteq Secrets
  BY DEF Refuse, AdminTypeOK
<1>3. QED
  BY <1>1, <1>2, TypeTell

(* And so is a token.                                                      *)
LEMMA TypeGiveToken ==
  ASSUME AdminTypeOK, WritesOK, NEW p \in Processes, LogsIn(p), GiveToken(p)
  PROVE  AdminTypeOK'
<1>1. "SUCCESS" \in Told /\ Tell(p, "SUCCESS")
  BY DEF Told, GiveToken
<1>2. tokens' \subseteq Tokens /\ promised' \subseteq Secrets
  BY DEF GiveToken, AdminTypeOK
<1>3. QED
  BY <1>1, <1>2, TypeTell

(* A step keeps the type of every variable.                                *)
LEMMA TypeStep == AdminTypeOK /\ [AdminNext]_adminVars => AdminTypeOK'
<1> SUFFICES ASSUME AdminTypeOK, [AdminNext]_adminVars
             PROVE  AdminTypeOK'
  OBVIOUS
<1>0. UNCHANGED <<storeVars, timeVars>> => WritesOK
  BY DEF AdminTypeOK, WritesOK, storeVars
<1>1. ASSUME NEW p \in Processes, NEW s \in Secrets, LoginBegin(p, s)
       PROVE  AdminTypeOK'
  <2> USE DEF AdminTypeOK
  <2>1. Signed \in Tokens
    BY DEF Signed, Tokens, Moments
  <2>2. act' \in [Processes -> Acts]
    BY <1>1, <2>1 DEF LoginBegin, Acts, LoginSteps
  <2>3. \A q \in Processes : LogsIn(q)' => act'[q].token \in Tokens
    BY <1>1, <2>1 DEF LoginBegin, LogsIn
  <2>4. told' \in [Processes -> Told] /\ heard' \in [Processes -> SUBSET Secrets]
    BY <1>1 DEF LoginBegin, Silence, Told
  <2>5. QED
    BY <1>1, <2>2, <2>3, <2>4 DEF LoginBegin, storeVars, timeVars, Tokens, Moments
<1>2. ASSUME NEW p \in Processes, NEW s \in Secrets, ModifyBegin(p, s)
       PROVE  AdminTypeOK'
  <2> USE DEF AdminTypeOK
  <2>1. heard' \in [Processes -> SUBSET Secrets]
    BY <1>2 DEF ModifyBegin, Modifies, Acts
  <2>2. act' \in [Processes -> Acts]
    BY <1>2 DEF ModifyBegin, Acts, ModifySteps
  <2>3. \A q \in Processes : LogsIn(q)' => act'[q].token \in Tokens
    BY <1>2 DEF ModifyBegin, LogsIn, LoginSteps
  <2>4. told' \in [Processes -> Told]
    BY <1>2 DEF ModifyBegin, Silence, Told
  <2>5. QED
    BY <1>2, <2>1, <2>2, <2>3, <2>4 DEF ModifyBegin, storeVars, timeVars, Tokens, Moments
<1>3. ASSUME NEW p \in Processes, LoginLookUp(p)
       PROVE  AdminTypeOK'
  <2>1. WritesOK /\ LogsIn(p)
    BY <1>0, <1>3 DEF LoginLookUp, LogsIn, LoginSteps
  <2>2. act[p].token \in Tokens
    BY <2>1 DEF AdminTypeOK
  <2>3. GoOn(p, "first") => AdminTypeOK'
    BY <2>1, <2>2, TypeGoOn DEF LoginSteps
  <2>4. QED
    BY <1>3, <2>1, <2>3, TypeRefuse, TypeGiveToken DEF LoginLookUp
<1>4. ASSUME NEW p \in Processes, LoginFirst(p)
       PROVE  AdminTypeOK'
  <2>1. WritesOK
    BY <1>4 DEF LoginFirst, WritesOK, AdminTypeOK, storeVars
  <2>2. LogsIn(p)
    BY <1>4 DEF LoginFirst, LogsIn, LoginSteps
  <2>3. act[p].token \in Tokens
    BY <2>2 DEF AdminTypeOK
  <2>4. GoOn(p, "first") => AdminTypeOK'
    BY <2>1, <2>3, TypeGoOn DEF LoginSteps
  <2>5. QED
    BY <1>4, <2>1, <2>2, <2>4, TypeRefuse, TypeGiveToken DEF LoginFirst
<1>5. ASSUME NEW p \in Processes, ModifyCompare(p)
       PROVE  AdminTypeOK'
  <2>1. WritesOK
    BY <1>0, <1>5 DEF ModifyCompare
  <2>2. GoOn(p, "update") => AdminTypeOK'
    BY <2>1, TypeGoOn DEF LoginSteps, ModifySteps
  <2>3. QED
    BY <1>5, <2>1, <2>2, TypeRefuse DEF ModifyCompare
<1>6. ASSUME NEW p \in Processes, ModifyUpdate(p)
       PROVE  AdminTypeOK'
  <2>1. act[p].secret \in Secrets
    BY DEF AdminTypeOK, Acts
  <2>2. WritesOK
    BY <1>6, <2>1 DEF ModifyUpdate, WritesOK, AdminTypeOK
  <2>3. ASSUME NEW step \in ModifySteps, GoOn(p, step)
        PROVE  AdminTypeOK'
    BY <2>2, <2>3, TypeGoOn DEF LoginSteps, ModifySteps
  <2>4. ASSUME Refuse(p, "SYSTEM")
        PROVE  AdminTypeOK'
    BY <2>2, <2>4, TypeRefuse
  <2>5. QED
    BY <1>6, <2>3, <2>4 DEF ModifyUpdate, ModifySteps
<1>7. ASSUME NEW p \in Processes, ModifyAnswer(p)
       PROVE  AdminTypeOK'
  <2>1. WritesOK
    BY <1>0, <1>7 DEF ModifyAnswer
  <2>2. tokens' \subseteq Tokens /\ promised' \subseteq Secrets
    BY <1>7 DEF ModifyAnswer, AdminTypeOK
  <2>3. ASSUME NEW code \in Told, Tell(p, code)
        PROVE  AdminTypeOK'
    BY <2>1, <2>2, <2>3, TypeTell
  <2>4. QED
    BY <1>7, <2>3 DEF ModifyAnswer, Told
<1>8. ASSUME NEW p \in Processes, Start(p)
       PROVE  AdminTypeOK'
  <2> USE DEF AdminTypeOK
  <2>1. act' \in [Processes -> Acts]
    BY <1>8 DEF Start, Acts, Idle
  <2>2. \A q \in Processes : LogsIn(q)' => act'[q].token \in Tokens
    BY <1>8 DEF Start, Idle, LogsIn, LoginSteps
  <2>3. told' \in [Processes -> Told] /\ heard' \in [Processes -> SUBSET Secrets]
    BY <1>8 DEF Start, Silence, Told
  <2>4. QED
    BY <1>8, <2>1, <2>2, <2>3 DEF Start, storeVars, Tokens, Moments
<1>9. CASE Tick
  <2>1. told' \in [Processes -> Told]
    BY <1>9 DEF Tick, Silence, Told
  <2>2. clock' \in Moments
    BY <1>9 DEF Tick, AdminTypeOK, Moments
  <2>3. QED
    BY <1>9, <2>1, <2>2 DEF AdminTypeOK, Tick, LogsIn, storeVars, Tokens, Moments
<1>10. CASE UNCHANGED adminVars
  BY <1>10 DEF AdminTypeOK, adminVars, LogsIn, Tokens, Moments
<1>11. QED
  BY <1>1, <1>2, <1>3, <1>4, <1>5, <1>6, <1>7, <1>8, <1>9, <1>10 DEF AdminNext

(* Every variable keeps its type.                                          *)
THEOREM AdminTypeCorrect == AdminSpec => []AdminTypeOK
<1>1. AdminInit => AdminTypeOK
  BY DEF AdminInit, AdminTypeOK, Moments, Acts, Idle, Told, Silence, LogsIn, LoginSteps
<1>2. QED
  BY <1>1, TypeStep, PTL DEF AdminSpec
-----------------------------------------------------------------------------
(* What a worker's step does to what the others are doing.                 *)
LEMMA GoingOn ==
  ASSUME AdminTypeOK, NEW p \in Processes, NEW step, GoOn(p, step)
  PROVE  /\ act'[p].at = step /\ act'[p].secret = act[p].secret
         /\ \A q \in Processes \ {p} : act'[q] = act[q]
         /\ heard' = heard /\ promised' = promised
  BY DEF AdminTypeOK, GoOn, Acts

LEMMA Telling ==
  ASSUME AdminTypeOK, NEW p \in Processes, NEW code, Tell(p, code)
  PROVE  /\ act'[p].at = "idle"
         /\ \A q \in Processes \ {p} : act'[q] = act[q] /\ heard'[q] = heard[q]
  BY DEF AdminTypeOK, Tell, Idle

(* A step in which a worker stops what it does, and neither row 1 nor what *)
(* is promised changes.                                                    *)
LEMMA Stopping ==
  ASSUME AdminInv, AdminTypeOK', NEW p \in Processes,
         act'[p].at = "idle",
         \A q \in Processes \ {p} : act'[q] = act[q] /\ heard'[q] = heard[q],
         promised' = promised, UNCHANGED storeVars
  PROVE  AdminInv'
<1> USE DEF LoginSteps, ModifySteps, LogsIn, Modifies, storeVars
<1>1. PromiseInv'
  BY DEF AdminInv, PromiseInv, InForce
<1>2. LoginInv'
  BY DEF AdminInv, LoginInv
<1>3. RivalInv'
  BY DEF AdminInv, RivalInv, InForce
<1>4. RowInv'
  BY DEF AdminInv, RowInv
<1>5. QED
  BY <1>1, <1>2, <1>3, <1>4 DEF AdminInv

(* A first login inserts the default only where it is in force already.    *)
LEMMA FirstStep ==
  ASSUME AdminInv, AdminTypeOK', NEW p \in Processes, LoginFirst(p)
  PROVE  AdminInv'
<1> USE DEF LoginSteps, ModifySteps, LogsIn, Modifies
<1>1. AdminTypeOK /\ PromiseInv /\ LoginInv /\ RivalInv /\ RowInv
  BY DEF AdminInv
<1>2. InForce' = InForce /\ (secret # Absent => secret' # Absent) /\ (fresh' => secret' = Absent)
  BY <1>1 DEF LoginFirst, InForce, RowInv, storeVars
<1>3. /\ act'[p].at \in {"idle", "first"} /\ promised' = promised
      /\ act'[p].at = "first" => act[p].at = "first" /\ act'[p].secret = act[p].secret /\ heard'[p] = heard[p]
      /\ \A q \in Processes \ {p} : act'[q] = act[q] /\ heard'[q] = heard[q]
  <2>1. act[p].at = "first"
    BY DEF LoginFirst
  <2>2. GiveToken(p) \/ Refuse(p, "SYSTEM") \/ GoOn(p, "first")
    BY DEF LoginFirst
  <2>3. CASE GoOn(p, "first")
    BY <1>1, <2>1, <2>3, GoingOn
  <2>4. CASE GiveToken(p)
    BY <1>1, <2>4, Telling DEF GiveToken
  <2>5. CASE Refuse(p, "SYSTEM")
    BY <1>1, <2>5, Telling DEF Refuse
  <2>6. QED
    BY <2>2, <2>3, <2>4, <2>5
<1>4. PromiseInv'
  BY <1>1, <1>2, <1>3 DEF PromiseInv
<1>5. LoginInv'
  BY <1>1, <1>3 DEF LoginInv
<1>6. RivalInv'
  BY <1>1, <1>2, <1>3 DEF RivalInv
<1>7. RowInv'
  BY <1>1, <1>2, <1>3 DEF RowInv
<1>8. QED
  BY <1>4, <1>5, <1>6, <1>7 DEF AdminInv

(* A change promises its secret to the logins and the changes under way.   *)
LEMMA ModifyBeginStep ==
  ASSUME AdminInv, AdminTypeOK', NEW p \in Processes, NEW s \in Secrets, ModifyBegin(p, s)
  PROVE  AdminInv'
<1> USE DEF LoginSteps, ModifySteps, LogsIn, Modifies
<1>1. AdminTypeOK /\ PromiseInv /\ LoginInv /\ RivalInv /\ RowInv
  BY DEF AdminInv
<1>2. /\ act'[p].at = "compare" /\ act'[p].secret = s
      /\ \A q \in Processes \ {p} : act'[q] = act[q]
      /\ promised' = promised \union {s}
      /\ InForce' = InForce /\ UNCHANGED storeVars
  BY <1>1 DEF ModifyBegin, AdminTypeOK, storeVars, InForce
<1>3. /\ heard'[p] = {act[r].secret : r \in {r \in Processes : Modifies(r)}}
      /\ \A q \in Processes \ {p} :
           LogsIn(q) \/ Modifies(q) => heard'[q] = heard[q] \union {s}
  BY DEF ModifyBegin
<1>4. PromiseInv'
  BY <1>1, <1>2 DEF PromiseInv
<1>5. LoginInv'
  BY <1>1, <1>2, <1>3 DEF LoginInv
<1>6. RivalInv'
  <2>1. ASSUME NEW q \in Processes, NEW r \in Processes, q # r, Modifies(q)', Modifies(r)'
        PROVE  act'[r].secret \in heard'[q]
    <3>1. CASE q = p
      BY <1>2, <1>3, <2>1, <3>1
    <3>2. CASE q # p
      BY <1>1, <1>2, <1>3, <2>1, <3>2 DEF RivalInv
    <3>3. QED
      BY <3>1, <3>2
  <2>2. ASSUME NEW q \in Processes, act'[q].at = "updated"
        PROVE  InForce' \in {act'[q].secret} \union heard'[q]
    BY <1>1, <1>2, <1>3, <2>2 DEF RivalInv
  <2>3. QED
    BY <2>1, <2>2 DEF RivalInv
<1>7. RowInv'
  BY <1>1, <1>2 DEF RowInv, storeVars
<1>8. QED
  BY <1>4, <1>5, <1>6, <1>7 DEF AdminInv

(* An UPDATE puts its own secret in force, which every change under way    *)
(* has heard of.                                                           *)
LEMMA UpdateStep ==
  ASSUME AdminInv, AdminTypeOK', NEW p \in Processes, ModifyUpdate(p)
  PROVE  AdminInv'
<1> USE DEF LoginSteps, ModifySteps, LogsIn, Modifies
<1>1. AdminTypeOK /\ PromiseInv /\ LoginInv /\ RivalInv /\ RowInv
  BY DEF AdminInv
<1>2. /\ act[p].at = "update" /\ secret # Absent /\ secret' # Absent /\ fresh' = fresh
      /\ InForce' = InForce \/ InForce' = act[p].secret
  BY <1>1 DEF ModifyUpdate, RowInv, InForce, AdminTypeOK, Acts
<1>3. /\ promised' = promised
      /\ \A q \in Processes \ {p} : act'[q] = act[q] /\ heard'[q] = heard[q]
      /\ \/ act'[p].at = "idle"
         \/ /\ act'[p].at \in {"update", "updated", "unchanged"}
            /\ act'[p].secret = act[p].secret /\ heard'[p] = heard[p]
            /\ act'[p].at = "updated" => InForce' = act[p].secret
  <2>1. CASE Refuse(p, "SYSTEM")
    BY <1>1, <2>1, Telling DEF Refuse
  <2>2. ASSUME NEW step \in {"update", "updated", "unchanged"}, GoOn(p, step)
        PROVE  /\ act'[p].at = step /\ act'[p].secret = act[p].secret
               /\ \A q \in Processes \ {p} : act'[q] = act[q]
               /\ heard' = heard /\ promised' = promised
    BY <1>1, <2>2, GoingOn
  <2>3. CASE ~ Refuse(p, "SYSTEM")
    <3>1. secret' = act[p].secret
      BY <1>2, <2>3 DEF ModifyUpdate
    <3>2. InForce' = act[p].secret
      BY <1>2, <3>1 DEF InForce
    <3>3. GoOn(p, "update") \/ GoOn(p, "updated") \/ GoOn(p, "unchanged")
      BY <2>3 DEF ModifyUpdate
    <3>4. QED
      BY <2>2, <3>2, <3>3
  <2>4. QED
    BY <2>1, <2>3
<1>4. PromiseInv'
  BY <1>1, <1>2, <1>3 DEF PromiseInv
<1>5. LoginInv'
  BY <1>1, <1>3 DEF LoginInv
<1>6. RivalInv'
  <2>1. \A q \in Processes \ {p} : Modifies(q) => act[p].secret \in heard[q]
    BY <1>1, <1>2 DEF RivalInv
  <2>2. \A q, r \in Processes :
          q # r /\ Modifies(q)' /\ Modifies(r)' => act'[r].secret \in heard'[q]
    BY <1>1, <1>2, <1>3 DEF RivalInv
  <2>3. ASSUME NEW q \in Processes, act'[q].at = "updated"
        PROVE  InForce' \in {act'[q].secret} \union heard'[q]
    <3>1. CASE q = p
      BY <1>3, <2>3, <3>1
    <3>2. CASE q # p
      BY <1>1, <1>2, <1>3, <2>1, <2>3, <3>2 DEF RivalInv
    <3>3. QED
      BY <3>1, <3>2
  <2>4. QED
    BY <2>2, <2>3 DEF RivalInv
<1>7. RowInv'
  BY <1>1, <1>2, <1>3 DEF RowInv
<1>8. QED
  BY <1>4, <1>5, <1>6, <1>7 DEF AdminInv

(* An answered change takes back every promise but its own and those of    *)
(* the changes it overlapped; theirs under way are among them.             *)
LEMMA AnswerStep ==
  ASSUME AdminInv, AdminTypeOK', NEW p \in Processes, ModifyAnswer(p)
  PROVE  AdminInv'
<1> USE DEF LoginSteps, ModifySteps, LogsIn, Modifies
<1>1. AdminTypeOK /\ PromiseInv /\ LoginInv /\ RivalInv /\ RowInv
  BY DEF AdminInv
<1>2. /\ act'[p].at = "idle" /\ UNCHANGED storeVars /\ InForce' = InForce
      /\ \A q \in Processes \ {p} : act'[q] = act[q] /\ heard'[q] = heard[q]
  BY <1>1, Telling DEF ModifyAnswer, InForce, storeVars
<1>3. CASE act[p].at = "unchanged"
  BY <1>2, <1>3, Stopping DEF ModifyAnswer
<1>4. CASE act[p].at = "updated"
  <2>1. promised' = promised \intersect ({act[p].secret} \union heard[p])
    BY <1>4 DEF ModifyAnswer
  <2>2. InForce \in promised'
    BY <1>1, <1>4, <2>1 DEF PromiseInv, RivalInv
  <2>3. \A q \in Processes \ {p} : Modifies(q) => act[q].secret \in promised'
    BY <1>1, <1>4, <2>1 DEF PromiseInv, RivalInv
  <2>4. PromiseInv'
    BY <1>2, <2>2, <2>3 DEF PromiseInv
  <2>5. LoginInv'
    BY <1>1, <1>2, <2>1 DEF LoginInv
  <2>6. RivalInv'
    BY <1>1, <1>2 DEF RivalInv
  <2>7. RowInv'
    BY <1>1, <1>2 DEF RowInv, storeVars
  <2>8. QED
    BY <2>4, <2>5, <2>6, <2>7 DEF AdminInv
<1>5. QED
  BY <1>3, <1>4 DEF ModifyAnswer

(* Every step keeps the inductive invariant.                               *)
LEMMA InvStep == AdminInv /\ [AdminNext]_adminVars => AdminInv'
<1> SUFFICES ASSUME AdminInv, [AdminNext]_adminVars
             PROVE  AdminInv'
  OBVIOUS
<1> USE DEF LoginSteps, ModifySteps, LogsIn, Modifies
<1>1. AdminTypeOK /\ PromiseInv /\ LoginInv /\ RivalInv /\ RowInv
  BY DEF AdminInv
<1>2. AdminTypeOK'
  BY <1>1, TypeStep
<1>3. ASSUME NEW p \in Processes, NEW code, Refuse(p, code), UNCHANGED storeVars
      PROVE  AdminInv'
  BY <1>1, <1>2, <1>3, Telling, Stopping DEF Refuse
<1>4. ASSUME NEW p \in Processes, NEW s \in Secrets, LoginBegin(p, s)
      PROVE  AdminInv'
  <2>1. /\ act'[p].at = "look_up" /\ heard'[p] = promised
        /\ \A q \in Processes \ {p} : act'[q] = act[q] /\ heard'[q] = heard[q]
        /\ promised' = promised /\ InForce' = InForce /\ UNCHANGED storeVars
    BY <1>1, <1>4 DEF LoginBegin, AdminTypeOK, InForce, storeVars
  <2>2. PromiseInv'
    BY <1>1, <2>1 DEF PromiseInv
  <2>3. LoginInv'
    BY <1>1, <2>1 DEF LoginInv
  <2>4. RivalInv'
    BY <1>1, <2>1 DEF RivalInv
  <2>5. RowInv'
    BY <1>1, <2>1 DEF RowInv, storeVars
  <2>6. QED
    BY <1>2, <2>2, <2>3, <2>4, <2>5 DEF AdminInv
<1>5. ASSUME NEW p \in Processes, LoginLookUp(p)
      PROVE  AdminInv'
  <2>1. act[p].at = "look_up" /\ UNCHANGED storeVars
    BY <1>5 DEF LoginLookUp
  <2>2. CASE GiveToken(p)
    BY <1>1, <1>2, <2>1, <2>2, Telling, Stopping DEF GiveToken
  <2>3. CASE Refuse(p, "SYSTEM") \/ Refuse(p, "SECRET")
    BY <1>3, <2>1, <2>3
  <2>4. CASE secret = Absent /\ act[p].secret = Default /\ GoOn(p, "first")
    <3>1. /\ act'[p].at = "first" /\ act'[p].secret = act[p].secret
          /\ \A q \in Processes \ {p} : act'[q] = act[q]
          /\ heard' = heard /\ promised' = promised
      BY <1>1, <2>4, GoingOn
    <3>2. act[p].secret \in heard[p]
      BY <1>1, <2>1, <2>4 DEF PromiseInv, InForce, LoginInv
    <3>3. InForce' = InForce
      BY <2>1 DEF InForce, storeVars
    <3>4. PromiseInv'
      BY <1>1, <3>1, <3>3 DEF PromiseInv
    <3>5. LoginInv'
      BY <1>1, <2>1, <3>1, <3>2 DEF LoginInv
    <3>6. RivalInv'
      BY <1>1, <3>1, <3>3 DEF RivalInv
    <3>7. RowInv'
      BY <1>1, <2>1, <3>1 DEF RowInv, storeVars
    <3>8. QED
      BY <1>2, <3>4, <3>5, <3>6, <3>7 DEF AdminInv
  <2>5. QED
    BY <1>5, <2>2, <2>3, <2>4 DEF LoginLookUp
<1>6. ASSUME NEW p \in Processes, LoginFirst(p)
      PROVE  AdminInv'
  BY <1>2, <1>6, FirstStep
<1>7. ASSUME NEW p \in Processes, NEW s \in Secrets, ModifyBegin(p, s)
      PROVE  AdminInv'
  BY <1>2, <1>7, ModifyBeginStep
<1>8. ASSUME NEW p \in Processes, ModifyCompare(p)
      PROVE  AdminInv'
  <2>1. act[p].at = "compare" /\ UNCHANGED storeVars
    BY <1>8 DEF ModifyCompare
  <2>2. CASE Refuse(p, "SYSTEM") \/ Refuse(p, "SECRET_SAME")
    BY <1>3, <2>1, <2>2
  <2>3. CASE secret # Absent /\ GoOn(p, "update")
    <3>1. /\ act'[p].at = "update" /\ act'[p].secret = act[p].secret
          /\ \A q \in Processes \ {p} : act'[q] = act[q]
          /\ heard' = heard /\ promised' = promised
      BY <1>1, <2>3, GoingOn
    <3>2. InForce' = InForce
      BY <2>1 DEF InForce, storeVars
    <3>3. PromiseInv'
      BY <1>1, <2>1, <3>1, <3>2 DEF PromiseInv
    <3>4. LoginInv'
      BY <1>1, <3>1 DEF LoginInv
    <3>5. RivalInv'
      BY <1>1, <2>1, <3>1, <3>2 DEF RivalInv
    <3>6. RowInv'
      BY <1>1, <2>1, <2>3, <3>1 DEF RowInv, storeVars
    <3>7. QED
      BY <1>2, <3>3, <3>4, <3>5, <3>6 DEF AdminInv
  <2>4. QED
    BY <1>8, <2>2, <2>3 DEF ModifyCompare
<1>9. ASSUME NEW p \in Processes, ModifyUpdate(p)
      PROVE  AdminInv'
  BY <1>2, <1>9, UpdateStep
<1>10. ASSUME NEW p \in Processes, ModifyAnswer(p)
       PROVE  AdminInv'
  BY <1>2, <1>10, AnswerStep
<1>11. ASSUME NEW p \in Processes, Start(p)
       PROVE  AdminInv'
  <2>1. /\ act'[p].at = "idle" /\ promised' = promised /\ UNCHANGED storeVars
        /\ \A q \in Processes \ {p} : act'[q] = act[q] /\ heard'[q] = heard[q]
    BY <1>1, <1>11 DEF Start, AdminTypeOK, Idle
  <2>2. QED
    BY <1>2, <2>1, Stopping
<1>12. CASE act' = act /\ heard' = heard /\ promised' = promised /\ UNCHANGED storeVars
  BY <1>1, <1>2, <1>12 DEF AdminInv, PromiseInv, InForce, LoginInv, RivalInv, RowInv, storeVars
<1>13. QED
  BY <1>4, <1>5, <1>6, <1>7, <1>8, <1>9, <1>10, <1>11, <1>12
     DEF AdminNext, Tick, adminVars, storeVars

(* The inductive invariant holds in every state.                           *)
THEOREM AdminInvariance == AdminSpec => []AdminInv
<1>1. AdminInit => AdminInv
  <2> SUFFICES ASSUME AdminInit PROVE AdminInv
    OBVIOUS
  <2>1. AdminTypeOK
    BY DEF AdminInit, AdminTypeOK, Moments, Acts, Idle, Told, Silence, LogsIn, LoginSteps
  <2>2. QED
    BY <2>1 DEF AdminInit, AdminInv, PromiseInv, InForce, LoginInv, RivalInv, RowInv, Idle,
                LogsIn, Modifies, LoginSteps, ModifySteps
<1>2. QED
  BY <1>1, InvStep, PTL DEF AdminSpec

(* A login succeeds only with a secret that was promised when it began or  *)
(* since: it has been compared with the one in force.                      *)
THEOREM LoginIsCurrentHolds == AdminSpec => LoginIsCurrent
<1>1. ASSUME AdminInv, AdminNext, NEW p \in Processes, LogsIn(p), told'[p] = "SUCCESS"
      PROVE  act[p].secret \in heard[p]
  <2>1. AdminTypeOK /\ PromiseInv /\ LoginInv
    BY <1>1 DEF AdminInv
  <2>2. ASSUME NEW q \in Processes, NEW code, Tell(q, code)
        PROVE  q = p
    BY <1>1, <2>2 DEF Tell, Silence
  <2>3. told' # Silence
    BY <1>1 DEF Silence
  <2>4. LoginLookUp(p) \/ LoginFirst(p)
    <3>1. ASSUME NEW q \in Processes, LoginLookUp(q) \/ LoginFirst(q)
          PROVE  LoginLookUp(p) \/ LoginFirst(p)
      BY <2>2, <2>3, <3>1 DEF LoginLookUp, LoginFirst, GiveToken, Refuse, GoOn
    <3>2. ASSUME NEW q \in Processes, ModifyCompare(q) \/ ModifyUpdate(q) \/ ModifyAnswer(q)
          PROVE  FALSE
      <4>1. q = p
        BY <2>2, <2>3, <3>2 DEF ModifyCompare, ModifyUpdate, ModifyAnswer, Refuse, GoOn
      <4>2. QED
        BY <1>1, <3>2, <4>1 DEF ModifyCompare, ModifyUpdate, ModifyAnswer, LogsIn, LoginSteps
    <3>3. QED
      BY <1>1, <2>3, <3>1, <3>2 DEF AdminNext, LoginBegin, ModifyBegin, Start, Tick
  <2>5. CASE act[p].at = "first"
    BY <1>1, <2>1, <2>5 DEF LoginInv
  <2>6. CASE act[p].at = "look_up"
    <3>1. LoginLookUp(p)
      BY <2>4, <2>6 DEF LoginFirst
    <3>2. CASE GiveToken(p) /\ secret # Absent /\ act[p].secret = secret
      BY <1>1, <2>1, <3>2 DEF PromiseInv, LoginInv, InForce
    <3>3. CASE Refuse(p, "SYSTEM") \/ Refuse(p, "SECRET") \/ GoOn(p, "first")
      BY <1>1, <2>3, <3>3 DEF Refuse, Tell, GoOn, Silence
    <3>4. QED
      BY <3>1, <3>2, <3>3 DEF LoginLookUp
  <2>7. QED
    BY <1>1, <2>5, <2>6 DEF LogsIn, LoginSteps
<1>2. AdminInv /\ [AdminNext]_adminVars =>
        [\A p \in Processes :
           LogsIn(p) /\ told'[p] = "SUCCESS" => act[p].secret \in heard[p]]_adminVars
  BY <1>1
<1>3. QED
  BY <1>2, AdminInvariance, PTL DEF AdminSpec, LoginIsCurrent
-----------------------------------------------------------------------------
(* FileTransfer: what a request remembers at each step.                    *)
Jobs ==
  [at : {"rest"} \union PushSteps \union RenameSteps \union PullSteps,
   name : Names \union {NoFile}, to : Names \union {NoFile},
   text : Texts \union {<<>>}, range : Ranges \union {Whole, Other},
   size : Nat, file : Inodes \union {NoFile}, got : Seq(Blocks)]

RequestOK(j) ==
  /\ j \in Jobs
  /\ j.at # "rest" => j.name \in Names
  /\ j.at \in PushSteps => j.text \in Texts
  /\ j.at \in RenameSteps => j.to \in Names \ {j.name}
  /\ j.at \notin RenameSteps => j.to = NoFile
  /\ j.file # NoFile <=> j.at \in {"push_write", "push_close", "read"}
  /\ j.at # "read" => j.got = <<>>
  /\ j.at \in {"reopen", "read"} => j.range # Other

TransferTypeOK ==
  /\ dir \in [Names -> Inodes \union {NoFile}]
  /\ data \in [Inodes -> Seq(Blocks)]
  /\ known \in [Names -> Texts \union {NoFile, Unknown}]
  /\ job \in [Servers -> Jobs] /\ \A h \in Servers : RequestOK(job[h])

(* A file has one name.                                                    *)
OneName == \A n, m \in Names : dir[n] = dir[m] /\ dir[n] # NoFile => n = m

(* Requests that touch one name, one of them writing, know it.             *)
ClashInv ==
  \A g, h \in Servers :
    g # h /\ WritesFile(g) /\ Touches(g) \intersect Touches(h) # {} => {g, h} \subseteq clash

(* A name holds what the answers tell of it.                               *)
Holds(n, what) ==
  \/ what = Unknown
  \/ what = NoFile /\ dir[n] = NoFile
  \/ what \in Texts /\ dir[n] \in Inodes /\ data[dir[n]] = what

KnownInv ==
  \A n \in Names :
    (\A h \in Servers : WritesFile(h) => n \notin Touches(h)) => Holds(n, known[n])

(* What a calm request has found, written or read so far.                  *)
PushCalm(j) ==
  /\ j.at = "push_open" => Holds(j.name, known[j.name])
  /\ j.at \in {"push_write", "push_close"} => dir[j.name] = j.file
  /\ j.at = "push_write" => data[j.file] = <<>>
  /\ j.at = "push_close" => data[j.file] = SubSeq(j.text, 1, Len(j.text) - 1)

RenameCalm(j) ==
  /\ j.at \in RenameSteps => Holds(j.name, known[j.name])
  /\ j.at \in {"stat_src", "stat_dst"} => Holds(j.to, known[j.to])
  /\ j.at \in {"stat_dst", "rename", "mv", "unlink"} => dir[j.name] # NoFile
  /\ j.at \in {"rename", "mv"} => dir[j.to] = NoFile
  /\ j.at \in {"rename", "mv", "unlink"} => known[j.to] \in {NoFile, Unknown}
  /\ j.at = "unlink" => dir[j.to] # NoFile /\ data[dir[j.to]] = data[dir[j.name]]

PullCalm(j) ==
  /\ j.at \in {"reopen", "read"} =>
       /\ dir[j.name] # NoFile /\ j.size = Len(data[dir[j.name]])
       /\ j.range # Whole => Satisfiable(j.range, j.size)
  /\ j.at = "read" =>
       /\ dir[j.name] = j.file
       /\ j.range # Whole => Len(j.got) <= Length(j)
       /\ First(j) + Len(j.got) <= j.size
       /\ j.got = SubSeq(data[j.file], First(j) + 1, First(j) + Len(j.got))

CalmOK(h) == PushCalm(job[h]) /\ RenameCalm(job[h]) /\ PullCalm(job[h])

CalmInv == \A h \in Servers \ clash : CalmOK(h)

TransferInv == TransferTypeOK /\ OneName /\ ClashInv /\ KnownInv /\ CalmInv

LEMMA TransferStart == TransferInit => TransferInv
<1> SUFFICES ASSUME TransferInit PROVE TransferInv
  OBVIOUS
<1>1. <<>> \in Seq(Blocks)
  OBVIOUS
<1>2. Resting \in Jobs /\ RequestOK(Resting)
  BY <1>1, DistinctAssumption
  DEF Resting, Jobs, RequestOK, PushSteps, RenameSteps, PullSteps
<1>3. TransferTypeOK
  BY <1>1, <1>2 DEF TransferInit, TransferTypeOK
<1>4. OneName
  BY DEF TransferInit, OneName
<1>5. ClashInv
  BY DEF TransferInit, ClashInv, WritesFile, Resting, PushSteps, RenameSteps
<1>6. KnownInv
  BY DEF TransferInit, KnownInv, Holds
<1>7. CalmInv
  BY DEF TransferInit, CalmInv, CalmOK, PushCalm, RenameCalm, PullCalm, Resting, RenameSteps
<1>8. QED
  BY <1>3, <1>4, <1>5, <1>6, <1>7 DEF TransferInv

(* There is a file without a name and a server for a request that has none. *)
LEMMA NewFile ==
  ASSUME TransferTypeOK, NEW h \in Servers, job[h].file = NoFile
  PROVE  /\ NewInode \in Inodes
         /\ \A n \in Names : dir[n] # NewInode
         /\ \A g \in Servers : job[g].file # NewInode
<1> DEFINE named == {dir[n] : n \in Names}
           held == {job[g].file : g \in Servers \ {h}}
           F == [n \in Names |-> dir[n]]
           G == [g \in Servers \ {h} |-> job[g].file]
<1>1. /\ IsFiniteSet(Servers) /\ IsFiniteSet(Names) /\ IsFiniteSet(Inodes)
      /\ Cardinality(Servers) \in Nat /\ Cardinality(Names) \in Nat
      /\ Cardinality(Inodes) >= Cardinality(Names) + Cardinality(Servers)
      /\ NoFile \notin Inodes
  BY InodesAssumption, DistinctAssumption, FS_CardinalityType
<1>2. IsFiniteSet(Servers \ {h}) /\ Cardinality(Servers \ {h}) = Cardinality(Servers) - 1
  BY <1>1, FS_RemoveElement
<1>3. IsFiniteSet(named) /\ Cardinality(named) <= Cardinality(Names)
  <2>1. F \in Surjection(Names, named)
    BY DEF Surjection
  <2> HIDE DEF F, named
  <2>2. QED
    BY <1>1, <2>1, FS_Surjection
<1>4. IsFiniteSet(held) /\ Cardinality(held) <= Cardinality(Servers) - 1
  <2>1. G \in Surjection(Servers \ {h}, held)
    BY DEF Surjection
  <2> HIDE DEF G, held
  <2>2. QED
    BY <1>2, <2>1, FS_Surjection
<1> HIDE DEF named, held
<1>5. /\ IsFiniteSet(named \union held)
      /\ Cardinality(named \union held) < Cardinality(Inodes)
  <2>1. /\ IsFiniteSet(named \union held)
        /\ Cardinality(named \union held)
           = Cardinality(named) + Cardinality(held) - Cardinality(named \intersect held)
    BY <1>3, <1>4, FS_Union
  <2>2. Cardinality(named \intersect held) \in Nat /\ Cardinality(named) \in Nat
        /\ Cardinality(held) \in Nat /\ Cardinality(Inodes) \in Nat
    <3>1. IsFiniteSet(named \intersect held)
      BY <1>3, FS_Intersection
    <3>2. QED
      BY <1>1, <1>3, <1>4, <3>1, FS_CardinalityType
  <2>3. QED
    BY <1>1, <1>3, <1>4, <2>1, <2>2
<1>6. \E f \in Inodes : f \notin named \union held
  <2> SUFFICES ASSUME Inodes \subseteq named \union held PROVE FALSE
    OBVIOUS
  <2>1. Cardinality(Inodes) <= Cardinality(named \union held)
    BY <1>5, FS_Subset
  <2>2. Cardinality(Inodes) \in Nat /\ Cardinality(named \union held) \in Nat
    BY <1>1, <1>5, FS_CardinalityType
  <2>3. QED
    BY <1>5, <2>1, <2>2
<1>7. PICK f \in Inodes : (\A n \in Names : dir[n] # f) /\ (\A g \in Servers : job[g].file # f)
  <2>1. PICK f \in Inodes : f \notin named \union held
    BY <1>6
  <2>2. \A g \in Servers : job[g].file # f
    BY <1>1, <2>1 DEF held
  <2>3. QED
    BY <2>1, <2>2 DEF named
<1>8. QED
  BY <1>7 DEF NewInode

(* The file system keeps what has a name or is open.                       *)
LEMMA StoreKeeps ==
  ASSUME NEW blocks \in [Inodes -> Seq(Blocks)], Store(blocks)
  PROVE  /\ data' \in [Inodes -> Seq(Blocks)]
         /\ \A n \in Names : dir'[n] \in Inodes => data'[dir'[n]] = blocks[dir'[n]]
         /\ \A h \in Servers : job'[h].file \in Inodes => data'[job'[h].file] = blocks[job'[h].file]
<1>1. <<>> \in Seq(Blocks)
  OBVIOUS
<1>2. QED
  BY <1>1 DEF Store

(* What the step of another request leaves of a name.                      *)
Same(n) ==
  /\ dir'[n] = dir[n] /\ known'[n] = known[n]
  /\ dir[n] # NoFile => data'[dir[n]] = data[dir[n]]

LEMMA HoldsStays ==
  ASSUME NEW n \in Names, Same(n), Holds(n, known[n])
  PROVE  Holds(n, known[n])'
BY DistinctAssumption DEF Same, Holds

(* What a calm request knows stays so while its names do.                  *)
LEMMA CalmStays ==
  ASSUME TransferTypeOK, NEW h \in Servers, job'[h] = job[h], CalmOK(h),
         job[h].name \in Names => Same(job[h].name),
         job[h].to \in Names => Same(job[h].to)
  PROVE  CalmOK(h)'
<1> DEFINE j == job[h]
<1>1. /\ RequestOK(j) /\ j.at \in {"rest"} \union PushSteps \union RenameSteps \union PullSteps
  BY DEF TransferTypeOK, RequestOK, Jobs
<1>2. j.at # "rest" => j.name \in Names /\ Same(j.name)
  BY <1>1 DEF RequestOK
<1>3. j.at \in RenameSteps => j.to \in Names /\ Same(j.to)
  BY <1>1 DEF RequestOK
<1> HIDE DEF j
<1>4. PushCalm(j)'
  <2>1. PushCalm(j)
    BY DEF CalmOK, j
  <2>2. j' = j
    BY DEF j
  <2>3. ASSUME j.at = "push_open" PROVE Holds(j.name, known[j.name])'
    BY <1>2, <2>1, <2>2, <2>3, HoldsStays DEF PushCalm
  <2>4. j.at \in {"push_write", "push_close"} => dir'[j.name] = j.file /\ data'[j.file] = data[j.file]
    BY <1>1, <1>2, <2>1 DEF PushCalm, Same, RequestOK
  <2>5. QED
    BY <2>1, <2>2, <2>3, <2>4 DEF PushCalm
<1>5. RenameCalm(j)'
  <2>1. RenameCalm(j)
    BY DEF CalmOK, j
  <2>2. j' = j
    BY DEF j
  <2>3. ASSUME j.at \in RenameSteps PROVE Holds(j.name, known[j.name])'
    <3>1. Holds(j.name, known[j.name]) /\ j.name \in Names /\ Same(j.name)
      BY <1>2, <2>1, <2>3 DEF RenameCalm, RenameSteps
    <3>2. QED
      BY <2>2, <3>1, HoldsStays
  <2>4. ASSUME j.at \in {"stat_src", "stat_dst"} PROVE Holds(j.to, known[j.to])'
    <3>1. Holds(j.to, known[j.to]) /\ j.to \in Names /\ Same(j.to)
      BY <1>3, <2>1, <2>4 DEF RenameCalm, RenameSteps
    <3>2. QED
      BY <2>2, <3>1, HoldsStays
  <2>5. j.at \in RenameSteps => Same(j.name) /\ Same(j.to)
    BY <1>2, <1>3 DEF RenameSteps
  <2>6. QED
    BY <2>1, <2>2, <2>3, <2>4, <2>5 DEF RenameCalm, RenameSteps, Same
<1>6. PullCalm(j)'
  <2>1. PullCalm(j)
    BY DEF CalmOK, j
  <2>2. j' = j
    BY DEF j
  <2>3. j.at \in {"reopen", "read"} => Same(j.name)
    BY <1>2
  <2>4. QED
    BY <2>1, <2>2, <2>3 DEF PullCalm, Same, First
<1>7. QED
  BY <1>4, <1>5, <1>6 DEF CalmOK, j

(* A step of g that gives no other request's file a name.                  *)
LEMMA StepKeeps ==
  ASSUME TransferInv, TransferTypeOK', OneName', NEW g \in Servers,
         \A h \in Servers \ {g} : job'[h] = job[h],
         clash \ {g} \subseteq clash',
         \A n \in Names : Same(n) \/ (WritesFile(g) /\ n \in Touches(g)),
         \A n \in Names : \/ dir'[n] = dir[n] \/ dir'[n] = NoFile
                          \/ \A h \in Servers \ {g} : job[h].file # dir'[n],
         Serves(g)' /\ g \in clash => g \in clash',
         Touches(g)' \subseteq Touches(g), WritesFile(g)' => WritesFile(g),
         g \notin clash' => CalmOK(g)',
         WritesFile(g) /\ WritesFile(g)' => Touches(g) \subseteq Touches(g)',
         WritesFile(g) /\ ~WritesFile(g)' => \A n \in Touches(g) : Holds(n, known[n])'
  PROVE  TransferInv'
<1>1. TransferTypeOK /\ OneName /\ ClashInv /\ KnownInv /\ CalmInv
  BY DEF TransferInv
<1>2. ASSUME NEW h \in Servers \ {g} PROVE Touches(h)' \subseteq Touches(h)
  <2>1. job'[h] = job[h] /\ Serves(h)' = Serves(h)
    BY DEF Serves
  <2>2. ASSUME NEW n \in Names, dir'[n] \in {job[h].file} \ {NoFile} PROVE dir[n] = dir'[n]
    BY <2>2
  <2>3. QED
    BY <2>1, <2>2 DEF Touches
<1>3. \A h \in Servers \ {g} : WritesFile(h)' = WritesFile(h)
  BY DEF WritesFile
<1>4. \A h \in Servers : Touches(h)' \subseteq Touches(h)
  BY <1>2
<1>5. \A h \in Servers : Touches(h)' # {} => Serves(h)'
  BY DEF Touches
<1>6. \A h \in Servers : WritesFile(h)' => WritesFile(h)
  BY <1>3
<1>7. ClashInv'
  <2> SUFFICES ASSUME NEW a \in Servers, NEW b \in Servers, a # b, WritesFile(a)',
                      Touches(a)' \intersect Touches(b)' # {}
               PROVE  {a, b} \subseteq clash'
    BY DEF ClashInv
  <2>1. {a, b} \subseteq clash
    <3>1. Touches(a) \intersect Touches(b) # {}
      BY <1>4
    <3>2. QED
      BY <1>1, <1>6, <3>1 DEF ClashInv
  <2>2. Serves(a)' /\ Serves(b)'
    BY <1>5
  <2>3. QED
    BY <2>1, <2>2
<1>8. CalmInv'
  <2> SUFFICES ASSUME NEW h \in Servers \ {g}, h \notin clash' PROVE CalmOK(h)'
    BY DEF CalmInv
  <2>1. h \notin clash /\ CalmOK(h) /\ job'[h] = job[h]
    BY <1>1 DEF CalmInv
  <2>2. ASSUME NEW n \in Names, n \in {job[h].name, job[h].to}, Serves(h) PROVE Same(n)
    <3>1. n \in Touches(h)
      BY <2>2 DEF Touches
    <3>2. ~(WritesFile(g) /\ n \in Touches(g))
      BY <1>1, <2>1, <3>1 DEF ClashInv
    <3>3. QED
      BY <3>2
  <2>3. CASE Serves(h)
    BY <1>1, <2>1, <2>2, <2>3, CalmStays
  <2>4. CASE ~Serves(h)
    BY <2>1, <2>4 DEF Serves, CalmOK, PushCalm, RenameCalm, PullCalm, RenameSteps
  <2>5. QED
    BY <2>3, <2>4
<1>9. KnownInv'
  <2> SUFFICES ASSUME NEW n \in Names, \A h \in Servers : WritesFile(h)' => n \notin Touches(h)'
               PROVE  Holds(n, known[n])'
    BY DEF KnownInv
  <2>1. CASE WritesFile(g) /\ n \in Touches(g)
    BY <2>1
  <2>2. CASE ~(WritesFile(g) /\ n \in Touches(g))
    <3>1. Same(n)
      BY <2>2
    <3>2. ASSUME NEW w \in Servers, WritesFile(w), n \in Touches(w) PROVE FALSE
      <4>1. w # g /\ WritesFile(w)' /\ job'[w] = job[w]
        BY <1>3, <2>2, <3>2
      <4>2. n \in Touches(w)'
        BY <3>1, <3>2, <4>1 DEF Same, Touches, Serves
      <4>3. QED
        BY <4>1, <4>2
    <3>3. Holds(n, known[n])
      BY <1>1, <3>2 DEF KnownInv
    <3>4. QED
      BY <3>1, <3>3, HoldsStays
  <2>3. QED
    BY <2>1, <2>2
<1>10. QED
  BY <1>7, <1>8, <1>9 DEF TransferInv

(* A request begins.                                                       *)
LEMMA BeginJobKeeps ==
  ASSUME TransferInv, NEW g \in Servers, NEW request, BeginJob(g, request),
         RequestOK(request), request.at \in {"push_open", "stat_src", "measure"}
  PROVE  TransferInv'
<1> DEFINE names == {request.name, request.to}
           writes == request.at \in PushSteps \union RenameSteps
           met == {h \in Servers : Touches(h) \intersect names # {} /\ (writes \/ WritesFile(h))}
<1>1. /\ TransferTypeOK /\ OneName /\ ClashInv /\ KnownInv /\ CalmInv
      /\ ~Serves(g) /\ job' = [job EXCEPT ![g] = request]
      /\ clash' = clash \union met \union {h \in {g} : met # {}}
      /\ UNCHANGED <<dir, data, known>>
  BY DEF TransferInv, BeginJob
<1>2. job'[g] = request /\ \A h \in Servers \ {g} : job'[h] = job[h]
  BY <1>1 DEF TransferTypeOK
<1>3. request \in Jobs /\ request.file = NoFile /\ request.at # "rest"
  BY DEF RequestOK
<1>4. TransferTypeOK' /\ OneName'
  BY <1>1, <1>2, <1>3 DEF TransferTypeOK, OneName
<1>5. ~WritesFile(g) /\ Touches(g) = {}
  BY <1>1 DEF Serves, WritesFile, Touches, PushSteps, RenameSteps
<1>6. Touches(g)' \subseteq names /\ (WritesFile(g)' <=> writes)
      /\ (request.name \in Touches(g)') /\ (request.to \in Names => request.to \in Touches(g)')
  BY <1>1, <1>2, <1>3 DEF Touches, Serves, WritesFile, RequestOK
<1>7. \A h \in Servers \ {g} : Touches(h)' = Touches(h) /\ WritesFile(h)' = WritesFile(h)
  BY <1>1, <1>2 DEF Touches, Serves, WritesFile
<1>8. \A n \in Names : Same(n)
  BY <1>1 DEF Same
<1> HIDE DEF met, writes
<1>9. \A h \in Servers \ {g} :
        Touches(h) \intersect names # {} /\ (writes \/ WritesFile(h)) => {g, h} \subseteq clash'
  BY <1>1 DEF met
<1>10. ClashInv'
  <2> SUFFICES ASSUME NEW a \in Servers, NEW b \in Servers, a # b, WritesFile(a)',
                      Touches(a)' \intersect Touches(b)' # {}
               PROVE  {a, b} \subseteq clash'
    BY DEF ClashInv
  <2>1. CASE a = g
    BY <1>6, <1>7, <1>9, <2>1
  <2>2. CASE b = g
    BY <1>6, <1>7, <1>9, <2>2
  <2>3. CASE a # g /\ b # g
    BY <1>1, <1>7, <2>3 DEF ClashInv
  <2>4. QED
    BY <2>1, <2>2, <2>3
<1>11. ASSUME NEW n \in Names, \A h \in Servers : WritesFile(h) => n \notin Touches(h)
       PROVE  Holds(n, known[n])'
  BY <1>1, <1>8, <1>11, HoldsStays DEF KnownInv
<1>12. KnownInv'
  <2> SUFFICES ASSUME NEW n \in Names, \A h \in Servers : WritesFile(h)' => n \notin Touches(h)'
               PROVE  Holds(n, known[n])'
    BY DEF KnownInv
  <2>1. \A h \in Servers : WritesFile(h) => n \notin Touches(h)
    BY <1>5, <1>7
  <2>2. QED
    BY <1>11, <2>1
<1>13. CalmInv'
  <2>1. ASSUME NEW h \in Servers \ {g}, h \notin clash' PROVE CalmOK(h)'
    <3>1. CalmOK(h) /\ job'[h] = job[h]
      BY <1>1, <1>2, <2>1 DEF CalmInv
    <3>2. QED
      BY <1>1, <1>8, <3>1, CalmStays
  <2>2. ASSUME g \notin clash' PROVE CalmOK(g)'
    <3>1. ASSUME NEW n \in Names, n \in names, writes PROVE Holds(n, known[n])'
      <4>1. \A h \in Servers : WritesFile(h) => n \notin Touches(h)
        BY <1>5, <1>9, <2>2, <3>1
      <4>2. QED
        BY <1>11, <4>1
    <3>2. request.name \in Names /\ (request.at = "stat_src" => request.to \in Names)
      BY DEF RequestOK, RenameSteps
    <3>3. request.at # "measure" => writes
      BY DEF writes, PushSteps, RenameSteps
    <3>4. QED
      BY <1>2, <3>1, <3>2, <3>3 DEF CalmOK, PushCalm, RenameCalm, PullCalm, RenameSteps
  <2>3. QED
    BY <2>1, <2>2 DEF CalmInv
<1>14. QED
  BY <1>4, <1>10, <1>12, <1>13 DEF TransferInv

(* A calm writer touches no name but its own.                              *)
LEMMA CalmTouches ==
  ASSUME TransferInv, NEW g \in Servers, WritesFile(g), g \notin clash
  PROVE  /\ job[g].at \in PushSteps => Touches(g) = {job[g].name}
         /\ job[g].at \in RenameSteps => Touches(g) = {job[g].name, job[g].to}
<1>1. /\ RequestOK(job[g]) /\ job[g] \in Jobs /\ CalmOK(g) /\ OneName /\ Serves(g)
      /\ NoFile \notin Names
  BY DistinctAssumption
  DEF TransferInv, TransferTypeOK, RequestOK, CalmInv, WritesFile, Serves, PushSteps, RenameSteps
<1>2. CASE job[g].at \in PushSteps
  <2>1. /\ job[g].name \in Names /\ job[g].to = NoFile
        /\ job[g].file # NoFile => dir[job[g].name] = job[g].file
    BY <1>1, <1>2 DEF RequestOK, CalmOK, PushCalm, PushSteps, RenameSteps
  <2>2. QED
    BY <1>1, <1>2, <2>1 DEF Touches, OneName, PushSteps, RenameSteps
<1>3. CASE job[g].at \in RenameSteps
  <2>1. job[g].name \in Names /\ job[g].to \in Names /\ job[g].file = NoFile
    BY <1>1, <1>3 DEF RequestOK, RenameSteps
  <2>2. QED
    BY <1>1, <1>3, <2>1 DEF Touches, PushSteps, RenameSteps
<1>4. QED
  BY <1>2, <1>3 DEF WritesFile

(* A request ends, and what it leaves of the files is what holds says.     *)
LEMMA EndKeeps ==
  ASSUME TransferInv, NEW g \in Servers, NEW holds, NEW response, End(g, holds, response),
         Serves(g), WritesFile(g) => holds \in [Names -> Texts \union {NoFile, Unknown}],
         dir' \in [Names -> Inodes \union {NoFile}], data' \in [Inodes -> Seq(Blocks)],
         OneName',
         \A n \in Names : \/ dir'[n] = dir[n] /\ (dir[n] # NoFile => data'[dir[n]] = data[dir[n]])
                          \/ WritesFile(g) /\ n \in Touches(g),
         \A n \in Names : \/ dir'[n] = dir[n] \/ dir'[n] = NoFile
                          \/ \A h \in Servers \ {g} : job[h].file # dir'[n],
         WritesFile(g) /\ g \notin clash => \A n \in Touches(g) : Holds(n, holds[n])'
  PROVE  TransferInv'
<1>1. /\ TransferTypeOK
      /\ job' = [job EXCEPT ![g] = Resting] /\ clash' = clash \ {g}
      /\ known' = [n \in Names |->
           IF ~ WritesFile(g) \/ n \notin Touches(g) THEN known[n]
           ELSE IF g \in clash THEN Unknown ELSE holds[n]]
  BY DEF End, TransferInv
<1>2. job'[g] = Resting /\ \A h \in Servers \ {g} : job'[h] = job[h]
  BY <1>1 DEF TransferTypeOK
<1>3. <<>> \in Seq(Blocks)
  OBVIOUS
<1>4. Resting \in Jobs /\ RequestOK(Resting)
  BY <1>3, DistinctAssumption
  DEF Resting, Jobs, RequestOK, PushSteps, RenameSteps, PullSteps
<1>5. known' \in [Names -> Texts \union {NoFile, Unknown}]
  BY <1>1 DEF TransferTypeOK
<1>6. TransferTypeOK'
  BY <1>1, <1>2, <1>4, <1>5 DEF TransferTypeOK
<1>7. \A n \in Names : Same(n) \/ (WritesFile(g) /\ n \in Touches(g))
  BY <1>1 DEF Same
<1>8. ~Serves(g)' /\ ~WritesFile(g)' /\ Touches(g)' = {}
  BY <1>2 DEF Serves, WritesFile, Touches, Resting, PushSteps, RenameSteps
<1>9. CalmOK(g)'
  BY <1>2 DEF CalmOK, PushCalm, RenameCalm, PullCalm, RenameSteps, Resting
<1>10. ASSUME WritesFile(g), NEW n \in Touches(g) PROVE Holds(n, known[n])'
  <2>1. n \in Names
    BY DEF Touches
  <2>2. CASE g \in clash
    BY <1>1, <1>10, <2>1, <2>2 DEF Holds
  <2>3. CASE g \notin clash
    <3>1. known'[n] = holds[n] /\ Holds(n, holds[n])'
      BY <1>1, <1>10, <2>1, <2>3
    <3>2. QED
      BY <3>1 DEF Holds
  <2>4. QED
    BY <2>2, <2>3
<1>11. QED
  BY <1>1, <1>2, <1>6, <1>7, <1>8, <1>9, <1>10, StepKeeps


(* A step that leaves the names and what they hold.                        *)
LEMMA ProceedKeeps ==
  ASSUME TransferInv, NEW g \in Servers, NEW next, Proceed(g, next), RequestOK(next),
         next.at # "rest" /\ Serves(g),
         next.name = job[g].name /\ next.to = job[g].to,
         next.at \in PushSteps \union RenameSteps <=> WritesFile(g),
         next.file \in {job[g].file, dir[next.name]},
         WritesFile(g) => next.file = job[g].file,
         dir' = dir /\ clash' = clash, data' \in [Inodes -> Seq(Blocks)],
         \A n \in Names : dir[n] # NoFile => data'[dir[n]] = data[dir[n]],
         g \notin clash => (PushCalm(next) /\ RenameCalm(next) /\ PullCalm(next))'
  PROVE  TransferInv'
<1>1. TransferTypeOK /\ OneName /\ next \in Jobs /\ job[g] \in Jobs
  BY DEF TransferInv, TransferTypeOK, RequestOK
<1>2. job'[g] = next /\ (\A h \in Servers \ {g} : job'[h] = job[h]) /\ known' = known
  BY <1>1 DEF Proceed, TransferTypeOK
<1>3. TransferTypeOK' /\ OneName'
  BY <1>1, <1>2 DEF TransferTypeOK, OneName, Proceed
<1>4. Touches(g)' \subseteq Touches(g)
  <2>1. next.name \in Names
    BY DEF RequestOK
  <2>2. ASSUME NEW n \in Names, dir[n] \in {next.file} \ {NoFile}
        PROVE  n = next.name \/ dir[n] \in {job[g].file} \ {NoFile}
    BY <1>1, <2>1, <2>2 DEF OneName
  <2>3. QED
    BY <1>2, <2>2 DEF Touches, Serves
<1>5. WritesFile(g)' = WritesFile(g) /\ (WritesFile(g) => Touches(g) \subseteq Touches(g)')
  BY <1>2 DEF WritesFile, Touches, Serves
<1>6. \A n \in Names : Same(n)
  BY <1>2 DEF Same
<1>7. g \notin clash' => CalmOK(g)'
  BY <1>2 DEF CalmOK
<1>8. QED
  BY <1>2, <1>3, <1>4, <1>5, <1>6, <1>7, StepKeeps

(* What a calm request that has written nothing yet still holds.           *)
LEMMA HoldsStill ==
  ASSUME TransferInv, NEW g \in Servers, WritesFile(g), g \notin clash,
         job[g].at \notin {"push_write", "push_close", "unlink"}
  PROVE  \A n \in Touches(g) : Holds(n, known[n])
<1>1. CalmOK(g)
  BY DEF TransferInv, CalmInv
<1>2. /\ job[g].at \in PushSteps => Touches(g) = {job[g].name}
      /\ job[g].at \in RenameSteps => Touches(g) = {job[g].name, job[g].to}
  BY CalmTouches
<1>3. CASE job[g].at = "push_open"
  BY <1>1, <1>2, <1>3 DEF CalmOK, PushCalm, PushSteps
<1>4. CASE job[g].at \in {"stat_src", "stat_dst", "rename", "mv"}
  BY <1>1, <1>2, <1>4 DEF CalmOK, RenameCalm, RenameSteps, Holds
<1>5. QED
  BY <1>3, <1>4 DEF WritesFile, PushSteps, RenameSteps

(* A request ends without a change of the names.                           *)
LEMMA EndSameKeeps ==
  ASSUME TransferInv, NEW g \in Servers, NEW holds, NEW response, End(g, holds, response),
         Serves(g),
         \/ holds = Unsure
         \/ holds = known /\ job[g].at \notin {"push_write", "push_close", "unlink"},
         dir' = dir, data' = data \/ Store(data)
  PROVE  TransferInv'
<1>1. TransferTypeOK /\ OneName
  BY DEF TransferInv
<1>2. data' \in [Inodes -> Seq(Blocks)] /\ \A n \in Names : dir[n] # NoFile => data'[dir[n]] = data[dir[n]]
  BY <1>1, StoreKeeps DEF TransferTypeOK
<1>3. holds \in [Names -> Texts \union {NoFile, Unknown}]
  BY <1>1 DEF Unsure, TransferTypeOK
<1>4. ASSUME WritesFile(g), g \notin clash, NEW n \in Touches(g) PROVE Holds(n, holds[n])'
  <2>1. n \in Names
    BY DEF Touches
  <2>2. CASE holds = Unsure
    BY <2>1, <2>2 DEF Unsure, Holds
  <2>3. CASE holds = known /\ job[g].at \notin {"push_write", "push_close", "unlink"}
    <3>1. Holds(n, holds[n])
      BY <1>4, <2>3, HoldsStill
    <3>2. QED
      BY <1>2, <2>1, <3>1, DistinctAssumption DEF Holds
  <2>4. QED
    BY <2>2, <2>3
<1>5. OneName' /\ dir' \in [Names -> Inodes \union {NoFile}]
  BY <1>1 DEF OneName, TransferTypeOK
<1>6. QED
  BY <1>2, <1>3, <1>4, <1>5, EndKeeps

LEMMA PushBeginKeeps ==
  ASSUME TransferInv, NEW g \in Servers, NEW n \in Names, NEW t \in Texts, PushBegin(g, n, t)
  PROVE  TransferInv'
<1>1. RequestOK([Resting EXCEPT !.at = "push_open", !.name = n, !.text = t])
  <2>1. <<>> \in Seq(Blocks)
    OBVIOUS
  <2>2. QED
    BY <2>1, DistinctAssumption DEF Resting, Jobs, RequestOK, PushSteps, RenameSteps, PullSteps
<1>2. [Resting EXCEPT !.at = "push_open", !.name = n, !.text = t].at = "push_open"
  BY DEF Resting
<1>3. QED
  BY <1>1, <1>2, BeginJobKeeps DEF PushBegin

LEMMA RenameBeginKeeps ==
  ASSUME TransferInv, NEW g \in Servers, NEW n \in Names, NEW m \in Names \ {n}, RenameBegin(g, n, m)
  PROVE  TransferInv'
<1>1. RequestOK([Resting EXCEPT !.at = "stat_src", !.name = n, !.to = m])
  <2>1. <<>> \in Seq(Blocks)
    OBVIOUS
  <2>2. QED
    BY <2>1, DistinctAssumption DEF Resting, Jobs, RequestOK, PushSteps, RenameSteps, PullSteps
<1>2. [Resting EXCEPT !.at = "stat_src", !.name = n, !.to = m].at = "stat_src"
  BY DEF Resting
<1>3. QED
  BY <1>1, <1>2, BeginJobKeeps DEF RenameBegin

LEMMA PullBeginKeeps ==
  ASSUME TransferInv, NEW g \in Servers, NEW n \in Names, NEW r \in Ranges \union {Whole, Other},
         PullBegin(g, n, r)
  PROVE  TransferInv'
<1>1. RequestOK([Resting EXCEPT !.at = "measure", !.name = n, !.range = r])
  <2>1. <<>> \in Seq(Blocks)
    OBVIOUS
  <2>2. QED
    BY <2>1, DistinctAssumption DEF Resting, Jobs, RequestOK, PushSteps, RenameSteps, PullSteps
<1>2. [Resting EXCEPT !.at = "measure", !.name = n, !.range = r].at = "measure"
  BY DEF Resting
<1>3. QED
  BY <1>1, <1>2, BeginJobKeeps DEF PullBegin


LEMMA PushOpenStays ==
  ASSUME TransferInv, NEW g \in Servers, PushOpen(g)
  PROVE  TransferInv'
<1> DEFINE n == job[g].name
           f == IF dir[n] = NoFile THEN NewInode ELSE dir[n]
           next == [job[g] EXCEPT !.at = "push_write", !.file = f]
<1>1. /\ TransferTypeOK /\ OneName /\ RequestOK(job[g]) /\ job[g] \in Jobs
      /\ job[g].at = "push_open" /\ n \in Names /\ job[g].to = NoFile /\ job[g].file = NoFile
      /\ Serves(g) /\ WritesFile(g)
  BY DEF TransferInv, TransferTypeOK, RequestOK, PushOpen, Serves, WritesFile, PushSteps, RenameSteps
<1>2. CASE Errs /\ End(g, known, Say(g, "SYSTEM")) /\ UNCHANGED <<dir, data>>
  BY <1>1, <1>2, EndSameKeeps
<1>3. CASE /\ dir' = [dir EXCEPT ![n] = f]
           /\ Proceed(g, next)
           /\ Store([data EXCEPT ![f] = <<>>])
           /\ UNCHANGED <<errors, clash>>
  <2>1. f \in Inodes /\ f # NoFile
    BY <1>1, NewFile, DistinctAssumption DEF TransferTypeOK
  <2>2. /\ \A m \in Names \ {n} : dir[m] # f
        /\ dir[n] # f => \A h \in Servers : job[h].file # f
    BY <1>1, NewFile DEF OneName
  <2> HIDE DEF f
  <2>3. dir' \in [Names -> Inodes \union {NoFile}] /\ dir'[n] = f /\ \A m \in Names \ {n} : dir'[m] = dir[m]
    BY <1>1, <1>3, <2>1 DEF TransferTypeOK
  <2>4. /\ next \in Jobs /\ next.at = "push_write" /\ next.file = f /\ next.name = n
        /\ next.to = NoFile /\ next.text = job[g].text /\ next.got = job[g].got
    BY <1>1, <2>1 DEF Jobs, PushSteps
  <2>5. RequestOK(next)
    BY <1>1, <2>1, <2>4 DEF RequestOK, PushSteps, RenameSteps
  <2> HIDE DEF next
  <2>6. job'[g] = next /\ (\A h \in Servers \ {g} : job'[h] = job[h]) /\ known' = known
        /\ job' \in [Servers -> Jobs]
    BY <1>1, <1>3, <2>4 DEF Proceed, TransferTypeOK
  <2>7. <<>> \in Seq(Blocks)
    OBVIOUS
  <2>8. [data EXCEPT ![f] = <<>>] \in [Inodes -> Seq(Blocks)]
    BY <1>1, <2>7 DEF TransferTypeOK
  <2>9. /\ data' \in [Inodes -> Seq(Blocks)]
        /\ \A m \in Names : dir'[m] \in Inodes => data'[dir'[m]] = [data EXCEPT ![f] = <<>>][dir'[m]]
    BY <1>3, <2>8, StoreKeeps
  <2>10. data'[f] = <<>> /\ \A m \in Names \ {n} : dir[m] # NoFile => data'[dir[m]] = data[dir[m]]
    BY <1>1, <2>1, <2>2, <2>3, <2>9 DEF TransferTypeOK
  <2>11. TransferTypeOK'
    BY <1>1, <2>3, <2>5, <2>6, <2>9 DEF TransferTypeOK
  <2>12. OneName'
    BY <1>1, <2>2, <2>3 DEF OneName
  <2>13. Touches(g) = {n} /\ Touches(g)' = {n}
    BY <1>1, <2>2, <2>3, <2>4, <2>6, DistinctAssumption DEF Touches, Serves
  <2>14. WritesFile(g)'
    BY <2>4, <2>6 DEF WritesFile, PushSteps
  <2>15. \A m \in Names : Same(m) \/ (WritesFile(g) /\ m \in Touches(g))
    BY <1>1, <2>3, <2>6, <2>10, <2>13 DEF Same
  <2>16. CalmOK(g)'
    BY <2>3, <2>4, <2>6, <2>10 DEF CalmOK, PushCalm, RenameCalm, PullCalm, RenameSteps
  <2>17. \A m \in Names : dir'[m] = dir[m] \/ \A h \in Servers \ {g} : job[h].file # dir'[m]
    BY <2>2, <2>3
  <2>18. /\ clash \ {g} \subseteq clash' /\ (Serves(g)' /\ g \in clash => g \in clash')
         /\ Touches(g)' \subseteq Touches(g) /\ Touches(g) \subseteq Touches(g)'
         /\ WritesFile(g) /\ WritesFile(g)' /\ \A h \in Servers \ {g} : job'[h] = job[h]
    BY <1>1, <1>3, <2>6, <2>13, <2>14
  <2>19. \A m \in Names : \/ dir'[m] = dir[m] \/ dir'[m] = NoFile
                          \/ \A h \in Servers \ {g} : job[h].file # dir'[m]
    BY <2>17
  <2>20. QED
    BY <2>18, <2>19, <2>11, <2>12, <2>15, <2>16, StepKeeps
<1>4. QED
  BY <1>2, <1>3 DEF PushOpen

(* A write at an offset no further than the end leaves what is before it.  *)
LEMMA WrittenIs ==
  ASSUME NEW blocks \in Seq(Blocks), NEW offset \in Nat, NEW text \in Seq(Blocks)
  PROVE  /\ Written(blocks, offset, text) \in Seq(Blocks)
         /\ (offset = Len(blocks) => Written(blocks, offset, text) = blocks \o text)
<1> DEFINE end == offset + Len(text)
           len == IF end > Len(blocks) THEN end ELSE Len(blocks)
<1>1. len \in Nat /\ end \in Nat /\ Len(blocks) \in Nat /\ Len(text) \in Nat /\ end >= offset
  OBVIOUS
<1>2. Hole \in Blocks
  BY DEF Blocks
<1>3. \A i \in 1..len : (IF i \in offset + 1 .. end THEN text[i - offset]
                         ELSE IF i <= Len(blocks) THEN blocks[i] ELSE Hole) \in Blocks
  <2> TAKE i \in 1..len
  <2>1. CASE i \in offset + 1 .. end
    <3>1. i - offset \in 1..Len(text)
      BY <1>1, <2>1
    <3>2. QED
      BY <2>1, <3>1
  <2>2. CASE i \notin offset + 1 .. end /\ i <= Len(blocks)
    BY <1>1, <2>2
  <2>3. CASE i \notin offset + 1 .. end /\ ~(i <= Len(blocks))
    BY <1>2, <2>3
  <2>4. QED
    BY <2>1, <2>2, <2>3
<1>4. Written(blocks, offset, text) \in Seq(Blocks)
  <2>1. Written(blocks, offset, text) \in [1..len -> Blocks]
    BY <1>3 DEF Written
  <2>2. [1..len -> Blocks] \subseteq Seq(Blocks)
    <3>1. len \in Nat
      BY <1>1
    <3> HIDE DEF len
    <3>2. QED
      BY <3>1, SeqDef
  <2>3. QED
    BY <2>1, <2>2
<1>5. ASSUME offset = Len(blocks) PROVE Written(blocks, offset, text) = blocks \o text
  <2>1. len = end
    BY <1>1, <1>5
  <2>2. /\ blocks \o text \in Seq(Blocks) /\ Len(blocks \o text) = end
        /\ \A i \in 1..end : (blocks \o text)[i] = IF i <= Len(blocks) THEN blocks[i] ELSE text[i - Len(blocks)]
    BY <1>5, ConcatProperties
  <2>3. Len(Written(blocks, offset, text)) = end
    BY <1>1, <2>1 DEF Written
  <2>4. \A i \in 1..end : Written(blocks, offset, text)[i] = (blocks \o text)[i]
    <3> TAKE i \in 1..end
    <3>1. Written(blocks, offset, text)[i] = IF i \in offset + 1 .. end THEN text[i - offset]
                                             ELSE IF i <= Len(blocks) THEN blocks[i] ELSE Hole
      BY <2>1 DEF Written
    <3>2. i \in offset + 1 .. end <=> ~(i <= Len(blocks))
      BY <1>1, <1>5
    <3>3. QED
      BY <1>5, <2>2, <3>1, <3>2
  <2>5. QED
    BY <1>4, <2>2, <2>3, <2>4, SeqEqual
<1>6. QED
  BY <1>4, <1>5


LEMMA TextIs ==
  ASSUME NEW t \in Texts
  PROVE  /\ t \in Seq(Blocks) /\ Len(t) \in Nat \ {0} /\ Len(t) - 1 \in Nat
         /\ SubSeq(t, 1, Len(t) - 1) \in Seq(Blocks) /\ Len(SubSeq(t, 1, Len(t) - 1)) = Len(t) - 1
         /\ <<t[Len(t)]>> \in Seq(Blocks)
         /\ SubSeq(t, 1, Len(t) - 1) \o <<t[Len(t)]>> = t
<1>1. t \in Seq(Blocks) /\ Len(t) \in Nat \ {0} /\ Len(t) - 1 \in Nat /\ Len(t) \in 1..Len(t)
  BY TransferAssumption
<1>2. t[Len(t)] \in Blocks /\ <<t[Len(t)]>> \in Seq(Blocks)
  BY <1>1
<1>3. SubSeq(t, 1, Len(t) - 1) \in Seq(Blocks) /\ Len(SubSeq(t, 1, Len(t) - 1)) = Len(t) - 1
  <2>1. \A i \in 1..(Len(t) - 1) : t[i] \in Blocks
    BY <1>1
  <2>2. PICK n : n = Len(t) - 1
    OBVIOUS
  <2>3. /\ SubSeq(t, 1, n) \in Seq(Blocks) /\ Len(SubSeq(t, 1, n)) = IF 1 <= n THEN n - 1 + 1 ELSE 0
    BY <1>1, <2>1, <2>2, SubSeqProperties
  <2>4. QED
    BY <1>1, <2>2, <2>3
<1>4. SubSeq(t, 1, Len(t)) = SubSeq(t, 1, Len(t) - 1) \o <<t[Len(t)]>>
  <2>1. PICK n : n = Len(t)
    OBVIOUS
  <2>2. n \in 1..n /\ 1 \in 1..n
    BY <1>1, <2>1
  <2>3. SubSeq(t, 1, n) = SubSeq(t, 1, n - 1) \o <<t[n]>>
    BY <1>1, <2>1, <2>2, SubSeqRecursiveSecond
  <2>4. QED
    BY <2>1, <2>3
<1>5. SubSeq(t, 1, Len(t)) = t
  BY <1>1, SubSeqFull
<1>6. QED
  BY <1>1, <1>2, <1>3, <1>4, <1>5

LEMMA PushWriteStays ==
  ASSUME TransferInv, NEW g \in Servers, PushWrite(g)
  PROVE  TransferInv'
<1> DEFINE n == job[g].name
           f == job[g].file
           t == job[g].text
           next == [job[g] EXCEPT !.at = "push_close"]
           most == SubSeq(t, 1, Len(t) - 1)
<1>1. /\ TransferTypeOK /\ OneName /\ RequestOK(job[g]) /\ job[g] \in Jobs
      /\ job[g].at = "push_write" /\ n \in Names /\ job[g].to = NoFile
      /\ t \in Texts /\ f \in Inodes /\ f # NoFile
      /\ Serves(g) /\ WritesFile(g)
  BY DistinctAssumption
  DEF TransferInv, TransferTypeOK, RequestOK, PushWrite, Serves, WritesFile, PushSteps, RenameSteps, Jobs
<1>2. /\ Proceed(g, next) /\ dir' = dir /\ clash \subseteq clash'
  BY DEF PushWrite
<1>3. /\ next \in Jobs /\ next.at = "push_close" /\ next.file = f /\ next.name = n
      /\ next.to = NoFile /\ next.text = t /\ next.got = job[g].got
  BY <1>1 DEF Jobs, PushSteps
<1>4. RequestOK(next)
  BY <1>1, <1>3 DEF RequestOK, PushSteps, RenameSteps
<1>5. /\ t \in Seq(Blocks) /\ Len(t) - 1 \in Nat /\ most \in Seq(Blocks) /\ Len(most) = Len(t) - 1
  BY <1>1, TextIs
<1>6. CASE /\ data' = [data EXCEPT ![f] = IF Len(t) - 1 > 0 THEN Written(@, 0, most) ELSE @]
           /\ clash' = clash
  <2>1. data[f] \in Seq(Blocks)
    BY <1>1 DEF TransferTypeOK
  <2>2. Written(data[f], 0, most) \in Seq(Blocks)
    BY <1>5, <2>1, WrittenIs
  <2>3. data[f] = <<>> => Written(data[f], 0, most) = most
    <3>1. data[f] = <<>> => Len(data[f]) = 0
      OBVIOUS
    <3>2. <<>> \o most = most
      BY <1>5, ConcatEmptySeq
    <3>3. 0 = Len(data[f]) => Written(data[f], 0, most) = data[f] \o most
      BY <1>5, <2>1, WrittenIs
    <3>4. QED
      BY <3>1, <3>2, <3>3
  <2>4. Len(t) - 1 = 0 => most = <<>>
    <3>1. PICK s : s = most
      OBVIOUS
    <3>2. s \in Seq(Blocks) /\ Len(s) = Len(t) - 1
      BY <1>5, <3>1
    <3>3. QED
      BY <3>1, <3>2, EmptySeq
  <2> HIDE DEF most, next
  <2>5. data' \in [Inodes -> Seq(Blocks)] /\ (data[f] = <<>> => data'[f] = most)
        /\ \A e \in Inodes \ {f} : data'[e] = data[e]
    BY <1>1, <1>5, <1>6, <2>1, <2>2, <2>3, <2>4 DEF TransferTypeOK
  <2>6. job'[g] = next /\ (\A h \in Servers \ {g} : job'[h] = job[h]) /\ known' = known
        /\ job' \in [Servers -> Jobs]
    BY <1>1, <1>2, <1>3 DEF Proceed, TransferTypeOK
  <2>7. TransferTypeOK' /\ OneName'
    BY <1>1, <1>2, <1>4, <2>5, <2>6 DEF TransferTypeOK, OneName
  <2>8. Touches(g)' = Touches(g) /\ WritesFile(g)'
    BY <1>1, <1>2, <1>3, <2>6 DEF Touches, Serves, WritesFile, PushSteps
  <2>9. \A m \in Names : Same(m) \/ (WritesFile(g) /\ m \in Touches(g))
    BY <1>1, <1>2, <2>5, <2>6 DEF Same, Touches, TransferTypeOK
  <2>10. ASSUME g \notin clash' PROVE CalmOK(g)'
    <3>1. PushCalm(job[g])
      BY <1>1, <1>6, <2>10 DEF TransferInv, CalmInv, CalmOK
    <3>2. dir[n] = f /\ data[f] = <<>>
      BY <1>1, <3>1 DEF PushCalm
    <3>3. dir'[n] = f /\ data'[f] = most
      BY <1>2, <2>5, <3>2
    <3>4. most = SubSeq(job'[g].text, 1, Len(job'[g].text) - 1)
      BY <1>3, <2>6 DEF most
    <3>5. QED
      BY <1>3, <2>6, <3>3, <3>4 DEF CalmOK, PushCalm, RenameCalm, PullCalm, RenameSteps
  <2>11. QED
    BY <1>1, <1>2, <1>6, <2>6, <2>7, <2>8, <2>9, <2>10, StepKeeps
<1>7. CASE Errs /\ clash' = clash \union {g} /\ data' = data
  <2> HIDE DEF most, next
  <2>1. job'[g] = next /\ (\A h \in Servers \ {g} : job'[h] = job[h]) /\ known' = known
        /\ job' \in [Servers -> Jobs]
    BY <1>1, <1>2, <1>3 DEF Proceed, TransferTypeOK
  <2>2. TransferTypeOK' /\ OneName'
    BY <1>1, <1>2, <1>4, <1>7, <2>1 DEF TransferTypeOK, OneName
  <2>3. Touches(g)' = Touches(g) /\ WritesFile(g)'
    BY <1>1, <1>2, <1>3, <2>1 DEF Touches, Serves, WritesFile, PushSteps
  <2>4. \A m \in Names : Same(m)
    BY <1>2, <1>7, <2>1 DEF Same
  <2>5. QED
    BY <1>1, <1>2, <1>7, <2>1, <2>2, <2>3, <2>4, StepKeeps
<1>8. QED
  BY <1>6, <1>7 DEF PushWrite

LEMMA PushCloseStays ==
  ASSUME TransferInv, NEW g \in Servers, PushClose(g)
  PROVE  TransferInv'
<1> DEFINE n == job[g].name
           f == job[g].file
           t == job[g].text
           holds(what) == [known EXCEPT ![n] = what]
           blocks == [data EXCEPT ![f] = Written(@, Len(t) - 1, <<t[Len(t)]>>)]
<1>1. /\ TransferTypeOK /\ OneName /\ RequestOK(job[g]) /\ job[g] \in Jobs
      /\ job[g].at = "push_close" /\ n \in Names /\ job[g].to = NoFile
      /\ t \in Texts /\ f \in Inodes /\ f # NoFile /\ dir' = dir
      /\ Serves(g) /\ WritesFile(g) /\ (g \notin clash => Touches(g) = {n})
  BY DistinctAssumption, CalmTouches
  DEF TransferInv, TransferTypeOK, RequestOK, PushClose, Serves, WritesFile, PushSteps, RenameSteps, Jobs
<1>2. /\ t \in Seq(Blocks) /\ Len(t) - 1 \in Nat /\ <<t[Len(t)]>> \in Seq(Blocks)
      /\ SubSeq(t, 1, Len(t) - 1) \in Seq(Blocks) /\ Len(SubSeq(t, 1, Len(t) - 1)) = Len(t) - 1
      /\ SubSeq(t, 1, Len(t) - 1) \o <<t[Len(t)]>> = t
  BY <1>1, TextIs
<1>3. \A what \in Texts \union {Unknown} : holds(what) \in [Names -> Texts \union {NoFile, Unknown}]
  BY <1>1 DEF TransferTypeOK
<1>4. dir' \in [Names -> Inodes \union {NoFile}] /\ OneName'
  BY <1>1 DEF TransferTypeOK, OneName
<1>5. CASE End(g, holds(t), Say(g, "SUCCESS")) /\ Store(blocks)
  <2>1. data[f] \in Seq(Blocks)
    BY <1>1 DEF TransferTypeOK
  <2>2. Written(data[f], Len(t) - 1, <<t[Len(t)]>>) \in Seq(Blocks)
    BY <1>2, <2>1, WrittenIs
  <2>3. data[f] = SubSeq(t, 1, Len(t) - 1) => Written(data[f], Len(t) - 1, <<t[Len(t)]>>) = t
    <3>1. Len(t) - 1 = Len(data[f]) => Written(data[f], Len(t) - 1, <<t[Len(t)]>>) = data[f] \o <<t[Len(t)]>>
      BY <1>2, <2>1, WrittenIs
    <3>2. QED
      BY <1>2, <3>1
  <2>4. /\ blocks \in [Inodes -> Seq(Blocks)] /\ (data[f] = SubSeq(t, 1, Len(t) - 1) => blocks[f] = t)
        /\ \A e \in Inodes \ {f} : blocks[e] = data[e]
    BY <1>1, <2>2, <2>3 DEF TransferTypeOK
  <2> HIDE DEF blocks
  <2>5. /\ data' \in [Inodes -> Seq(Blocks)]
        /\ \A m \in Names : dir'[m] \in Inodes => data'[dir'[m]] = blocks[dir'[m]]
    BY <1>5, <2>4, StoreKeeps
  <2>6. \A m \in Names : \/ dir'[m] = dir[m] /\ (dir[m] # NoFile => data'[dir[m]] = data[dir[m]])
                         \/ WritesFile(g) /\ m \in Touches(g)
    BY <1>1, <2>4, <2>5 DEF TransferTypeOK, Touches
  <2>7. PICK left : left = holds(t)
    OBVIOUS
  <2>8. ASSUME g \notin clash, NEW m \in Touches(g) PROVE Holds(m, left[m])'
    <3>1. m = n /\ left[n] = t
      BY <1>1, <2>7, <2>8 DEF TransferTypeOK
    <3>2. PushCalm(job[g])
      BY <1>1, <2>8 DEF TransferInv, CalmInv, CalmOK
    <3>3. dir[n] = f /\ data[f] = SubSeq(t, 1, Len(t) - 1)
      BY <1>1, <3>2 DEF PushCalm
    <3>4. dir'[n] = f /\ data'[f] = t
      BY <1>1, <2>4, <2>5, <3>3
    <3>5. left[m] \in Texts /\ dir'[m] \in Inodes /\ data'[dir'[m]] = left[m]
      BY <1>1, <3>1, <3>4
    <3>6. QED
      BY <3>5 DEF Holds
  <2>9. left \in [Names -> Texts \union {NoFile, Unknown}] /\ End(g, left, Say(g, "SUCCESS"))
    BY <1>1, <1>3, <1>5, <2>7
  <2>10. QED
    BY <1>1, <1>4, <2>5, <2>6, <2>8, <2>9, EndKeeps
<1>6. CASE Errs /\ End(g, holds(Unknown), Say(g, "SUCCESS")) /\ Store(data)
  <2>1. /\ data' \in [Inodes -> Seq(Blocks)]
        /\ \A m \in Names : dir[m] # NoFile => data'[dir[m]] = data[dir[m]]
    BY <1>1, <1>6, StoreKeeps DEF TransferTypeOK
  <2>2. PICK left : left = holds(Unknown)
    OBVIOUS
  <2>3. ASSUME g \notin clash, NEW m \in Touches(g) PROVE Holds(m, left[m])'
    <3>1. m = n /\ left[n] = Unknown
      BY <1>1, <2>2, <2>3 DEF TransferTypeOK
    <3>2. QED
      BY <3>1 DEF Holds
  <2>4. left \in [Names -> Texts \union {NoFile, Unknown}] /\ End(g, left, Say(g, "SUCCESS"))
    BY <1>1, <1>3, <1>6, <2>2
  <2>5. QED
    BY <1>1, <1>4, <2>1, <2>3, <2>4, EndKeeps
<1>7. QED
  BY <1>5, <1>6 DEF PushClose


(* A renaming request that goes on without a change of the files.          *)
LEMMA RenameGoesOn ==
  ASSUME TransferInv, NEW g \in Servers, job[g].at \in RenameSteps, NEW at \in RenameSteps,
         Proceed(g, [job[g] EXCEPT !.at = at]), UNCHANGED <<dir, data, clash>>,
         NEW next, next = [job[g] EXCEPT !.at = at],
         g \notin clash => RenameCalm(next)
  PROVE  TransferInv'
<1>1. /\ TransferTypeOK /\ RequestOK(job[g]) /\ job[g] \in Jobs
      /\ Serves(g) /\ WritesFile(g)
  BY DEF TransferInv, TransferTypeOK, RequestOK, Serves, WritesFile, PushSteps, RenameSteps
<1>2. next \in Jobs /\ next.at = at /\ next.name = job[g].name /\ next.to = job[g].to
      /\ next.text = job[g].text /\ next.file = job[g].file /\ next.got = job[g].got
  BY <1>1 DEF Jobs
<1>3. RequestOK(next)
  BY <1>1, <1>2 DEF RequestOK, PushSteps, RenameSteps
<1>4. ASSUME g \notin clash PROVE (PushCalm(next) /\ RenameCalm(next) /\ PullCalm(next))'
  <2>1. RenameCalm(next)'
    <3>1. known' = known
      BY DEF Proceed
    <3>2. QED
      BY <1>4, <3>1 DEF RenameCalm, Holds
  <2>2. QED
    BY <1>2, <2>1 DEF PushCalm, PullCalm, RenameSteps
<1>5. data' \in [Inodes -> Seq(Blocks)]
  BY <1>1 DEF TransferTypeOK
<1>6. Proceed(g, next) /\ dir' = dir /\ clash' = clash /\ data' = data
  OBVIOUS
<1>7. next.at # "rest" /\ (next.at \in PushSteps \union RenameSteps <=> WritesFile(g))
  BY <1>1, <1>2 DEF RenameSteps
<1> HIDE DEF TransferInv
<1>8. QED
  BY <1>1, <1>2, <1>3, <1>4, <1>5, <1>6, <1>7, ProceedKeeps

LEMMA StatSrcStays ==
  ASSUME TransferInv, NEW g \in Servers, StatSrc(g)
  PROVE  TransferInv'
<1>1. job[g].at = "stat_src" /\ UNCHANGED <<dir, data>> /\ Serves(g)
      /\ job[g] \in Jobs /\ job[g].name \in Names
  BY DEF StatSrc, Serves, TransferInv, TransferTypeOK, RequestOK
<1>2. CASE End(g, known, Say(g, "PATH_NOT_EXISTS"))
  BY <1>1, <1>2, EndSameKeeps
<1>3. CASE dir[job[g].name] # NoFile /\ Proceed(g, [job[g] EXCEPT !.at = "stat_dst"]) /\ UNCHANGED clash
  <2>1. PICK next : next = [job[g] EXCEPT !.at = "stat_dst"]
    OBVIOUS
  <2>2. next.at = "stat_dst" /\ next.name = job[g].name /\ next.to = job[g].to
    BY <1>1, <2>1 DEF Jobs
  <2>3. g \notin clash => RenameCalm(job[g])
    BY DEF TransferInv, CalmInv, CalmOK
  <2>4. g \notin clash => RenameCalm(next)
    BY <1>1, <1>3, <2>2, <2>3 DEF RenameCalm, RenameSteps
  <2>5. job[g].at \in RenameSteps /\ "stat_dst" \in RenameSteps
    BY <1>1 DEF RenameSteps
  <2>6. QED
    BY <1>1, <1>3, <2>1, <2>4, <2>5, RenameGoesOn
<1>4. QED
  BY <1>2, <1>3 DEF StatSrc

LEMMA StatDstStays ==
  ASSUME TransferInv, NEW g \in Servers, StatDst(g)
  PROVE  TransferInv'
<1>1. job[g].at = "stat_dst" /\ UNCHANGED <<dir, data>> /\ Serves(g)
      /\ job[g] \in Jobs /\ job[g].to \in Names
  BY DEF StatDst, Serves, TransferInv, TransferTypeOK, RequestOK, RenameSteps
<1>2. CASE End(g, known, Say(g, "PATH_EXISTS"))
  BY <1>1, <1>2, EndSameKeeps
<1>3. CASE dir[job[g].to] = NoFile /\ Proceed(g, [job[g] EXCEPT !.at = "rename"]) /\ UNCHANGED clash
  <2>1. PICK next : next = [job[g] EXCEPT !.at = "rename"]
    OBVIOUS
  <2>2. next.at = "rename" /\ next.name = job[g].name /\ next.to = job[g].to
    BY <1>1, <2>1 DEF Jobs
  <2>3. g \notin clash => RenameCalm(job[g])
    BY DEF TransferInv, CalmInv, CalmOK
  <2>4. g \notin clash => RenameCalm(next)
    BY <1>1, <1>3, <2>2, <2>3, DistinctAssumption DEF RenameCalm, RenameSteps, Holds
  <2>5. job[g].at \in RenameSteps /\ "rename" \in RenameSteps
    BY <1>1 DEF RenameSteps
  <2>6. QED
    BY <1>1, <1>3, <2>1, <2>4, <2>5, RenameGoesOn
<1>4. QED
  BY <1>2, <1>3 DEF StatDst

(* rename(2): who has the file open goes with it to the new name.          *)
LEMMA MoveStays ==
  ASSUME TransferInv, NEW g \in Servers, Move(g), job[g].at \in {"rename", "mv"}
  PROVE  TransferInv'
<1> DEFINE n == job[g].name
           m == job[g].to
<1>1. /\ TransferTypeOK /\ OneName /\ ClashInv /\ KnownInv /\ CalmInv
      /\ RequestOK(job[g]) /\ job[g] \in Jobs
      /\ n \in Names /\ m \in Names /\ n # m /\ job[g].file = NoFile
      /\ Serves(g) /\ WritesFile(g) /\ dir[n] # NoFile /\ dir[n] \in Inodes /\ NoFile \notin Inodes
  BY DistinctAssumption DEF TransferInv, TransferTypeOK, RequestOK, Move, Serves, WritesFile, PushSteps, RenameSteps
<1>2. /\ dir' = [dir EXCEPT ![m] = dir[n], ![n] = NoFile]
      /\ job' = [job EXCEPT ![g] = Resting] /\ clash' = clash \ {g}
      /\ Store(data)
      /\ known' = [k \in Names |->
           IF ~ WritesFile(g) \/ k \notin Touches(g) THEN known[k]
           ELSE IF g \in clash THEN Unknown
           ELSE [known EXCEPT ![m] = known[n], ![n] = NoFile][k]]
  BY DEF Move, End
<1>3. Touches(g) = {n, m}
  BY <1>1 DEF Touches
<1>4. /\ dir' \in [Names -> Inodes \union {NoFile}]
      /\ dir'[m] = dir[n] /\ dir'[n] = NoFile /\ \A k \in Names \ {n, m} : dir'[k] = dir[k]
  BY <1>1, <1>2 DEF TransferTypeOK
<1>5. job'[g] = Resting /\ \A h \in Servers \ {g} : job'[h] = job[h]
  BY <1>1, <1>2 DEF TransferTypeOK
<1>6. /\ data' \in [Inodes -> Seq(Blocks)]
      /\ \A k \in Names : dir'[k] \in Inodes => data'[dir'[k]] = data[dir'[k]]
  BY <1>1, <1>2, StoreKeeps DEF TransferTypeOK
<1>7. [known EXCEPT ![m] = known[n], ![n] = NoFile] \in [Names -> Texts \union {NoFile, Unknown}]
  BY <1>1 DEF TransferTypeOK
<1>8. /\ known' \in [Names -> Texts \union {NoFile, Unknown}]
      /\ \A k \in Names \ {n, m} : known'[k] = known[k]
      /\ g \in clash => known'[n] = Unknown /\ known'[m] = Unknown
      /\ g \notin clash => known'[n] = NoFile /\ known'[m] = known[n]
  BY <1>1, <1>2, <1>3, <1>7 DEF TransferTypeOK
<1>9. TransferTypeOK'
  <2>1. <<>> \in Seq(Blocks)
    OBVIOUS
  <2>2. Resting \in Jobs /\ RequestOK(Resting)
    BY <2>1, DistinctAssumption
    DEF Resting, Jobs, RequestOK, PushSteps, RenameSteps, PullSteps
  <2>3. QED
    BY <1>1, <1>2, <1>4, <1>5, <1>6, <1>8, <2>2 DEF TransferTypeOK
<1>10. OneName'
  BY <1>1, <1>4 DEF OneName
<1>11. ~Serves(g)' /\ ~WritesFile(g)' /\ Touches(g)' = {}
  BY <1>5 DEF Serves, WritesFile, Touches, Resting, PushSteps, RenameSteps
<1>12. \A k \in Names \ {n, m} : Same(k)
  BY <1>1, <1>4, <1>6, <1>8 DEF Same, TransferTypeOK
<1>13. ASSUME NEW h \in Servers \ {g}
       PROVE  /\ WritesFile(h)' = WritesFile(h) /\ (Serves(h)' <=> Serves(h))
              /\ \A k \in Names \ {n, m} : k \in Touches(h)' <=> k \in Touches(h)
              /\ n \in Touches(h)' => n \in Touches(h)
              /\ m \in Touches(h)' => m \in Touches(h) \/ n \in Touches(h)
              /\ n \in Touches(h) \/ m \in Touches(h) => {g, h} \subseteq clash
  <2>1. /\ WritesFile(h)' = WritesFile(h) /\ (Serves(h)' <=> Serves(h))
        /\ \A k \in Names \ {n, m} : k \in Touches(h)' <=> k \in Touches(h)
        /\ n \in Touches(h)' => n \in Touches(h)
        /\ m \in Touches(h)' => m \in Touches(h) \/ n \in Touches(h)
    BY <1>1, <1>4, <1>5 DEF WritesFile, Serves, Touches
  <2>2. n \in Touches(h) \/ m \in Touches(h) => {g, h} \subseteq clash
    BY <1>1, <1>3 DEF ClashInv
  <2>3. QED
    BY <2>1, <2>2
<1>14. ClashInv'
  <2> SUFFICES ASSUME NEW a \in Servers, NEW b \in Servers, a # b, WritesFile(a)',
                      NEW k, k \in Touches(a)', k \in Touches(b)'
               PROVE  {a, b} \subseteq clash'
    BY DEF ClashInv
  <2>1. a # g /\ b # g /\ k \in Names
    BY <1>11 DEF Touches
  <2>2. CASE k \in {n, m}
    BY <1>2, <1>13, <2>1, <2>2
  <2>3. CASE k \notin {n, m}
    BY <1>1, <1>2, <1>13, <2>1, <2>3 DEF ClashInv
  <2>4. QED
    BY <2>2, <2>3
<1>15. KnownInv'
  <2> SUFFICES ASSUME NEW k \in Names, \A h \in Servers : WritesFile(h)' => k \notin Touches(h)'
               PROVE  Holds(k, known[k])'
    BY DEF KnownInv
  <2>1. CASE k \notin {n, m}
    <3>1. \A h \in Servers : WritesFile(h) => k \notin Touches(h)
      BY <1>3, <1>13, <2>1
    <3>2. Holds(k, known[k]) /\ Same(k)
      BY <1>1, <1>12, <2>1, <3>1 DEF KnownInv
    <3>3. QED
      BY <3>2, HoldsStays
  <2>2. CASE k \in {n, m} /\ g \in clash
    BY <1>8, <2>2 DEF Holds
  <2>3. CASE k = n /\ g \notin clash
    BY <1>4, <1>8, <2>3 DEF Holds
  <2>4. CASE k = m /\ g \notin clash
    <3>1. Holds(n, known[n])
      BY <1>1, <2>4 DEF CalmInv, CalmOK, RenameCalm, RenameSteps
    <3>2. known'[m] = known[n] /\ dir'[m] = dir[n] /\ data'[dir'[m]] = data[dir[n]]
      BY <1>1, <1>4, <1>6, <1>8, <2>4
    <3>3. QED
      BY <1>1, <2>4, <3>1, <3>2 DEF Holds
  <2>5. QED
    BY <2>1, <2>2, <2>3, <2>4
<1>16. CalmInv'
  <2>1. ASSUME NEW h \in Servers \ {g}, h \notin clash' PROVE CalmOK(h)'
    <3>1. CalmOK(h) /\ job'[h] = job[h] /\ h \notin clash
      BY <1>1, <1>2, <1>5, <2>1 DEF CalmInv
    <3>2. CASE Serves(h)
      <4>1. n \notin Touches(h) /\ m \notin Touches(h)
        BY <1>13, <3>1
      <4>2. \A k \in Names : k \in {job[h].name, job[h].to} => Same(k)
        BY <1>12, <3>2, <4>1 DEF Touches
      <4>3. QED
        BY <1>1, <3>1, <4>2, CalmStays
    <3>3. CASE ~Serves(h)
      BY <3>1, <3>3 DEF Serves, CalmOK, PushCalm, RenameCalm, PullCalm, RenameSteps
    <3>4. QED
      BY <3>2, <3>3
  <2>2. CalmOK(g)'
    BY <1>5 DEF CalmOK, PushCalm, RenameCalm, PullCalm, RenameSteps, Resting
  <2>3. QED
    BY <2>1, <2>2 DEF CalmInv
<1>17. QED
  BY <1>9, <1>10, <1>14, <1>15, <1>16 DEF TransferInv


LEMMA RenameStays ==
  ASSUME TransferInv, NEW g \in Servers, Rename(g)
  PROVE  TransferInv'
<1>1. job[g].at = "rename" /\ job[g] \in Jobs
  BY DEF Rename, TransferInv, TransferTypeOK
<1>2. CASE Move(g)
  BY <1>1, <1>2, MoveStays
<1>3. CASE Proceed(g, [job[g] EXCEPT !.at = "mv"]) /\ UNCHANGED <<dir, data, clash>>
  <2>1. PICK next : next = [job[g] EXCEPT !.at = "mv"]
    OBVIOUS
  <2>2. next.at = "mv" /\ next.name = job[g].name /\ next.to = job[g].to
    BY <1>1, <2>1 DEF Jobs
  <2>3. g \notin clash => RenameCalm(job[g])
    BY DEF TransferInv, CalmInv, CalmOK
  <2>4. g \notin clash => RenameCalm(next)
    BY <1>1, <2>2, <2>3 DEF RenameCalm, RenameSteps
  <2>5. job[g].at \in RenameSteps /\ "mv" \in RenameSteps
    BY <1>1 DEF RenameSteps
  <2>6. QED
    BY <1>3, <2>1, <2>4, <2>5, RenameGoesOn
<1>4. QED
  BY <1>2, <1>3 DEF Rename

(* The first half of a copying mv gives the new name a file of its own.    *)
LEMMA CopyStays ==
  ASSUME TransferInv, NEW g \in Servers, job[g].at = "mv", dir[job[g].name] # NoFile,
         NEW f, f = NewInode, dir' = [dir EXCEPT ![job[g].to] = f],
         \/ /\ Proceed(g, [job[g] EXCEPT !.at = "unlink"])
            /\ Store([data EXCEPT ![f] = data[dir[job[g].name]]])
            /\ UNCHANGED clash
         \/ End(g, Unsure, Say(g, "SYSTEM")) /\ Store([data EXCEPT ![f] = <<>>])
  PROVE  TransferInv'
<1> DEFINE n == job[g].name
           m == job[g].to
           next == [job[g] EXCEPT !.at = "unlink"]
<1>1. /\ TransferTypeOK /\ OneName /\ CalmInv
      /\ RequestOK(job[g]) /\ job[g] \in Jobs
      /\ n \in Names /\ m \in Names /\ n # m /\ job[g].file = NoFile
      /\ Serves(g) /\ WritesFile(g) /\ dir[n] \in Inodes /\ NoFile \notin Inodes
  BY DistinctAssumption DEF TransferInv, TransferTypeOK, RequestOK, Serves, WritesFile, PushSteps, RenameSteps
<1>2. f \in Inodes /\ (\A k \in Names : dir[k] # f) /\ (\A h \in Servers : job[h].file # f)
  BY <1>1, NewFile
<1>3. /\ dir' \in [Names -> Inodes \union {NoFile}]
      /\ dir'[m] = f /\ \A k \in Names \ {m} : dir'[k] = dir[k]
  BY <1>1, <1>2 DEF TransferTypeOK
<1>4. OneName'
  BY <1>1, <1>2, <1>3 DEF OneName
<1>5. Touches(g) = {n, m}
  BY <1>1 DEF Touches
<1>6. \A k \in Names : \/ dir'[k] = dir[k] \/ dir'[k] = NoFile
                       \/ \A h \in Servers \ {g} : job[h].file # dir'[k]
  BY <1>2, <1>3
<1>7. CASE Proceed(g, next) /\ Store([data EXCEPT ![f] = data[dir[n]]]) /\ UNCHANGED clash
  <2>1. [data EXCEPT ![f] = data[dir[n]]] \in [Inodes -> Seq(Blocks)]
    BY <1>1 DEF TransferTypeOK
  <2>2. /\ data' \in [Inodes -> Seq(Blocks)]
        /\ \A k \in Names : dir'[k] \in Inodes => data'[dir'[k]] = [data EXCEPT ![f] = data[dir[n]]][dir'[k]]
    BY <1>7, <2>1, StoreKeeps
  <2>3. /\ data'[f] = data[dir[n]]
        /\ \A k \in Names \ {m} : dir[k] # NoFile => data'[dir[k]] = data[dir[k]]
    BY <1>1, <1>2, <1>3, <2>2 DEF TransferTypeOK
  <2>4. /\ next \in Jobs /\ next.at = "unlink" /\ next.name = n /\ next.to = m
        /\ next.file = NoFile /\ next.got = job[g].got /\ next.text = job[g].text
    BY <1>1 DEF Jobs, RenameSteps
  <2>5. RequestOK(next)
    BY <1>1, <2>4 DEF RequestOK, PushSteps, RenameSteps
  <2> HIDE DEF next
  <2>6. job'[g] = next /\ (\A h \in Servers \ {g} : job'[h] = job[h]) /\ known' = known
        /\ job' \in [Servers -> Jobs]
    BY <1>1, <1>7, <2>4 DEF Proceed, TransferTypeOK
  <2>7. TransferTypeOK'
    BY <1>1, <1>3, <2>2, <2>5, <2>6 DEF TransferTypeOK
  <2>8. Touches(g)' = {n, m} /\ WritesFile(g)'
    BY <1>1, <2>4, <2>6 DEF Touches, Serves, WritesFile, RenameSteps
  <2>9. \A k \in Names : Same(k) \/ (WritesFile(g) /\ k \in Touches(g))
    BY <1>1, <1>3, <1>5, <2>3, <2>6 DEF Same
  <2>10. ASSUME g \notin clash' PROVE CalmOK(g)'
    <3>1. RenameCalm(job[g])
      BY <1>1, <1>7, <2>10 DEF CalmInv, CalmOK
    <3>2. Holds(n, known[n]) /\ known[m] \in {NoFile, Unknown} /\ Same(n)
      BY <1>1, <1>3, <2>3, <2>6, <3>1 DEF RenameCalm, RenameSteps, Same
    <3>3. Holds(n, known[n])'
      <4>1. PICK k : k = n
        OBVIOUS
      <4>2. Holds(k, known[k])'
        BY <1>1, <3>2, <4>1, HoldsStays
      <4>3. n' = k
        BY <2>4, <2>6, <4>1
      <4>4. QED
        BY <4>2, <4>3
    <3>4. dir'[n] = dir[n] /\ dir'[m] = f /\ data'[dir'[m]] = data'[dir'[n]] /\ f # NoFile
      BY <1>1, <1>2, <1>3, <2>3
    <3>5. job'[g].name = n /\ job'[g].to = m /\ job'[g].at = "unlink"
      BY <2>4, <2>6
    <3>6. QED
      BY <1>1, <2>6, <3>2, <3>3, <3>4, <3>5 DEF CalmOK, PushCalm, RenameCalm, PullCalm, RenameSteps
  <2>11. /\ clash \ {g} \subseteq clash' /\ (Serves(g)' /\ g \in clash => g \in clash')
         /\ Touches(g)' \subseteq Touches(g) /\ Touches(g) \subseteq Touches(g)'
    BY <1>5, <1>7, <2>8
  <2>12. QED
    BY <1>1, <1>4, <1>6, <2>6, <2>7, <2>8, <2>9, <2>10, <2>11, StepKeeps
<1>8. CASE End(g, Unsure, Say(g, "SYSTEM")) /\ Store([data EXCEPT ![f] = <<>>])
  <2>1. <<>> \in Seq(Blocks)
    OBVIOUS
  <2>2. [data EXCEPT ![f] = <<>>] \in [Inodes -> Seq(Blocks)]
    BY <1>1, <2>1 DEF TransferTypeOK
  <2>3. /\ data' \in [Inodes -> Seq(Blocks)]
        /\ \A k \in Names : dir'[k] \in Inodes => data'[dir'[k]] = [data EXCEPT ![f] = <<>>][dir'[k]]
    BY <1>8, <2>2, StoreKeeps
  <2>4. \A k \in Names : \/ dir'[k] = dir[k] /\ (dir[k] # NoFile => data'[dir[k]] = data[dir[k]])
                         \/ WritesFile(g) /\ k \in Touches(g)
    BY <1>1, <1>2, <1>3, <1>5, <2>3 DEF TransferTypeOK
  <2>5. Unsure \in [Names -> Texts \union {NoFile, Unknown}]
    BY DEF Unsure
  <2>6. \A k \in Touches(g) : Holds(k, Unsure[k])'
    BY DEF Touches, Unsure, Holds
  <2>7. QED
    BY <1>1, <1>3, <1>4, <1>6, <1>8, <2>3, <2>4, <2>5, <2>6, EndKeeps
<1>9. QED
  BY <1>7, <1>8

LEMMA MvStays ==
  ASSUME TransferInv, NEW g \in Servers, Mv(g)
  PROVE  TransferInv'
<1>1. job[g].at = "mv" /\ Serves(g)
  BY DEF Mv, Serves
<1>2. CASE Move(g)
  BY <1>1, <1>2, MoveStays
<1>3. CASE End(g, Unsure, Say(g, "SYSTEM")) /\ UNCHANGED <<dir, data>>
  BY <1>1, <1>3, EndSameKeeps
<1>4. PICK f : f = NewInode
  OBVIOUS
<1>5. CASE /\ dir[job[g].name] # NoFile
           /\ dir' = [dir EXCEPT ![job[g].to] = f]
           /\ \/ /\ Proceed(g, [job[g] EXCEPT !.at = "unlink"])
                 /\ Store([data EXCEPT ![f] = data[dir[job[g].name]]])
                 /\ UNCHANGED <<errors, clash>>
              \/ Errs /\ End(g, Unsure, Say(g, "SYSTEM")) /\ Store([data EXCEPT ![f] = <<>>])
  BY <1>1, <1>4, <1>5, CopyStays
<1>6. QED
  BY <1>2, <1>3, <1>4, <1>5 DEF Mv

LEMMA MvUnlinkStays ==
  ASSUME TransferInv, NEW g \in Servers, MvUnlink(g)
  PROVE  TransferInv'
<1> DEFINE n == job[g].name
           m == job[g].to
<1>1. /\ TransferTypeOK /\ OneName /\ CalmInv
      /\ RequestOK(job[g]) /\ job[g] \in Jobs /\ job[g].at = "unlink"
      /\ n \in Names /\ m \in Names /\ n # m /\ job[g].file = NoFile
      /\ Serves(g) /\ WritesFile(g) /\ NoFile \notin Inodes /\ Store(data)
  BY DistinctAssumption
  DEF TransferInv, TransferTypeOK, RequestOK, MvUnlink, Serves, WritesFile, PushSteps, RenameSteps
<1>2. CASE End(g, Unsure, Say(g, "SYSTEM")) /\ UNCHANGED dir
  BY <1>1, <1>2, EndSameKeeps
<1>3. PICK left : left = [known EXCEPT ![m] = known[n], ![n] = NoFile]
  OBVIOUS
<1>4. CASE dir[n] # NoFile /\ dir' = [dir EXCEPT ![n] = NoFile] /\ End(g, left, Say(g, "SUCCESS"))
  <2>1. /\ dir' \in [Names -> Inodes \union {NoFile}]
        /\ dir'[n] = NoFile /\ \A k \in Names \ {n} : dir'[k] = dir[k]
    BY <1>1, <1>4 DEF TransferTypeOK
  <2>2. OneName'
    BY <1>1, <2>1 DEF OneName
  <2>3. Touches(g) = {n, m}
    BY <1>1 DEF Touches
  <2>4. /\ data' \in [Inodes -> Seq(Blocks)]
        /\ \A k \in Names : dir'[k] \in Inodes => data'[dir'[k]] = data[dir'[k]]
    BY <1>1, StoreKeeps DEF TransferTypeOK
  <2>5. /\ left \in [Names -> Texts \union {NoFile, Unknown}]
        /\ left[n] = NoFile /\ left[m] = known[n]
    BY <1>1, <1>3 DEF TransferTypeOK
  <2>6. \A k \in Names : \/ dir'[k] = dir[k] /\ (dir[k] # NoFile => data'[dir[k]] = data[dir[k]])
                         \/ WritesFile(g) /\ k \in Touches(g)
    BY <1>1, <2>1, <2>3, <2>4 DEF TransferTypeOK
  <2>7. ASSUME g \notin clash, NEW k \in Touches(g) PROVE Holds(k, left[k])'
    <3>1. RenameCalm(job[g])
      BY <1>1, <2>7 DEF CalmInv, CalmOK
    <3>2. Holds(n, known[n]) /\ dir[m] # NoFile /\ dir[n] # NoFile /\ data[dir[m]] = data[dir[n]]
      BY <1>1, <1>4, <3>1 DEF RenameCalm, RenameSteps
    <3>3. dir'[m] = dir[m] /\ dir'[m] \in Inodes /\ data'[dir'[m]] = data[dir[n]]
      BY <1>1, <2>1, <2>4, <3>2 DEF TransferTypeOK
    <3>4. dir'[n] = NoFile /\ left[n] = NoFile
      BY <2>1, <2>5
    <3>5. left[m] = Unknown \/ (left[m] \in Texts /\ data'[dir'[m]] = left[m])
      BY <2>5, <3>2, <3>3 DEF Holds
    <3>6. k = n \/ k = m
      BY <2>3
    <3>7. QED
      BY <3>3, <3>4, <3>5, <3>6 DEF Holds
  <2>8. QED
    BY <1>1, <1>4, <2>1, <2>2, <2>3, <2>4, <2>5, <2>6, <2>7, EndKeeps
<1>5. QED
  BY <1>2, <1>3, <1>4 DEF MvUnlink


LEMMA PullMeasureStays ==
  ASSUME TransferInv, NEW g \in Servers, PullMeasure(g)
  PROVE  TransferInv'
<1> DEFINE n == job[g].name
           r == job[g].range
<1>1. /\ TransferTypeOK /\ RequestOK(job[g]) /\ job[g] \in Jobs /\ job[g].at = "measure"
      /\ n \in Names /\ Serves(g) /\ ~WritesFile(g) /\ UNCHANGED <<dir, data>>
      /\ dir[n] # NoFile => data[dir[n]] \in Seq(Blocks)
  BY DEF TransferInv, TransferTypeOK, RequestOK, PullMeasure, Serves, WritesFile, PushSteps, RenameSteps
<1>2. PICK size : size = IF dir[n] = NoFile THEN 0 ELSE Len(data[dir[n]])
  OBVIOUS
<1>3. PICK next : next = [job[g] EXCEPT !.at = "reopen", !.size = size]
  OBVIOUS
<1>4. CASE \E response : End(g, known, response)
  BY <1>1, <1>4, EndSameKeeps
<1>5. CASE /\ dir[n] # NoFile /\ (r # Whole => Satisfiable(r, size))
           /\ Proceed(g, next) /\ UNCHANGED clash
  <2>1. size \in Nat /\ size = Len(data[dir[n]])
    BY <1>1, <1>2, <1>5
  <2>2. /\ next \in Jobs /\ next.at = "reopen" /\ next.name = n /\ next.to = job[g].to
        /\ next.range = r /\ next.size = size /\ next.file = job[g].file /\ next.got = job[g].got
    BY <1>1, <1>3, <2>1 DEF Jobs, PullSteps
  <2>3. r # Other
    BY <1>5, DistinctAssumption DEF Satisfiable
  <2>4. RequestOK(next)
    BY <1>1, <2>2, <2>3 DEF RequestOK, PushSteps, RenameSteps
  <2>5. (PushCalm(next) /\ RenameCalm(next) /\ PullCalm(next))'
    <3>1. dir'[next.name] # NoFile /\ next.size = Len(data'[dir'[next.name]])
      BY <1>1, <1>5, <2>1, <2>2
    <3>2. next.range # Whole => Satisfiable(next.range, next.size)
      BY <1>5, <2>2
    <3>3. QED
      BY <2>2, <3>1, <3>2 DEF PushCalm, RenameCalm, PullCalm, RenameSteps
  <2>6. next.at # "rest" /\ (next.at \in PushSteps \union RenameSteps <=> WritesFile(g))
    BY <1>1, <2>2 DEF PushSteps, RenameSteps
  <2>7. data' \in [Inodes -> Seq(Blocks)]
    BY <1>1 DEF TransferTypeOK
  <2>8. QED
    BY <1>1, <1>5, <2>2, <2>4, <2>5, <2>6, <2>7, ProceedKeeps
<1>6. QED
  BY <1>2, <1>3, <1>4, <1>5 DEF PullMeasure, Reply

LEMMA PullReopenStays ==
  ASSUME TransferInv, NEW g \in Servers, PullReopen(g)
  PROVE  TransferInv'
<1> DEFINE n == job[g].name
<1>1. /\ TransferTypeOK /\ CalmInv /\ RequestOK(job[g]) /\ job[g] \in Jobs /\ job[g].at = "reopen"
      /\ n \in Names /\ Serves(g) /\ ~WritesFile(g) /\ UNCHANGED <<dir, data>>
      /\ dir[n] \in Inodes \union {NoFile} /\ NoFile \notin Inodes
  BY DistinctAssumption
  DEF TransferInv, TransferTypeOK, RequestOK, PullReopen, Serves, WritesFile, PushSteps, RenameSteps
<1>2. PICK next : next = [job[g] EXCEPT !.at = "read", !.file = dir[n]]
  OBVIOUS
<1>3. CASE \E response : End(g, known, response)
  BY <1>1, <1>3, EndSameKeeps
<1>4. CASE dir[n] # NoFile /\ Proceed(g, next) /\ UNCHANGED clash
  <2>1. /\ next \in Jobs /\ next.at = "read" /\ next.name = n /\ next.to = job[g].to
        /\ next.range = job[g].range /\ next.size = job[g].size
        /\ next.file = dir[n] /\ next.got = <<>> /\ next.size \in Nat
    BY <1>1, <1>2 DEF Jobs, PullSteps, RequestOK
  <2>2. RequestOK(next)
    BY <1>1, <1>4, <2>1 DEF RequestOK, PushSteps, RenameSteps
  <2>3. ASSUME g \notin clash PROVE (PushCalm(next) /\ RenameCalm(next) /\ PullCalm(next))'
    <3>1. PullCalm(job[g])
      BY <1>1, <2>3 DEF CalmInv, CalmOK
    <3>2. /\ dir[n] # NoFile /\ next.size = Len(data[dir[n]])
          /\ next.range # Whole => Satisfiable(next.range, next.size)
      BY <1>1, <2>1, <3>1 DEF PullCalm
    <3>3. next.range \in Ranges \union {Whole, Other}
      BY <2>1 DEF Jobs
    <3>4. /\ next.range # Whole => 0 <= Length(next)
          /\ First(next) \in Nat /\ First(next) <= next.size
      <4>1. CASE next.range = Whole
        BY <2>1, <4>1 DEF First
      <4>2. CASE next.range # Whole
        <5>1. next.range.first \in Nat /\ next.range.last \in Nat
          BY <3>2, <3>3, <4>2, TransferAssumption DEF Satisfiable
        <5>2. next.range.first <= LastBlock(next.range, next.size)
          BY <3>2, <4>2 DEF Satisfiable
        <5>3. LastBlock(next.range, next.size) \in Int /\ LastBlock(next.range, next.size) <= next.size - 1
          BY <2>1, <5>1 DEF LastBlock
        <5>4. PICK last : last = LastBlock(next.range, next.size)
          OBVIOUS
        <5>5. Length(next) = last - next.range.first + 1 /\ First(next) = next.range.first
          BY <4>2, <5>4 DEF Length, First
        <5>6. QED
          BY <2>1, <5>1, <5>2, <5>3, <5>4, <5>5
      <4>3. QED
        BY <4>1, <4>2
    <3>5. SubSeq(data[next.file], First(next) + 1, First(next) + Len(next.got)) = <<>>
          /\ First(next) + Len(next.got) <= next.size
      <4>1. Len(next.got) = 0
        BY <2>1
      <4>2. First(next) + Len(next.got) < First(next) + 1 /\ First(next) + Len(next.got) = First(next)
        BY <3>4, <4>1
      <4>3. QED
        BY <3>4, <4>1, <4>2, SubSeqEmpty
    <3>6. PullCalm(next)
      BY <2>1, <3>2, <3>4, <3>5 DEF PullCalm
    <3>7. (PullCalm(next))'
      <4>1. dir' = dir /\ data' = data
        BY <1>1
      <4>2. QED
        BY <3>6, <4>1 DEF PullCalm, First, Length
    <3>8. QED
      BY <2>1, <3>7 DEF PushCalm, RenameCalm, RenameSteps
  <2>4. next.at # "rest" /\ (next.at \in PushSteps \union RenameSteps <=> WritesFile(g))
    BY <1>1, <2>1 DEF PushSteps, RenameSteps
  <2>5. data' \in [Inodes -> Seq(Blocks)]
    BY <1>1 DEF TransferTypeOK
  <2>6. QED
    BY <1>1, <1>4, <2>1, <2>2, <2>3, <2>4, <2>5, ProceedKeeps
<1>5. QED
  BY <1>2, <1>3, <1>4 DEF PullReopen, Reply

LEMMA PullReadStays ==
  ASSUME TransferInv, NEW g \in Servers, PullRead(g)
  PROVE  TransferInv'
<1> DEFINE n == job[g].name
           f == job[g].file
<1>1. /\ TransferTypeOK /\ CalmInv /\ RequestOK(job[g]) /\ job[g] \in Jobs /\ job[g].at = "read"
      /\ n \in Names /\ Serves(g) /\ ~WritesFile(g) /\ dir' = dir /\ Store(data)
      /\ f \in Inodes /\ NoFile \notin Inodes /\ data[f] \in Seq(Blocks)
      /\ job[g].got \in Seq(Blocks) /\ job[g].range \in Ranges \union {Whole} /\ job[g].size \in Nat
  BY DistinctAssumption
  DEF TransferInv, TransferTypeOK, RequestOK, Jobs, PullRead, Serves, WritesFile, PushSteps, RenameSteps
<1>2. CASE \E response : End(g, known, response)
  BY <1>1, <1>2, EndSameKeeps
<1>3. PICK got : got = job[g].got
  OBVIOUS
<1>4. PICK at : at = First(job[g]) + Len(got) + 1
  OBVIOUS
<1>5. PICK next : next = [job[g] EXCEPT !.got = Append(got, data[f][at])]
  OBVIOUS
<1>6. CASE /\ ~(job[g].range # Whole /\ Len(got) = Length(job[g])) /\ at <= Len(data[f])
           /\ Proceed(g, next) /\ UNCHANGED clash
  <2>1. First(job[g]) \in Nat /\ at \in 1..Len(data[f]) /\ got \in Seq(Blocks) /\ Len(got) \in Nat
    BY <1>1, <1>3, <1>4, <1>6, TransferAssumption DEF First
  <2>2. data[f][at] \in Blocks
    BY <1>1, <2>1
  <2>3. /\ Append(got, data[f][at]) \in Seq(Blocks)
        /\ Len(Append(got, data[f][at])) = Len(got) + 1
    BY <2>1, <2>2, AppendProperties
  <2>4. /\ next \in Jobs /\ next.at = "read" /\ next.name = n /\ next.to = job[g].to
        /\ next.range = job[g].range /\ next.size = job[g].size
        /\ next.file = f /\ next.got = Append(got, data[f][at])
    BY <1>1, <1>5, <2>3 DEF Jobs
  <2>5. RequestOK(next)
    BY <1>1, <2>4 DEF RequestOK, PushSteps, RenameSteps
  <2>6. /\ data' \in [Inodes -> Seq(Blocks)]
        /\ \A k \in Names : dir[k] # NoFile => data'[dir[k]] = data[dir[k]]
    BY <1>1, StoreKeeps DEF TransferTypeOK
  <2>7. ASSUME g \notin clash PROVE (PushCalm(next) /\ RenameCalm(next) /\ PullCalm(next))'
    <3>1. PullCalm(job[g])
      BY <1>1, <2>7 DEF CalmInv, CalmOK
    <3>2. /\ dir[n] = f /\ job[g].size = Len(data[f])
          /\ job[g].range # Whole => Satisfiable(job[g].range, job[g].size) /\ Len(got) <= Length(job[g])
          /\ got = SubSeq(data[f], First(job[g]) + 1, First(job[g]) + Len(got))
      BY <1>1, <1>3, <3>1 DEF PullCalm
    <3>3. First(next) = First(job[g]) /\ Length(next) = Length(job[g])
      BY <2>4 DEF First, Length
    <3>4. job[g].range # Whole => Length(job[g]) \in Int
      BY <1>1, TransferAssumption DEF Length, LastBlock
    <3>5. job[g].range # Whole => Len(next.got) <= Length(next)
      BY <1>6, <2>1, <2>3, <2>4, <3>2, <3>3, <3>4
    <3>6. First(next) + Len(next.got) <= next.size
      BY <1>4, <2>1, <2>3, <2>4, <3>2, <3>3
    <3>7. next.got = SubSeq(data[f], First(next) + 1, First(next) + Len(next.got))
      <4>1. First(next) + Len(next.got) = at /\ First(next) + 1 \in 1..Len(data[f])
            /\ at \in First(next) + 1 .. Len(data[f]) /\ at - 1 = First(next) + Len(got)
        <5>1. PICK first : first = First(job[g])
          OBVIOUS
        <5>2. PICK size : size = Len(data[f])
          OBVIOUS
        <5>3. PICK len : len = Len(got)
          OBVIOUS
        <5>4. first \in Nat /\ size \in Nat /\ len \in Nat /\ at = first + len + 1 /\ at <= size
          BY <1>1, <1>4, <2>1, <5>1, <5>2, <5>3
        <5>5. First(next) = first /\ Len(next.got) = len + 1
          BY <2>3, <2>4, <3>3, <5>1, <5>3
        <5>6. first + (len + 1) = at /\ first + 1 \in 1..size /\ at \in first + 1 .. size /\ at - 1 = first + len
          BY <5>4
        <5>7. QED
          BY <5>2, <5>3, <5>5, <5>6
      <4>2. SubSeq(data[f], First(next) + 1, at) = SubSeq(data[f], First(next) + 1, at - 1) \o <<data[f][at]>>
        BY <1>1, <4>1, SubSeqRecursiveSecond
      <4>3. SubSeq(data[f], First(next) + 1, at - 1) = got
        BY <3>2, <3>3, <4>1
      <4>4. Append(got, data[f][at]) = got \o <<data[f][at]>>
        BY <2>1, <2>2, AppendIsConcat
      <4>5. QED
        BY <2>4, <4>1, <4>2, <4>3, <4>4
    <3>8. data'[f] = data[f] /\ dir'[next.name] = next.file /\ dir'[next.name] # NoFile
      BY <1>1, <2>4, <2>6, <3>2
    <3>9. PullCalm(next)'
      <4>1. /\ dir'[next.name] # NoFile /\ next.size = Len(data'[dir'[next.name]])
            /\ next.range # Whole => Satisfiable(next.range, next.size)
        BY <2>4, <3>2, <3>8
      <4>2. next.got = SubSeq(data'[next.file], First(next) + 1, First(next) + Len(next.got))
        BY <2>4, <3>7, <3>8
      <4>3. QED
        BY <2>4, <3>5, <3>6, <3>8, <4>1, <4>2 DEF PullCalm
    <3>10. QED
      BY <2>4, <3>9 DEF PushCalm, RenameCalm, RenameSteps
  <2>8. next.at # "rest" /\ (next.at \in PushSteps \union RenameSteps <=> WritesFile(g))
    BY <1>1, <2>4 DEF PushSteps, RenameSteps
  <2>9. QED
    BY <1>1, <1>6, <2>4, <2>5, <2>6, <2>7, <2>8, ProceedKeeps
<1>7. at \in Nat /\ Len(data[f]) \in Nat
  BY <1>1, <1>3, <1>4, TransferAssumption DEF First
<1> DEFINE full == job[g].range # Whole /\ Len(job[g].got) = Length(job[g])
           pos == First(job[g]) + Len(job[g].got) + 1
<1>8. CASE ~full /\ pos <= Len(data[f])
  <2>1. Proceed(g, [job[g] EXCEPT !.got = Append(job[g].got, data[f][pos])]) /\ UNCHANGED clash
    <3> HIDE DEF full
    <3>1. ~(full \/ pos > Len(data[f]))
      BY <1>3, <1>4, <1>7, <1>8
    <3>2. QED
      BY <1>8, <3>1 DEF PullRead, full
  <2>2. QED
    BY <1>3, <1>4, <1>5, <1>6, <1>8, <2>1
<1>9. CASE full \/ pos > Len(data[f])
  <2>1. ~(~full /\ pos <= Len(data[f]))
    <3> HIDE DEF full
    <3>1. QED
      BY <1>3, <1>4, <1>7, <1>9
  <2>2. \E response : Reply(g, response)
    BY <1>9, <2>1 DEF PullRead
  <2>3. QED
    BY <1>2, <2>2 DEF Reply
<1>10. QED
  BY <1>3, <1>4, <1>7, <1>8, <1>9


LEMMA KilledStays ==
  ASSUME TransferInv, NEW g \in Servers, Killed(g)
  PROVE  TransferInv'
<1>1. Serves(g) /\ job[g].at \notin {"mv", "unlink"} /\ dir' = dir /\ Store(data)
  BY DEF Killed, Serves
<1>2. CASE job[g].at \in PushSteps \ {"push_open"}
  BY <1>1, <1>2, EndSameKeeps DEF Killed
<1>3. CASE job[g].at \notin PushSteps \ {"push_open"}
  BY <1>1, <1>3, EndSameKeeps DEF Killed, PushSteps
<1>4. QED
  BY <1>2, <1>3

(* The files of a user, with what each request has found, written or read  *)
(* of them so far (api_opt_push.lua, api_opt_pull.lua, api_opt_rename.lua): *)
(* one name for a file; requests that meet over a name know it; a name     *)
(* that nobody writes to holds what the answers have told of it; and a     *)
(* request that met no writer of its names is where it thinks it is.       *)
THEOREM TransferInvariance == TransferSpec => []TransferInv
<1>1. TransferInit => TransferInv
  BY TransferStart
<1>2. TransferInv /\ [TransferNext]_transferVars => TransferInv'
  <2> SUFFICES ASSUME TransferInv, [TransferNext]_transferVars PROVE TransferInv'
    OBVIOUS
  <2>1. CASE UNCHANGED transferVars
    BY <2>1
    DEF transferVars, TransferInv, TransferTypeOK, OneName, ClashInv, KnownInv, Holds, CalmInv, CalmOK,
        PushCalm, RenameCalm, PullCalm, WritesFile, Touches, Serves
  <2>2. CASE TransferNext
    BY <2>2, PushBeginKeeps, RenameBeginKeeps, PullBeginKeeps, PushOpenStays, PushWriteStays,
       PushCloseStays, StatSrcStays, StatDstStays, RenameStays, MvStays, MvUnlinkStays,
       PullMeasureStays, PullReopenStays, PullReadStays, KilledStays
    DEF TransferNext
  <2>3. QED
    BY <2>1, <2>2
<1>3. QED
  BY <1>1, <1>2, PTL DEF TransferSpec

(* A name that a calm pull is about holds what the answers tell of it.     *)
LEMMA PullHolds ==
  ASSUME TransferInv, NEW h \in Servers \ clash, job[h].at \in PullSteps
  PROVE  job[h].name \in Names /\ Holds(job[h].name, known[job[h].name])
<1>1. /\ job[h].name \in Names /\ job[h].name \in Touches(h) /\ ~WritesFile(h)
      /\ ClashInv /\ KnownInv
  BY DEF TransferInv, TransferTypeOK, RequestOK, Touches, Serves, WritesFile, PushSteps, RenameSteps, PullSteps
<1>2. \A w \in Servers : WritesFile(w) => job[h].name \notin Touches(w)
  BY <1>1 DEF ClashInv
<1>3. QED
  BY <1>1, <1>2 DEF KnownInv

LEMMA PullMeasureIsRight ==
  ASSUME TransferInv, NEW h \in Servers \ clash, PullMeasure(h), answer'.by = h
  PROVE  PullIsRight(job[h], known[job[h].name], answer')
<1> DEFINE n == job[h].name
           r == job[h].range
<1>1. /\ TransferTypeOK /\ job[h].at = "measure" /\ r \in Ranges \union {Whole, Other}
  BY DEF PullMeasure, TransferInv, TransferTypeOK, Jobs
<1>2. /\ n \in Names /\ Holds(n, known[n]) /\ known[n] \in Texts \union {NoFile, Unknown}
      /\ dir[n] \in Inodes \union {NoFile} /\ NoFile \notin Inodes \union Texts \union Servers
      /\ Unknown \notin Texts \union {NoFile}
  BY <1>1, PullHolds, DistinctAssumption DEF TransferTypeOK, PullSteps
<1>3. CASE dir[n] = NoFile
  <2>1. answer' = Say(h, "404")
    BY <1>1, <1>3 DEF PullMeasure, Reply, End
  <2>2. answer'.code = "404"
    BY <2>1 DEF Say, NoAnswer
  <2>3. known[n] \in {NoFile, Unknown}
    BY <1>2, <1>3 DEF Holds
  <2>4. QED
    BY <1>2, <2>2, <2>3 DEF PullIsRight
<1>4. PICK size : size = Len(data[dir[n]])
  OBVIOUS
<1>5. CASE dir[n] # NoFile /\ r # Whole /\ ~Satisfiable(r, size)
  <2>1. answer' = Send(h, "416", size, <<>>)
    BY <1>1, <1>4, <1>5 DEF PullMeasure, Reply, End
  <2>2. answer'.code = "416" /\ answer' = Send(answer'.by, "416", size, <<>>)
    BY <2>1 DEF Send
  <2>3. known[n] = Unknown \/ (known[n] \in Texts /\ Len(known[n]) = size)
    BY <1>2, <1>4, <1>5 DEF Holds
  <2>4. QED
    BY <1>2, <1>5, <2>2, <2>3 DEF PullIsRight
<1>6. CASE dir[n] # NoFile /\ ~(r # Whole /\ ~Satisfiable(r, size))
  <2>1. answer' = NoAnswer
    BY <1>1, <1>4, <1>6 DEF PullMeasure, Proceed
  <2>2. QED
    BY <1>2, <2>1 DEF NoAnswer
<1>7. QED
  BY <1>3, <1>5, <1>6

LEMMA PullReadIsRight ==
  ASSUME TransferInv, NEW h \in Servers \ clash, PullRead(h), answer'.by = h
  PROVE  PullIsRight(job[h], known[job[h].name], answer')
<1> DEFINE n == job[h].name
           f == job[h].file
           r == job[h].range
           got == job[h].got
           size == job[h].size
           full == r # Whole /\ Len(got) = Length(job[h])
           pos == First(job[h]) + Len(got) + 1
<1>1. /\ TransferTypeOK /\ CalmInv /\ RequestOK(job[h]) /\ job[h].at = "read"
      /\ r \in Ranges \union {Whole} /\ got \in Seq(Blocks) /\ size \in Nat /\ f \in Inodes
      /\ data[f] \in Seq(Blocks)
  BY DEF PullRead, TransferInv, TransferTypeOK, RequestOK, Jobs
<1>2. /\ n \in Names /\ Holds(n, known[n]) /\ known[n] \in Texts \union {NoFile, Unknown}
      /\ NoFile \notin Inodes \union Texts \union Servers
      /\ Unknown \notin Texts \union {NoFile}
  BY <1>1, PullHolds, DistinctAssumption DEF TransferTypeOK, PullSteps
<1>3. PullCalm(job[h])
  BY <1>1 DEF CalmInv, CalmOK
<1>4. /\ dir[n] = f /\ size = Len(data[f])
      /\ r # Whole => Satisfiable(r, size) /\ Len(got) <= Length(job[h])
      /\ First(job[h]) + Len(got) <= size
      /\ got = SubSeq(data[f], First(job[h]) + 1, First(job[h]) + Len(got))
  BY <1>1, <1>3 DEF PullCalm
<1>5. known[n] = Unknown \/ (known[n] \in Texts /\ known[n] = data[f])
  BY <1>1, <1>2, <1>4 DEF Holds
<1>6. First(job[h]) \in Nat /\ pos \in Nat /\ Len(got) \in Nat
  BY <1>1, TransferAssumption DEF First
<1>7. full \/ pos > Len(data[f])
  <2> HIDE DEF full, pos
  <2> SUFFICES ASSUME ~full, ~(pos > Len(data[f])) PROVE FALSE
    OBVIOUS
  <2>1. pos <= Len(data[f])
    BY <1>1, <1>6
  <2>2. answer' = NoAnswer
    BY <1>1, <2>1 DEF PullRead, Proceed, full, pos
  <2>3. QED
    BY <1>2, <2>2 DEF NoAnswer
<1>8. ~(~full /\ pos <= Len(data[f]))
  <2> HIDE DEF full
  <2>1. QED
    BY <1>1, <1>6, <1>7
<1>9. answer' = (CASE r = Whole -> Send(h, "200", Length(job[h]), got)
                   [] r # Whole /\ got # <<>> -> Send(h, "206", Length(job[h]), got)
                   [] OTHER -> Say(h, "500"))
  BY <1>7, <1>8 DEF PullRead, Reply, End
<1>10. CASE r = Whole
  <2>1. First(job[h]) = 0 /\ Length(job[h]) = size /\ ~full
    BY <1>10 DEF First, Length
  <2>2. Len(got) = size
    <3> HIDE DEF full
    <3>1. QED
      BY <1>1, <1>4, <1>6, <1>7, <2>1
  <2>3. got = data[f]
    BY <1>1, <1>4, <2>1, <2>2, SubSeqFull
  <2>4. answer' = Send(h, "200", size, got)
    BY <1>9, <1>10, <2>1
  <2>5. answer'.body = got /\ answer'.length = size
    BY <2>4 DEF Send
  <2>6. CASE known[n] = Unknown
    BY <1>2, <2>2, <2>5, <2>6 DEF PullIsRight
  <2>7. CASE known[n] \in Texts /\ known[n] = data[f]
    <3>1. answer' = Send(answer'.by, "200", Len(known[n]), known[n])
      BY <1>4, <2>3, <2>4, <2>7
    <3>2. known[n] # NoFile /\ known[n] # Unknown
      BY <1>2, <2>7
    <3>3. QED
      BY <1>10, <3>1, <3>2 DEF PullIsRight
  <2>8. QED
    BY <1>5, <2>6, <2>7
<1>11. CASE r # Whole
  <2>1. r \in Ranges /\ r.first \in Nat /\ r.last \in Nat /\ First(job[h]) = r.first
    BY <1>1, <1>11, TransferAssumption DEF First
  <2>2. PICK last : last = LastBlock(r, size)
    OBVIOUS
  <2>3. last \in Int /\ last <= size - 1 /\ r.first <= last /\ Length(job[h]) = last - r.first + 1
    BY <1>1, <1>4, <1>11, <2>1, <2>2 DEF Satisfiable, LastBlock, Length
  <2>4. PICK len : len = Len(got)
    OBVIOUS
  <2>5. len \in Nat /\ r.first + len = last + 1 /\ len # 0 /\ len = Length(job[h])
    <3>1. len \in Nat /\ len <= last - r.first + 1
      BY <1>4, <1>6, <1>11, <2>3, <2>4
    <3>2. CASE full
      BY <2>1, <2>3, <2>4, <3>1, <3>2
    <3>3. CASE pos > Len(data[f])
      <4>1. r.first + len + 1 > size
        BY <1>4, <2>1, <2>4, <3>3
      <4>2. PICK first : first = r.first
        OBVIOUS
      <4>3. /\ first \in Nat /\ size \in Nat /\ first + len >= size /\ size >= last + 1
            /\ len <= last - first + 1 /\ first <= last
        BY <1>1, <2>1, <2>3, <3>1, <4>1, <4>2
      <4>4. first + len = last + 1 /\ len # 0 /\ len = last - first + 1
        BY <2>3, <3>1, <4>3
      <4>5. QED
        BY <2>3, <3>1, <4>2, <4>4
    <3>4. QED
      BY <1>7, <3>2, <3>3
  <2>6. got # <<>> /\ got = SubSeq(data[f], r.first + 1, last + 1)
    BY <1>4, <2>1, <2>4, <2>5
  <2>7. answer' = Send(h, "206", Len(got), got)
    BY <1>9, <1>11, <2>4, <2>5, <2>6
  <2>8. answer'.body = got /\ answer'.length = Len(got) /\ answer' = Send(answer'.by, "206", Len(got), got)
    BY <2>7 DEF Send
  <2>9. CASE known[n] = Unknown
    BY <1>2, <2>8, <2>9 DEF PullIsRight
  <2>10. CASE known[n] \in Texts /\ known[n] = data[f]
    <3>1. /\ Satisfiable(r, Len(known[n]))
          /\ SubSeq(known[n], r.first + 1, LastBlock(r, Len(known[n])) + 1) = got
      BY <1>4, <1>11, <2>2, <2>6, <2>10
    <3>2. QED
      BY <1>2, <1>11, <2>8, <2>10, <3>1 DEF PullIsRight
  <2>11. QED
    BY <1>5, <2>9, <2>10
<1>12. QED
  BY <1>10, <1>11


LEMMA RenamesAreRight ==
  ASSUME TransferInv, NEW h \in Servers \ clash, answer'.by = h,
         StatSrc(h) \/ StatDst(h) \/ Rename(h) \/ Mv(h) \/ MvUnlink(h)
  PROVE  RenameIsRight(job[h], answer')
<1> DEFINE n == job[h].name
           m == job[h].to
<1>1. job[h].at \in RenameSteps
  BY DEF StatSrc, StatDst, Rename, Mv, MvUnlink, RenameSteps
<1>2. /\ TransferTypeOK /\ RenameCalm(job[h]) /\ n \in Names /\ m \in Names
      /\ NoFile \notin Inodes \union Names \union Servers \union Texts
  BY <1>1, DistinctAssumption
  DEF TransferInv, TransferTypeOK, CalmInv, CalmOK, RequestOK, RenameSteps
<1>3. ~\E next : Proceed(h, next)
  BY <1>2 DEF Proceed, NoAnswer
<1>4. \A holds, response : End(h, holds, response) => answer' = response
  BY DEF End
<1>5. /\ Say(h, "PATH_NOT_EXISTS").code = "PATH_NOT_EXISTS"
      /\ Say(h, "PATH_EXISTS").code = "PATH_EXISTS"
      /\ Say(h, "SUCCESS").code = "SUCCESS"
      /\ Say(h, "SYSTEM").code = "SYSTEM"
  BY DEF Say, NoAnswer
<1>6. ASSUME answer' = Say(h, "SYSTEM") PROVE RenameIsRight(job[h], answer')
  BY <1>5, <1>6 DEF RenameIsRight
<1>7. ASSUME answer' = Say(h, "SUCCESS"), dir[n] # NoFile, job[h].at \in {"rename", "mv", "unlink"}
      PROVE  RenameIsRight(job[h], answer')
  <2>1. Holds(n, known[n]) /\ known[m] \in {NoFile, Unknown}
    BY <1>1, <1>2, <1>7 DEF RenameCalm
  <2>2. known[n] # NoFile
    BY <1>2, <1>7, <2>1, DistinctAssumption DEF Holds
  <2>3. QED
    BY <1>5, <1>7, <2>1, <2>2 DEF RenameIsRight
<1>8. CASE StatSrc(h)
  <2>1. answer' = Say(h, "PATH_NOT_EXISTS") /\ dir[n] = NoFile
    BY <1>3, <1>4, <1>8 DEF StatSrc
  <2>2. Holds(n, known[n])
    BY <1>1, <1>2 DEF RenameCalm
  <2>3. known[n] \in {NoFile, Unknown}
    BY <1>2, <2>1, <2>2 DEF Holds
  <2>4. QED
    BY <1>5, <2>1, <2>3 DEF RenameIsRight
<1>9. CASE StatDst(h)
  <2>1. answer' = Say(h, "PATH_EXISTS") /\ dir[m] # NoFile
    BY <1>3, <1>4, <1>9 DEF StatDst
  <2>2. Holds(m, known[m])
    BY <1>2, <1>9 DEF RenameCalm, StatDst
  <2>3. known[m] # NoFile
    BY <1>2, <2>1, <2>2, DistinctAssumption DEF Holds
  <2>4. QED
    BY <1>5, <2>1, <2>3 DEF RenameIsRight
<1>10. CASE Move(h) /\ job[h].at \in {"rename", "mv"}
  BY <1>4, <1>7, <1>10 DEF Move
<1>11. CASE Rename(h)
  BY <1>3, <1>10, <1>11 DEF Rename
<1>12. CASE Mv(h)
  <2>1. CASE Move(h)
    BY <1>10, <1>12, <2>1 DEF Mv
  <2>2. CASE ~Move(h)
    BY <1>3, <1>4, <1>6, <1>12, <2>2 DEF Mv
  <2>3. QED
    BY <2>1, <2>2
<1>13. CASE MvUnlink(h)
  <2>1. CASE answer' = Say(h, "SYSTEM")
    BY <1>6, <2>1
  <2>2. CASE answer' # Say(h, "SYSTEM")
    <3>1. answer' = Say(h, "SUCCESS") /\ dir[n] # NoFile /\ job[h].at = "unlink"
      BY <1>4, <1>13, <2>2 DEF MvUnlink
    <3>2. QED
      BY <1>7, <3>1
  <2>3. QED
    BY <2>1, <2>2
<1>14. QED
  BY <1>8, <1>9, <1>11, <1>12, <1>13

(* A step answers the request that takes it, or none.                      *)
LEMMA AnswersItsOwn ==
  ASSUME TransferInv, NEW g \in Servers,
         \/ PushOpen(g) \/ PushWrite(g) \/ PushClose(g)
         \/ StatSrc(g) \/ StatDst(g) \/ Rename(g) \/ Mv(g) \/ MvUnlink(g)
         \/ PullMeasure(g) \/ PullReopen(g) \/ PullRead(g) \/ Killed(g)
  PROVE  /\ answer'.by \in {g, NoFile}
<1>1. \A next : Proceed(g, next) => answer'.by = NoFile
  BY DEF Proceed, NoAnswer
<1>2. \A holds, response : End(g, holds, response) => answer' = response
  BY DEF End
<1>3. \A code, length, body : Say(g, code).by = g /\ Send(g, code, length, body).by = g
  BY DEF Say, Send, NoAnswer
<1>4. NoAnswer.by = NoFile
  BY DEF NoAnswer
<1>5. CASE PushOpen(g)
  <2>1. (\E next : Proceed(g, next)) \/ End(g, known, Say(g, "SYSTEM"))
    BY <1>5 DEF PushOpen
  <2>2. QED
    BY <1>1, <1>2, <1>3, <2>1
<1>6. CASE PushWrite(g)
  <2>1. (\E next : Proceed(g, next))
    BY <1>6 DEF PushWrite
  <2>2. QED
    BY <1>1, <1>2, <1>3, <2>1
<1>7. CASE PushClose(g)
  <2>1. (\E holds, code : End(g, holds, Say(g, code)))
    BY <1>7 DEF PushClose
  <2>2. QED
    BY <1>1, <1>2, <1>3, <2>1
<1>8. CASE StatSrc(g)
  <2>1. (\E next : Proceed(g, next)) \/ (\E holds, code : End(g, holds, Say(g, code)))
    BY <1>8 DEF StatSrc
  <2>2. QED
    BY <1>1, <1>2, <1>3, <2>1
<1>9. CASE StatDst(g)
  <2>1. (\E next : Proceed(g, next)) \/ (\E holds, code : End(g, holds, Say(g, code)))
    BY <1>9 DEF StatDst
  <2>2. QED
    BY <1>1, <1>2, <1>3, <2>1
<1>10. CASE Rename(g)
  <2>1. (\E next : Proceed(g, next)) \/ (\E holds, code : End(g, holds, Say(g, code)))
    BY <1>10 DEF Rename, Move
  <2>2. QED
    BY <1>1, <1>2, <1>3, <2>1
<1>11. CASE Mv(g)
  <2>1. (\E next : Proceed(g, next)) \/ (\E holds, code : End(g, holds, Say(g, code)))
    BY <1>11 DEF Mv, Move
  <2>2. QED
    BY <1>1, <1>2, <1>3, <2>1
<1>12. CASE MvUnlink(g)
  <2>1. (\E holds, code : End(g, holds, Say(g, code)))
    BY <1>12 DEF MvUnlink
  <2>2. QED
    BY <1>1, <1>2, <1>3, <2>1
<1>13. CASE PullMeasure(g)
  <2>1. PICK size : size = Len(data[dir[job[g].name]])
    OBVIOUS
  <2>2. CASE dir[job[g].name] = NoFile
    BY <1>2, <1>3, <1>13, <2>2 DEF PullMeasure, Reply
  <2>3. CASE /\ dir[job[g].name] # NoFile
             /\ job[g].range # Whole /\ ~Satisfiable(job[g].range, size)
    BY <1>2, <1>3, <1>13, <2>1, <2>3 DEF PullMeasure, Reply
  <2>4. CASE /\ dir[job[g].name] # NoFile
             /\ ~(job[g].range # Whole /\ ~Satisfiable(job[g].range, size))
    BY <1>1, <1>13, <2>1, <2>4 DEF PullMeasure
  <2>5. QED
    BY <2>2, <2>3, <2>4
<1>14. CASE PullReopen(g)
  <2>1. CASE dir[job[g].name] = NoFile
    BY <1>2, <1>3, <1>14, <2>1 DEF PullReopen, Reply
  <2>2. CASE dir[job[g].name] # NoFile
    BY <1>1, <1>14, <2>2 DEF PullReopen
  <2>3. QED
    BY <2>1, <2>2
<1>15. CASE PullRead(g)
  <2> DEFINE j == job[g]
             full == j.range # Whole /\ Len(j.got) = Length(j)
             pos == First(j) + Len(j.got) + 1
  <2>1. pos \in Nat /\ Len(data[j.file]) \in Nat
    <3>1. /\ j.range \in Ranges \union {Whole} /\ j.got \in Seq(Blocks) /\ j.file \in Inodes
          /\ data \in [Inodes -> Seq(Blocks)]
      BY <1>15 DEF PullRead, TransferInv, TransferTypeOK, RequestOK, Jobs
    <3>2. QED
      BY <3>1, TransferAssumption DEF First
  <2>2. PICK sent : sent = CASE j.range = Whole -> Send(g, "200", Length(j), j.got)
                               [] j.range # Whole /\ j.got # <<>> -> Send(g, "206", Length(j), j.got)
                               [] OTHER -> Say(g, "500")
    OBVIOUS
  <2>3. sent.by = g
    BY <1>3, <2>2
  <2>4. CASE ~full /\ pos <= Len(data[j.file])
    <3>1. ~(full \/ pos > Len(data[j.file]))
      <4> HIDE DEF full, pos, j
      <4>1. QED
        BY <2>1, <2>4
    <3>2. QED
      BY <1>1, <1>15, <2>4, <3>1 DEF PullRead
  <2>5. CASE full \/ pos > Len(data[j.file])
    <3>1. ~(~full /\ pos <= Len(data[j.file]))
      <4> HIDE DEF full, pos, j
      <4>1. QED
        BY <2>1, <2>5
    <3>2. QED
      BY <1>2, <1>15, <2>2, <2>3, <2>5, <3>1 DEF PullRead, Reply
  <2>6. QED
    <3> HIDE DEF full, pos, j
    <3>1. QED
      BY <2>1, <2>4, <2>5
<1>16. CASE Killed(g)
  <2>1. \E holds : End(g, holds, NoAnswer)
    BY <1>16 DEF Killed
  <2>2. QED
    BY <1>2, <1>4, <2>1
<1>17. QED
  BY <1>5, <1>6, <1>7, <1>8, <1>9, <1>10, <1>11, <1>12, <1>13, <1>14, <1>15, <1>16


(* A request that met no writer of its names is answered as if it had run  *)
(* at one moment, from what the answers before it have told: the pulls'    *)
(* contents, range and length, and the renames' (api_opt_pull.lua and      *)
(* api_opt_rename.lua).                                                    *)
THEOREM CalmIsAtomicHolds == TransferSpec => CalmIsAtomic
<1> DEFINE Right ==
      \A h \in Servers \ clash :
        answer'.by = h =>
          /\ job[h].at \in PullSteps => PullIsRight(job[h], known[job[h].name], answer')
          /\ job[h].at \in RenameSteps => RenameIsRight(job[h], answer')
<1>1. TransferInv /\ [TransferNext]_transferVars => [Right]_transferVars
  <2> SUFFICES ASSUME TransferInv, TransferNext, NEW h \in Servers \ clash, answer'.by = h
               PROVE  /\ job[h].at \in PullSteps => PullIsRight(job[h], known[job[h].name], answer')
                      /\ job[h].at \in RenameSteps => RenameIsRight(job[h], answer')
    OBVIOUS
  <2>1. h # NoFile
    BY DistinctAssumption
  <2>2. \A g, request : ~BeginJob(g, request)
    BY <2>1 DEF BeginJob, NoAnswer
  <2>3. \/ PushOpen(h) \/ PushWrite(h) \/ PushClose(h)
        \/ StatSrc(h) \/ StatDst(h) \/ Rename(h) \/ Mv(h) \/ MvUnlink(h)
        \/ PullMeasure(h) \/ PullReopen(h) \/ PullRead(h)
    <3>1. PICK g \in Servers :
            \/ PushOpen(g) \/ PushWrite(g) \/ PushClose(g)
            \/ StatSrc(g) \/ StatDst(g) \/ Rename(g) \/ Mv(g) \/ MvUnlink(g)
            \/ PullMeasure(g) \/ PullReopen(g) \/ PullRead(g) \/ Killed(g)
      BY <2>2 DEF TransferNext, PushBegin, RenameBegin, PullBegin
    <3>2. g = h
      BY <2>1, <3>1, AnswersItsOwn
    <3>3. ~Killed(g)
      BY <2>1, <3>2 DEF Killed, End, NoAnswer
    <3>4. QED
      BY <3>1, <3>2, <3>3
  <2>4. CASE PushOpen(h) \/ PushWrite(h) \/ PushClose(h)
    BY <2>4 DEF PushOpen, PushWrite, PushClose, PullSteps, RenameSteps
  <2>5. CASE StatSrc(h) \/ StatDst(h) \/ Rename(h) \/ Mv(h) \/ MvUnlink(h)
    <3>1. job[h].at \notin PullSteps
      BY <2>5 DEF StatSrc, StatDst, Rename, Mv, MvUnlink, PullSteps
    <3>2. QED
      BY <2>5, <3>1, RenamesAreRight
  <2>6. CASE PullMeasure(h)
    BY <2>6, PullMeasureIsRight DEF PullMeasure, RenameSteps
  <2>7. CASE PullReopen(h)
    <3>1. job[h].at = "reopen" /\ dir[job[h].name] # NoFile
      BY <2>7 DEF PullReopen, TransferInv, CalmInv, CalmOK, PullCalm
    <3>2. answer' = NoAnswer
      BY <2>7, <3>1 DEF PullReopen, Proceed
    <3>3. QED
      BY <2>1, <3>2 DEF NoAnswer
  <2>8. CASE PullRead(h)
    BY <2>8, PullReadIsRight DEF PullRead, RenameSteps
  <2>9. QED
    BY <2>3, <2>4, <2>5, <2>6, <2>7, <2>8
<1>2. QED
  BY <1>1, TransferInvariance, PTL DEF TransferSpec, CalmIsAtomic
=============================================================================
