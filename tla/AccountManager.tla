--------------------------- MODULE AccountManager ---------------------------
(***************************************************************************)
(* User accounts: account_manager/api/api_user_create.lua and              *)
(* api_user_remove.lua, run by several nginx workers.                      *)
(*                                                                         *)
(* A user is a row of table user_list and an account of the operating      *)
(* system (guest_<name>).  The two are changed one after the other, by SQL *)
(* statements and by commands the worker waits for; between any two of     *)
(* them another worker may run, and the worker may be killed.  Any of the  *)
(* commands may fail; the results of userdel and usermod are not looked    *)
(* at.  Nothing is rolled back when the database fails.  Requests that     *)
(* fail the token check or lack an argument change nothing and are left    *)
(* out.                                                                    *)
(***************************************************************************)
EXTENDS FiniteSets

CONSTANTS
  Workers,    \* nginx worker processes
  Users,      \* user names
  Passwords,  \* passwords
  Refused,    \* those chpasswd does not accept
  Disks,      \* disks of the storage pool
  None,       \* no row, no account, no password set yet
  Unset

ASSUME RefusedAssumption == Refused \subseteq Passwords
ASSUME NoneAssumption ==
  None \notin Passwords /\ Unset \notin Passwords /\ None # Unset

VARIABLES
  rows,       \* user_list: the password of each registered user, or None
  account,    \* OS accounts: None, Unset (no password yet), or the password
  shell,      \* the account's shell
  diskList,   \* rows of disk_list
  attached,   \* disks blkid finds
  pc,         \* where each worker is
  user,       \* the user its request names
  pw,         \* the password its request carries
  todo,       \* disks it has still to look up with blkid
  reply,      \* what its last request was answered
  raced,      \* history: users for which a create and a remove overlapped
  undeleted,  \* history: users whose account is there because userdel failed
  stillOpen   \* history: users with the login shell because usermod failed

dbVars   == <<rows, diskList>>
osVars   == <<account, shell, attached>>
reqVars  == <<user, pw>>
failVars == <<undeleted, stillOpen>>
vars == <<rows, account, shell, diskList, attached, pc, user, pw, todo, reply, raced,
          undeleted, stillOpen>>

CreateSteps == {"select", "disks", "blkid", "useradd", "chpasswd", "userdel", "usermod", "insert"}
RemoveSteps == {"delete", "remove_account"}

Codes == {"none", "SUCCESS", "SYSTEM", "USER_EXIST", "REQ_ARGS", "DISK_POOL_EMPTY",
          "DISK_POOL_INACTIVE"}

TypeOK ==
  /\ rows \in [Users -> Passwords \union {None}]
  /\ account \in [Users -> Passwords \union {None, Unset}]
  /\ shell \in [Users -> {"login", "nologin"}]
  /\ diskList \in SUBSET Disks
  /\ attached \in SUBSET Disks
  /\ pc \in [Workers -> CreateSteps \union RemoveSteps \union {"idle"}]
  /\ user \in [Workers -> Users]
  /\ pw \in [Workers -> Passwords]
  /\ todo \in [Workers -> SUBSET Disks]
  /\ reply \in [Workers -> Codes]
  /\ raced \in SUBSET Users
  /\ undeleted \in SUBSET Users
  /\ stillOpen \in SUBSET Users

Init ==
  /\ rows = [u \in Users |-> None]
  /\ account = [u \in Users |-> None]
  /\ shell = [u \in Users |-> "login"]
  /\ diskList \in SUBSET Disks
  /\ attached \in SUBSET Disks
  /\ pc = [w \in Workers |-> "idle"]
  /\ user \in {[w \in Workers |-> u] : u \in Users}
  /\ pw \in {[w \in Workers |-> p] : p \in Passwords}
  /\ todo = [w \in Workers |-> {}]
  /\ reply = [w \in Workers |-> "none"]
  /\ raced = {}
  /\ undeleted = {}
  /\ stillOpen = {}

-----------------------------------------------------------------------------
Creating(w) == pc[w] \in CreateSteps
Removing(w) == pc[w] \in RemoveSteps

(* A handler starts with a step; it goes on to a step; it answers.         *)
Begin(w, u, step) ==
  /\ pc[w] = "idle"
  /\ pc' = [pc EXCEPT ![w] = step]
  /\ user' = [user EXCEPT ![w] = u]
  /\ reply' = [reply EXCEPT ![w] = "none"]

Goto(w, step) ==
  /\ pc' = [pc EXCEPT ![w] = step]
  /\ UNCHANGED reply

Answer(w, code) ==
  /\ pc' = [pc EXCEPT ![w] = "idle"]
  /\ reply' = [reply EXCEPT ![w] = code]

(* A call of mysql_api.cmd changes the rows and returns true, or returns   *)
(* false: before the statement took effect or, when the connection is      *)
(* lost, after (module MysqlPool).                                         *)
DbFails == UNCHANGED rows
DbFailsLate(changed) == rows' = changed

-----------------------------------------------------------------------------
(* userCreate.                                                             *)

CreateBegin(w, u, p) ==
  /\ Begin(w, u, "select")
  /\ pw' = [pw EXCEPT ![w] = p]
  /\ raced' = IF \E x \in Workers : Removing(x) /\ user[x] = u
                THEN raced \union {u} ELSE raced
  /\ UNCHANGED <<dbVars, osVars, todo, failVars>>

(* SELECT * FROM user_list: an existing user ends the request.             *)
CreateSelect(w) ==
  /\ pc[w] = "select"
  /\ \/ Answer(w, "SYSTEM")
     \/ rows[user[w]] # None /\ Answer(w, "USER_EXIST")
     \/ rows[user[w]] = None /\ Goto(w, "disks")
  /\ UNCHANGED <<dbVars, osVars, reqVars, todo, raced, failVars>>

(* SELECT * FROM disk_list.                                                *)
CreateDisks(w) ==
  /\ pc[w] = "disks"
  /\ \/ Answer(w, "SYSTEM") /\ UNCHANGED todo
     \/ diskList = {} /\ Answer(w, "DISK_POOL_EMPTY") /\ UNCHANGED todo
     \/ diskList # {} /\ Goto(w, "blkid") /\ todo' = [todo EXCEPT ![w] = diskList]
  /\ UNCHANGED <<dbVars, osVars, reqVars, raced, failVars>>

(* blkid for one disk of the list that was read.                           *)
CreateBlkid(w) ==
  /\ pc[w] = "blkid"
  /\ \E d \in todo[w] :
       \/ /\ d \notin attached
          /\ Answer(w, "DISK_POOL_INACTIVE")
          /\ todo' = [todo EXCEPT ![w] = {}]
       \/ /\ d \in attached
          /\ todo' = [todo EXCEPT ![w] = @ \ {d}]
          /\ Goto(w, IF todo[w] = {d} THEN "useradd" ELSE "blkid")
  /\ UNCHANGED <<dbVars, osVars, reqVars, raced, failVars>>

UserAddWith(w, existing) ==
  /\ pc[w] = "useradd"
  /\ \/ /\ account[user[w]] # None
        /\ existing
        /\ UNCHANGED <<account, shell>>
     \/ /\ account[user[w]] = None  \* useradd failed
        /\ Answer(w, "USER_EXIST")
        /\ UNCHANGED <<account, shell>>
     \/ /\ account[user[w]] = None
        /\ account' = [account EXCEPT ![user[w]] = Unset]
        /\ shell' = [shell EXCEPT ![user[w]] = "login"]
        /\ \/ Goto(w, "chpasswd")
           \/ Answer(w, "USER_EXIST")   \* the home or its chown failed
  /\ UNCHANGED <<dbVars, attached, reqVars, todo, raced, failVars>>

(* Mutant of UserAdd: the exit status of useradd is not looked at.         *)
UserAddUnchecked(w) == UserAddWith(w, Goto(w, "chpasswd"))

(* useradd -m && chown: useradd refuses a name that exists.                *)
UserAdd(w) == UserAddWith(w, Answer(w, "USER_EXIST"))

ChPasswdWith(w, refused) ==
  /\ pc[w] = "chpasswd"
  /\ \/ /\ account[user[w]] # None /\ pw[w] \notin Refused
        /\ account' = [account EXCEPT ![user[w]] = pw[w]]
        /\ Goto(w, "usermod")
     \/ /\ Goto(w, refused)
        /\ UNCHANGED account
  /\ UNCHANGED <<dbVars, shell, attached, reqVars, todo, raced, failVars>>

(* Mutant of ChPasswd: its exit status is not looked at, as usermod's.     *)
ChPasswdUnchecked(w) == ChPasswdWith(w, "usermod")

(* chpasswd: refuses a bad password, and an account that is gone; it may   *)
(* fail at any other.                                                      *)
ChPasswd(w) == ChPasswdWith(w, "userdel")

(* userdel -r, whose result neither handler looks at.  It fails, and the   *)
(* account stays, when the user has a process running or the password file *)
(* is locked.                                                              *)
UserDel(u) ==
  \/ /\ account' = [account EXCEPT ![u] = None]
     /\ undeleted' = undeleted \ {u}
     /\ stillOpen' = stillOpen \ {u}
  \/ /\ account[u] # None
     /\ undeleted' = undeleted \union {u}
     /\ UNCHANGED <<account, stillOpen>>

(* The account whose password was refused is deleted.                      *)
CreateRollback(w) ==
  /\ pc[w] = "userdel"
  /\ UserDel(user[w])
  /\ Answer(w, "REQ_ARGS")
  /\ UNCHANGED <<dbVars, shell, attached, reqVars, todo, raced>>

(* usermod -s nologin; its result is ignored.                              *)
UserMod(w) ==
  LET u == user[w]
  IN
  /\ pc[w] = "usermod"
  /\ \/ account[u] = None /\ UNCHANGED <<shell, stillOpen>>
     \/ /\ account[u] # None
        /\ shell' = [shell EXCEPT ![u] = "nologin"]
        /\ stillOpen' = stillOpen \ {u}
     \/ /\ account[u] # None  \* usermod failed
        /\ stillOpen' = IF shell[u] = "login" THEN stillOpen \union {u} ELSE stillOpen
        /\ UNCHANGED shell
  /\ Goto(w, "insert")
  /\ UNCHANGED <<dbVars, account, attached, reqVars, todo, raced, undeleted>>

(* INSERT INTO user_list; username is UNIQUE.  A failure leaves the        *)
(* account behind.                                                         *)
CreateInsert(w) ==
  LET inserted == [rows EXCEPT ![user[w]] = pw[w]]
  IN
  /\ pc[w] = "insert"
  /\ \/ rows[user[w]] = None /\ rows' = inserted /\ Answer(w, "SUCCESS")
     \/ rows[user[w]] = None /\ DbFailsLate(inserted) /\ Answer(w, "SYSTEM")
     \/ DbFails /\ Answer(w, "SYSTEM")
  /\ UNCHANGED <<diskList, osVars, reqVars, todo, raced, failVars>>

-----------------------------------------------------------------------------
(* userRemove.                                                             *)

RemoveBegin(w, u) ==
  /\ Begin(w, u, "delete")
  /\ raced' = IF \E x \in Workers : Creating(x) /\ user[x] = u
                THEN raced \union {u} ELSE raced
  /\ UNCHANGED <<dbVars, osVars, pw, todo, failVars>>

(* Mutant of RemoveRow: a failed DELETE does not end the request, so the   *)
(* account goes and the row stays.                                         *)
RemoveRowUnchecked(w) ==
  /\ pc[w] = "delete"
  /\ Goto(w, "remove_account")
  /\ DbFails \/ rows' = [rows EXCEPT ![user[w]] = None]
  /\ UNCHANGED <<diskList, osVars, reqVars, todo, raced, failVars>>

(* DELETE FROM user_list; deleting no row is a success too.                *)
RemoveRow(w) ==
  LET deleted == [rows EXCEPT ![user[w]] = None]
  IN
  /\ pc[w] = "delete"
  /\ \/ rows' = deleted /\ Goto(w, "remove_account")
     \/ DbFailsLate(deleted) /\ Answer(w, "SYSTEM")
     \/ DbFails /\ Answer(w, "SYSTEM")
  /\ UNCHANGED <<diskList, osVars, reqVars, todo, raced, failVars>>

(* The request is answered the same whether userdel succeeds or not.       *)
RemoveAccount(w) ==
  /\ pc[w] = "remove_account"
  /\ UserDel(user[w])
  /\ Answer(w, "SUCCESS")
  /\ UNCHANGED <<dbVars, shell, attached, reqVars, todo, raced>>

-----------------------------------------------------------------------------
(* A worker is killed: its request is never answered.                      *)
Crash(w) ==
  /\ pc[w] # "idle"
  /\ pc' = [pc EXCEPT ![w] = "idle"]
  /\ todo' = [todo EXCEPT ![w] = {}]
  /\ UNCHANGED <<dbVars, osVars, reqVars, reply, raced, failVars>>

(* The storage manager changes disk_list; disks are plugged and unplugged. *)
PoolChanges ==
  /\ \E d \in Disks :
       \/ diskList' = {d} \union diskList /\ UNCHANGED attached
       \/ diskList' = diskList \ {d} /\ UNCHANGED attached
       \/ attached' = {d} \union attached /\ UNCHANGED diskList
       \/ attached' = attached \ {d} /\ UNCHANGED diskList
  /\ UNCHANGED <<rows, account, shell, pc, reqVars, todo, reply, raced, failVars>>

Step(w) ==
  \/ CreateSelect(w) \/ CreateDisks(w) \/ CreateBlkid(w) \/ UserAdd(w) \/ ChPasswd(w)
  \/ CreateRollback(w) \/ UserMod(w) \/ CreateInsert(w)
  \/ RemoveRow(w) \/ RemoveAccount(w)

Next ==
  \/ \E w \in Workers : Step(w) \/ Crash(w)
  \/ \E w \in Workers, u \in Users : RemoveBegin(w, u)
  \/ \E w \in Workers, u \in Users, p \in Passwords : CreateBegin(w, u, p)
  \/ PoolChanges

Spec == Init /\ [][Next]_vars

-----------------------------------------------------------------------------
(* Properties.  They speak of users no create and remove of which ever     *)
(* overlapped: for those that did, the code promises nothing (a remove     *)
(* between useradd and INSERT leaves a row without an account).            *)

(* A registered user has an account with the registered password, whatever *)
(* creates ran concurrently, failed or were killed and whichever of their  *)
(* commands failed; and it has the login shell exactly when usermod, whose *)
(* result the create ignores, failed.                                      *)
RowHasAccount ==
  \A u \in Users \ raced :
    rows[u] # None => /\ account[u] = rows[u]
                      /\ shell[u] = "login" <=> u \in stillOpen

Owns(w) == pc[w] \in {"chpasswd", "userdel", "usermod", "insert"}

(* useradd elects one of the concurrent creates of a name: no two workers  *)
(* set up the same account.                                                *)
OneCreator ==
  \A w, x \in Workers :
    Owns(w) /\ Owns(x) /\ user[w] = user[x] /\ user[w] \notin raced => w = x

(* The rollback of a refused password deletes the account this request     *)
(* made, never that of a registered user.                                  *)
RollbackIsHarmless ==
  \A w \in Workers :
    pc[w] = "userdel" /\ user[w] \notin raced => rows[user[w]] = None /\ account[user[w]] = Unset

Answers(w, code) == pc[w] # "idle" /\ pc'[w] = "idle" /\ reply'[w] = code

(* When a remove answers SUCCESS the row is gone, and so is the account    *)
(* unless userdel, whose result is ignored, failed.  An account that a     *)
(* failed userdel left, of a remove or of a rollback, stays what it was    *)
(* and nobody is registered to it: a create of that name is refused until  *)
(* another remove has deleted it.                                          *)
RemovedIsGone ==
  [][/\ \A w \in Workers :
          Removing(w) /\ Answers(w, "SUCCESS") /\ user[w] \notin raced'
          => /\ rows'[user[w]] = None
             /\ account'[user[w]] = None \/ user[w] \in undeleted'
     /\ \A u \in (undeleted \intersect undeleted') \ raced' :
          rows'[u] = None /\ account'[u] = account[u]]_vars

(* The strengthening that makes these inductive.                           *)

(* A create and a remove of a name are under way together only if the name *)
(* is marked.                                                              *)
OverlapsAreMarked ==
  \A w, x \in Workers :
    Creating(w) /\ Removing(x) /\ user[w] = user[x] => user[w] \in raced

(* Who sets up an account finds it as its own last step left it, and no    *)
(* row for it; who is to remove an account has removed the row.            *)
OwnerInv ==
  \A w \in Workers :
    user[w] \notin raced =>
      /\ Owns(w) => rows[user[w]] = None
      /\ pc[w] \in {"chpasswd", "userdel"} => account[user[w]] = Unset
      /\ pc[w] \in {"usermod", "insert"} => account[user[w]] = pw[w]
      /\ pc[w] = "usermod" => shell[user[w]] = "login"
      /\ pc[w] = "chpasswd" => shell[user[w]] = "login"
      /\ pc[w] = "insert" => (shell[user[w]] = "login" <=> user[w] \in stillOpen)
      /\ pc[w] = "remove_account" => rows[user[w]] = None

(* An account that a failed userdel left is nobody's: it has no row and no *)
(* create sets it up.                                                      *)
LeftInv ==
  \A u \in undeleted \ raced :
    /\ rows[u] = None /\ account[u] # None
    /\ \A w \in Workers : Owns(w) => user[w] # u

(* A request under way has not been answered.                              *)
NoReplyYet == \A w \in Workers : pc[w] # "idle" => reply[w] = "none"

IInv ==
  TypeOK /\ RowHasAccount /\ OneCreator /\ OverlapsAreMarked /\ OwnerInv /\ LeftInv /\ NoReplyYet

=============================================================================
