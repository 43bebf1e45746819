----------------------------- MODULE FileTree ------------------------------
(***************************************************************************)
(* Deleting and clearing a tree, and creating files and directories, in    *)
(* one user's directory: fsystem_manager/api/api_opt_delete.lua,           *)
(* api_opt_clear.lua, api_opt_create.lua and the walks remove_path and     *)
(* clear_path of FM_utils.lua, run by several nginx workers.               *)
(*                                                                         *)
(* A walk takes directories from a stack.  It lists each one, removes the  *)
(* files, stacks the subdirectories, and then removes the directory itself *)
(* if it had none; the others are swept at the end, longest path first.    *)
(* Every call to the file system is a step of its own, and what it finds   *)
(* may have been changed by another worker since the last one.             *)
(*                                                                         *)
(* Left out: requests rejected for token, arguments or path; contents of   *)
(* files; symbolic links, which no request makes; paths through "." and    *)
(* "..", which name a place a second time; a listing that shows twice a    *)
(* directory which others remove and make again meanwhile.  The workers    *)
(* run as root, so a call fails only for what it finds.                    *)
(***************************************************************************)
EXTENDS Naturals, Sequences

CONSTANTS
  Workers,    \* nginx worker processes
  Paths,      \* paths below /nfs/guest_<user>, as sequences of names
  Length      \* characters of a path

Root == <<>>  \* /nfs/guest_<user> itself

Parent(p) == SubSeq(p, 1, Len(p) - 1)

(* q is p or lies below it.                                                *)
Below(p, q) == Len(p) <= Len(q) /\ SubSeq(q, 1, Len(p)) = p

(* Paths are closed under taking prefixes, and a path is longer than those *)
(* of the directories it lies in.                                          *)
ASSUME PathsAssumption ==
  /\ Root \in Paths
  /\ \A p \in Paths : p \in Seq(STRING)
  /\ \A p \in Paths : \A n \in 0..Len(p) : SubSeq(p, 1, n) \in Paths
  /\ Length \in [Paths -> Nat]
  /\ \A p, q \in Paths : Below(p, q) /\ p # q => Length[p] < Length[q]

VARIABLES
  kind,       \* what is at each path: "none", "file" or "dir"
  pc,         \* where each worker is
  req,        \* its request and its walk, see Request
  reply,      \* the answer it gave in this step, if it gave one
  disturbed   \* history: workers with a request at or below whose target
              \* another worker has changed something

vars == <<kind, pc, req, reply, disturbed>>

Steps == {"stat", "wipe", "open", "list", "unlink", "rmdir", "sweep", "make"}
Ops == {"delete", "clear", "create_file", "create_dir"}
Replies == {"none", "SUCCESS", "SYSTEM", "PATH_EXISTS"}
NoReplies == [w \in Workers |-> "none"]

Request == [op : Ops, target : Paths,
            stack : SUBSET Paths,    \* directories found and not yet listed
            cur : Paths,             \* the directory it lists
            left : SUBSET Paths,     \* entries of cur not yet seen
            entry : Paths,           \* the entry it looks at
            subs : {"no", "yes"},    \* "yes" once cur had a subdirectory
            later : SUBSET Paths]    \* directories_to_delete

NewRequest(o, p) == [op |-> o, target |-> p, stack |-> {}, cur |-> Root, left |-> {},
                     entry |-> Root, subs |-> "no", later |-> {}]
NoRequest == NewRequest("delete", Root)

TypeOK ==
  /\ kind \in [Paths -> {"none", "file", "dir"}]
  /\ pc \in [Workers -> Steps \union {"idle"}]
  /\ req \in [Workers -> Request]
  /\ reply \in [Workers -> Replies]
  /\ disturbed \in SUBSET Workers

Exists(p) == kind[p] # "none"
IsDir(p) == kind[p] = "dir"
ParentIsDir(p) == p = Root \/ IsDir(Parent(p))
Children(p) == {q \in Paths \ {Root} : Parent(q) = p /\ Exists(q)}

(* What lies above something is a directory.                               *)
IsTree == \A p, q \in Paths : Below(p, q) /\ p # q /\ Exists(q) => IsDir(p)

(* Every tree the file system can hold.                                    *)
Init ==
  /\ kind \in [Paths -> {"none", "file", "dir"}]
  /\ IsDir(Root)
  /\ IsTree
  /\ pc = [w \in Workers |-> "idle"]
  /\ req = [w \in Workers |-> NoRequest]
  /\ reply = NoReplies
  /\ disturbed = {}

-----------------------------------------------------------------------------
(* File system calls.                                                      *)

(* Worker w puts k at p; the requests whose tree p is in are disturbed.    *)
Put(w, p, k) ==
  /\ kind' = [kind EXCEPT ![p] = k]
  /\ disturbed' = disturbed \union
       {v \in Workers \ {w} : pc[v] # "idle" /\ Below(req[v].target, p)}

Touched == <<kind, disturbed>>

(* lfs.rmdir, and os.remove, which takes an empty directory as well.       *)
CanRmdir(p) == IsDir(p) /\ Children(p) = {}
CanRemove(p) == kind[p] = "file" \/ CanRmdir(p)

-----------------------------------------------------------------------------
(* Requests.                                                               *)

Answer(w, code) ==
  /\ pc' = [pc EXCEPT ![w] = "idle"]
  /\ req' = [req EXCEPT ![w] = NoRequest]
  /\ reply' = [NoReplies EXCEPT ![w] = code]

Goto(w, step, r) ==
  /\ pc' = [pc EXCEPT ![w] = step]
  /\ req' = [req EXCEPT ![w] = r]
  /\ reply' = NoReplies

(* A path that is not there counts as deleted, and as cleared.             *)
TreeBegin(w, o, p) ==
  /\ pc[w] = "idle"
  /\ disturbed' = disturbed \ {w}
  /\ IF Exists(p) THEN Goto(w, "stat", NewRequest(o, p)) ELSE Answer(w, "SUCCESS")
  /\ UNCHANGED kind

DeleteBegin(w, p) == TreeBegin(w, "delete", p)
ClearBegin(w, p) == TreeBegin(w, "clear", p)

CreateBegin(w, o, p) ==
  /\ pc[w] = "idle"
  /\ disturbed' = disturbed \ {w}
  /\ IF Exists(p) THEN Answer(w, "PATH_EXISTS") ELSE Goto(w, "make", NewRequest(o, p))
  /\ UNCHANGED kind

Make(w) ==
  LET p == req[w].target
      dir == req[w].op = "create_dir"
  IN
  /\ pc[w] = "make"
  /\ \/ /\ ParentIsDir(p) /\ ~Exists(p)
        /\ Put(w, p, IF dir THEN "dir" ELSE "file")
        /\ Answer(w, "SUCCESS")
     \/ ~dir /\ kind[p] = "file" /\ Answer(w, "SUCCESS") /\ UNCHANGED Touched
     \/ dir /\ Exists(p) /\ Answer(w, "PATH_EXISTS") /\ UNCHANGED Touched
     \/ ~ParentIsDir(p) /\ Answer(w, "SYSTEM") /\ UNCHANGED Touched
     \/ ~dir /\ IsDir(p) /\ Answer(w, "SYSTEM") /\ UNCHANGED Touched

-----------------------------------------------------------------------------
(* The walk.                                                               *)

(* remove_path and clear_path look at the path again.                      *)
Stat(w) ==
  LET r == req[w] IN
  /\ pc[w] = "stat"
  /\ \/ ~Exists(r.target) /\ Answer(w, "SYSTEM")
     \/ kind[r.target] = "file" /\ Goto(w, "wipe", r)
     \/ IsDir(r.target) /\ Goto(w, "open", [r EXCEPT !.stack = {r.target}, !.later = {}])
  /\ UNCHANGED Touched

(* A path that was a file: a delete removes it.                            *)
WipeDelete(w) ==
  LET p == req[w].target IN
  /\ pc[w] = "wipe" /\ req[w].op = "delete"
  /\ \/ CanRemove(p) /\ Put(w, p, "none") /\ Answer(w, "SUCCESS")
     \/ ~CanRemove(p) /\ Answer(w, "SYSTEM") /\ UNCHANGED Touched

(* A clear opens it for writing, which makes it again if it has gone.      *)
WipeClear(w) ==
  LET p == req[w].target
      can == ParentIsDir(p) /\ ~IsDir(p)
  IN
  /\ pc[w] = "wipe" /\ req[w].op = "clear"
  /\ \/ can /\ Put(w, p, "file") /\ Answer(w, "SUCCESS")
     \/ ~can /\ Answer(w, "SYSTEM") /\ UNCHANGED Touched

(* lfs.dir throws for what is not a directory, and main_call answers.  The *)
(* order in which the stack is taken follows that of the entries, which is *)
(* the file system's; any is allowed here.                                 *)
Open(w) ==
  LET r == req[w] IN
  /\ pc[w] = "open"
  /\ \E p \in r.stack :
       \/ ~IsDir(p) /\ Answer(w, "SYSTEM")
       \/ IsDir(p) /\ Goto(w, "list", [r EXCEPT !.stack = @ \ {p}, !.cur = p,
                                                !.left = Children(p), !.subs = "no"])
  /\ UNCHANGED Touched

(* The next entry: one that was there when the directory was opened, or    *)
(* one that has come since, which the listing may show or not.             *)
List(w) ==
  LET r == req[w] IN
  /\ pc[w] = "list"
  /\ \E e \in r.left \union (Children(r.cur) \ r.stack) :
       LET seen == [r EXCEPT !.left = @ \ {e}] IN
       \/ ~Exists(e) /\ Answer(w, "SYSTEM")
       \/ kind[e] = "file" /\ Goto(w, "unlink", [seen EXCEPT !.entry = e])
       \/ IsDir(e) /\ Goto(w, "list", [seen EXCEPT !.stack = @ \union {e}, !.subs = "yes"])
  /\ UNCHANGED Touched

Unlink(w) ==
  LET r == req[w] IN
  /\ pc[w] = "unlink"
  /\ \/ CanRemove(r.entry) /\ Put(w, r.entry, "none") /\ Goto(w, "list", [r EXCEPT !.entry = Root])
     \/ ~CanRemove(r.entry) /\ Answer(w, "SYSTEM") /\ UNCHANGED Touched

(* On to what is left to do, or the answer.                                *)
Proceed(w, r) ==
  \/ r.stack # {} /\ Goto(w, "open", r)
  \/ r.stack = {} /\ r.later # {} /\ Goto(w, "sweep", r)
  \/ r.stack = {} /\ r.later = {} /\ Answer(w, "SUCCESS")

(* Mutant of ListEnd: a directory with subdirectories is not kept for the  *)
(* sweep.                                                                  *)
ListEndForgets(w) ==
  LET r == req[w]
      listed == [r EXCEPT !.left = {}, !.subs = "no"]
  IN
  /\ pc[w] = "list"
  /\ \A e \in r.left : ~Exists(e)
  /\ \/ r.op = "clear" /\ r.cur = r.target /\ Proceed(w, listed)
     \/ /\ r.op = "delete" \/ r.cur # r.target
        /\ IF r.subs = "yes" THEN Proceed(w, listed) ELSE Goto(w, "rmdir", listed)
  /\ UNCHANGED Touched

(* The end of a listing; an entry that has gone may not have been shown.   *)
(* A clear keeps the directory it was asked to clear.                      *)
ListEnd(w) ==
  LET r == req[w]
      listed == [r EXCEPT !.left = {}, !.subs = "no"]
  IN
  /\ pc[w] = "list"
  /\ \A e \in r.left : ~Exists(e)
  /\ \/ r.op = "clear" /\ r.cur = r.target /\ Proceed(w, listed)
     \/ /\ r.op = "delete" \/ r.cur # r.target
        /\ IF r.subs = "yes" THEN Proceed(w, [listed EXCEPT !.later = @ \union {r.cur}])
                             ELSE Goto(w, "rmdir", listed)
  /\ UNCHANGED Touched

Rmdir(w) ==
  LET d == req[w].cur IN
  /\ pc[w] = "rmdir"
  /\ \/ CanRmdir(d) /\ Put(w, d, "none") /\ Proceed(w, req[w])
     \/ ~CanRmdir(d) /\ Answer(w, "SYSTEM") /\ UNCHANGED Touched

(* Mutant of Longest: the directories are not sorted.                      *)
Unsorted(S) == S

Longest(S) == {d \in S : \A e \in S : Length[e] <= Length[d]}

(* Mutant of Sweep: a directory that is not empty is tried again.          *)
SweepRetries(w) ==
  LET r == req[w] IN
  /\ pc[w] = "sweep"
  /\ \E d \in Longest(r.later) :
       \/ CanRmdir(d) /\ Put(w, d, "none") /\ Proceed(w, [r EXCEPT !.later = @ \ {d}])
       \/ ~CanRmdir(d) /\ UNCHANGED <<vars>>

Sweep(w) ==
  LET r == req[w] IN
  /\ pc[w] = "sweep"
  /\ \E d \in Longest(r.later) :
       \/ CanRmdir(d) /\ Put(w, d, "none") /\ Proceed(w, [r EXCEPT !.later = @ \ {d}])
       \/ ~CanRmdir(d) /\ Answer(w, "SYSTEM") /\ UNCHANGED Touched

(* The worker is killed; nginx starts another.                             *)
Crash(w) ==
  /\ pc[w] # "idle"
  /\ Answer(w, "none")
  /\ UNCHANGED Touched

-----------------------------------------------------------------------------
Work(w) == \/ Make(w) \/ Stat(w) \/ WipeDelete(w) \/ WipeClear(w) \/ Open(w)
           \/ List(w) \/ Unlink(w) \/ ListEnd(w) \/ Rmdir(w) \/ Sweep(w)

Next ==
  \E w \in Workers :
    \/ \E p \in Paths : DeleteBegin(w, p) \/ ClearBegin(w, p)
    \/ \E p \in Paths \ {Root}, o \in {"create_file", "create_dir"} : CreateBegin(w, o, p)
    \/ Work(w)
    \/ Crash(w)

(* A worker's blocking code goes on; nobody owes a request.                *)
Spec == Init /\ [][Next]_vars /\ \A w \in Workers : WF_vars(Work(w))

-----------------------------------------------------------------------------
(* Properties.                                                             *)

Walking(w) == pc[w] \in Steps \ {"make"}

(* A delete or clear is answered with an error only if another worker has  *)
(* changed something at or below its target meanwhile: by itself the walk  *)
(* of remove_path and clear_path visits every directory while it is there, *)
(* and removes each only when it is empty, for every shape of the tree.    *)
QuietSucceeds ==
  [][\A w \in Workers : Walking(w) /\ reply'[w] = "SYSTEM" => w \in disturbed]_vars

EmptyIn(tree, p) == \A q \in Paths : Below(p, q) /\ q # p => tree[q] = "none"

(* When optDelete answers SUCCESS after a walk, nothing is at its target   *)
(* or below, whatever other workers did; when an undisturbed optClear      *)
(* does, its target is still there and nothing is below it.                *)
AnsweredIsDone ==
  [][\A w \in Workers :
       LET r == req[w] IN
       Walking(w) /\ reply'[w] = "SUCCESS" =>
         /\ r.op = "delete" => kind'[r.target] = "none" /\ EmptyIn(kind', r.target)
         /\ r.op = "clear" /\ w \notin disturbed =>
              kind'[r.target] = kind[r.target] /\ EmptyIn(kind', r.target)]_vars

(* A walk always ends in an answer once the other workers make nothing new *)
(* below it: listing, removing and sweeping cannot go round in circles.    *)
Terminates ==
  \A w \in Workers :
    <>[](\A v \in Workers \ {w} : pc[v] \notin {"make", "wipe"}) => []<>(pc[w] = "idle")

(* The inductive invariant.  A walk knows the directories it has found and *)
(* not yet removed; all lie below its target, which is the first it lists  *)
(* and which a delete keeps among them to the end (WalkInv).  As long as   *)
(* nobody disturbs it, these directories are still there (StillThere), it  *)
(* has listed the parent of each, so that it cannot find one a second time *)
(* (FoundOnce), it knows every child of a directory it has put off (Kept), *)
(* and the listing accounts for every child of the directory it lists      *)
(* (Accounted).                                                            *)
WalkSteps == {"open", "list", "unlink", "rmdir", "sweep"}
Active(w) == pc[w] \in {"list", "unlink", "rmdir"}
Known(w) == req[w].stack \union req[w].later \union (IF Active(w) THEN {req[w].cur} ELSE {})
InList(w, e) == e \in Paths \ {Root} /\ Parent(e) = req[w].cur
Listed(w, d) == d \in req[w].later \/ (req[w].op = "clear" /\ d = req[w].target)

WalkInv(w) ==
  /\ Walking(w) => req[w].op \in {"delete", "clear"}
  /\ pc[w] \in WalkSteps =>
       /\ \A d \in Known(w) : Below(req[w].target, d)
       /\ req[w].op = "delete" => req[w].target \in Known(w)
       /\ req[w].op = "clear" => req[w].target \notin req[w].later
       /\ req[w].target \in req[w].stack =>
            req[w].stack = {req[w].target} /\ req[w].later = {} /\ ~Active(w)
       /\ Active(w) /\ req[w].cur = req[w].target =>
            req[w].later = {} /\ (req[w].subs = "no" => req[w].stack = {})
  /\ pc[w] = "open" => req[w].stack # {}
  /\ pc[w] = "sweep" => req[w].stack = {} /\ req[w].later # {}
  /\ pc[w] = "rmdir" => req[w].subs = "no"
  /\ pc[w] = "rmdir" => req[w].op = "delete" \/ req[w].cur # req[w].target
  /\ pc[w] \in {"list", "unlink"} => \A e \in req[w].left : InList(w, e)
  /\ pc[w] = "unlink" => InList(w, req[w].entry)

StillThere(w) ==
  /\ pc[w] = "stat" => Exists(req[w].target)
  /\ pc[w] = "wipe" => kind[req[w].target] = "file"
  /\ pc[w] \in WalkSteps => \A d \in Known(w) : IsDir(d)
  /\ pc[w] \in WalkSteps /\ req[w].op = "clear" => IsDir(req[w].target)
  /\ pc[w] \in {"list", "unlink"} => \A e \in req[w].left : Exists(e)
  /\ pc[w] = "unlink" => kind[req[w].entry] = "file"

FoundOnce(w) ==
  LET r == req[w] IN
  pc[w] \in WalkSteps =>
    /\ r.stack \intersect r.later = {}
    /\ Active(w) => r.cur \notin r.stack \union r.later
    /\ \A d \in r.later : d = r.target \/ Listed(w, Parent(d))
    /\ Active(w) => r.cur = r.target \/ Listed(w, Parent(r.cur))
    /\ \A d \in r.stack :
         d = r.target \/ Listed(w, Parent(d)) \/ (Active(w) /\ Parent(d) = r.cur)

Kept(w) ==
  LET r == req[w] IN
  pc[w] \in WalkSteps =>
    /\ \A d \in r.later : Children(d) \subseteq Known(w)
    /\ r.op = "clear" => r.target \in Known(w) \/ Children(r.target) \subseteq Known(w)

Accounted(w) ==
  LET r == req[w] IN
  /\ pc[w] = "list" => Children(r.cur) \subseteq r.left \union r.stack
  /\ pc[w] = "unlink" => /\ Children(r.cur) \subseteq r.left \union r.stack \union {r.entry}
                         /\ r.entry \notin r.left
  /\ pc[w] \in {"list", "unlink"} /\ r.subs = "no" => Children(r.cur) \intersect r.stack = {}
  /\ pc[w] = "rmdir" => Children(r.cur) = {}

QuietInv(w) ==
  w \notin disturbed => StillThere(w) /\ FoundOnce(w) /\ Kept(w) /\ Accounted(w)

IInv == TypeOK /\ IsTree /\ \A w \in Workers : WalkInv(w) /\ QuietInv(w)
=============================================================================
