---------------------------- MODULE FileTransfer ----------------------------
(***************************************************************************)
(* Whole files of one user: fsystem_manager/api/api_opt_push.lua,          *)
(* api_opt_pull.lua and api_opt_rename.lua, run by several nginx workers.  *)
(*                                                                         *)
(* A push truncates the file and writes it, its last block with the close. *)
(* A pull opens the file to measure it, opens it again and reads it block  *)
(* by block.  A rename looks for both names and calls rename(2), and mv if *)
(* that fails.  Who has a file open keeps it whatever becomes of its name. *)
(*                                                                         *)
(* Left out: requests rejected for token, arguments or path; directories;  *)
(* empty files, which no push makes; a rename to the same name; the second *)
(* range of a header that repeats "bytes=".                                *)
(***************************************************************************)
EXTENDS Integers, Sequences, FiniteSets

CONSTANTS
  Servers,    \* requests under way, one in each worker
  Names,      \* paths below /nfs/guest_<user>
  Texts,      \* what is pushed, as sequences of blocks of 4096 bytes
  Hole,       \* what a block holds that was never written
  Inodes,     \* at least one for each name and each server
  Ranges,     \* bytes=first-last of a Range header, first block 0
  Whole,      \* no Range header
  Other,      \* a Range header that the pattern does not match
  NoFile, Unknown,
  MaxErrors   \* bound: crashes and failing calls

Blocks == {Hole} \union UNION {{t[i] : i \in 1..Len(t)} : t \in Texts}

ASSUME TransferAssumption ==
  /\ \A t \in Texts : t \in Seq(Blocks) /\ Len(t) > 0
  /\ \A r \in Ranges : r.first \in Nat /\ r.last \in Nat
  /\ Hole \notin UNION {{t[i] : i \in 1..Len(t)} : t \in Texts}
ASSUME InodesAssumption ==
  /\ IsFiniteSet(Servers) /\ IsFiniteSet(Names) /\ IsFiniteSet(Inodes)
  /\ Cardinality(Inodes) >= Cardinality(Names) + Cardinality(Servers)
ASSUME DistinctAssumption ==
  /\ NoFile \notin Inodes \union Names \union Servers \union Texts
  /\ Unknown \notin Texts \union {NoFile}
  /\ Whole \notin Ranges \union {Other} /\ Other \notin Ranges

VARIABLES
  dir,        \* the inode of each name, or NoFile
  data,       \* the blocks of each inode
  job,        \* what each worker does: at, name, to, text, range, size, file, got
  answer,     \* the answer given in this step
  errors,     \* faults so far
  known,      \* history: what each name holds as far as the answers tell
  clash       \* history: requests that overlapped one which writes to the same
              \* name or file, or had a call fail

transferVars == <<dir, data, job, answer, errors, known, clash>>

PushSteps == {"push_open", "push_write", "push_close"}
RenameSteps == {"stat_src", "stat_dst", "rename", "mv", "unlink"}
PullSteps == {"measure", "reopen", "read"}

Resting == [at |-> "rest", name |-> NoFile, to |-> NoFile, text |-> <<>>,
            range |-> Whole, size |-> 0, file |-> NoFile, got |-> <<>>]
NoAnswer == [by |-> NoFile, code |-> "none", length |-> 0, body |-> <<>>]

Serves(h) == job[h].at # "rest"
WritesFile(h) == job[h].at \in PushSteps \union RenameSteps

TransferInit ==
  /\ dir = [n \in Names |-> NoFile]
  /\ data = [f \in Inodes |-> <<>>]
  /\ job = [h \in Servers |-> Resting]
  /\ answer = NoAnswer
  /\ errors = 0
  /\ known = [n \in Names |-> NoFile]
  /\ clash = {}
-----------------------------------------------------------------------------
(* The file system.                                                        *)
NewInode ==
  CHOOSE f \in Inodes : (\A n \in Names : dir[n] # f) /\ (\A h \in Servers : job[h].file # f)

(* What is in a file after a write of text at an offset.                   *)
Written(blocks, offset, text) ==
  LET end == offset + Len(text)
  IN  [i \in 1 .. (IF end > Len(blocks) THEN end ELSE Len(blocks)) |->
         IF i \in offset + 1 .. end THEN text[i - offset]
         ELSE IF i <= Len(blocks) THEN blocks[i] ELSE Hole]

(* An inode that has neither a name nor a reader or writer is freed.       *)
Store(blocks) ==
  data' = [f \in Inodes |->
    IF (\E n \in Names : dir'[n] = f) \/ (\E h \in Servers : job'[h].file = f)
      THEN blocks[f] ELSE <<>>]

Errs == errors < MaxErrors /\ errors' = errors + 1
-----------------------------------------------------------------------------
(* The names a request is about, with the one its open file has now.       *)
Touches(h) ==
  IF Serves(h)
    THEN {n \in Names : n \in {job[h].name, job[h].to} \/ dir[n] \in {job[h].file} \ {NoFile}}
    ELSE {}

(* A request begins; it clashes with those that touch its names, if it or  *)
(* they write.                                                             *)
BeginJob(h, request) ==
  LET names == {request.name, request.to}
      writes == request.at \in PushSteps \union RenameSteps
      met == {g \in Servers : Touches(g) \intersect names # {} /\ (writes \/ WritesFile(g))}
  IN
  /\ ~ Serves(h)
  /\ job' = [job EXCEPT ![h] = request]
  /\ answer' = NoAnswer
  /\ clash' = clash \union met \union {g \in {h} : met # {}}
  /\ UNCHANGED <<dir, data, errors, known>>

Proceed(h, next) ==
  /\ job' = [job EXCEPT ![h] = next]
  /\ answer' = NoAnswer
  /\ UNCHANGED known

(* A request ends: what its names hold is known from then on, if it ended  *)
(* well and met nobody.                                                    *)
End(h, holds, response) ==
  /\ job' = [job EXCEPT ![h] = Resting]
  /\ answer' = response
  /\ clash' = clash \ {h}
  /\ known' = [n \in Names |->
       IF ~ WritesFile(h) \/ n \notin Touches(h) THEN known[n]
       ELSE IF h \in clash THEN Unknown ELSE holds[n]]

(* Of what is sent, length is what the headers say of the length: of the   *)
(* body, or with 416 of the file.                                          *)
Say(h, code) == [NoAnswer EXCEPT !.by = h, !.code = code]
Send(h, code, length, body) == [by |-> h, code |-> code, length |-> length, body |-> body]
Unsure == [n \in Names |-> Unknown]
-----------------------------------------------------------------------------
(* optPush                                                                 *)
PushBegin(h, n, t) == BeginJob(h, [Resting EXCEPT !.at = "push_open", !.name = n, !.text = t])

(* Mutant: a file that is there is not truncated.                          *)
PushOpenKeeps(h) ==
  LET j == job[h] f == IF dir[j.name] = NoFile THEN NewInode ELSE dir[j.name]
  IN
  /\ j.at = "push_open"
  /\ dir' = [dir EXCEPT ![j.name] = f]
  /\ data' = [data EXCEPT ![f] = IF dir[j.name] = NoFile THEN <<>> ELSE @]
  /\ Proceed(h, [j EXCEPT !.at = "push_write", !.file = f])
  /\ UNCHANGED <<errors, clash>>

(* io.open "wb": truncates, or creates.                                    *)
PushOpen(h) ==
  LET j == job[h] f == IF dir[j.name] = NoFile THEN NewInode ELSE dir[j.name]
  IN
  /\ j.at = "push_open"
  /\ \/ /\ dir' = [dir EXCEPT ![j.name] = f]
        /\ Proceed(h, [j EXCEPT !.at = "push_write", !.file = f])
        /\ Store([data EXCEPT ![f] = <<>>])
        /\ UNCHANGED <<errors, clash>>
     \/ Errs /\ End(h, known, Say(h, "SYSTEM")) /\ UNCHANGED <<dir, data>>

(* write: all but the last block, which stays in the buffer.               *)
PushWrite(h) ==
  LET j == job[h] n == Len(j.text) - 1
  IN
  /\ j.at = "push_write"
  /\ \/ /\ data' = [data EXCEPT ![j.file] = IF n > 0 THEN Written(@, 0, SubSeq(j.text, 1, n)) ELSE @]
        /\ UNCHANGED <<errors, clash>>
     \/ Errs /\ clash' = clash \union {h} /\ UNCHANGED data
  /\ Proceed(h, [j EXCEPT !.at = "push_close"])
  /\ UNCHANGED dir

(* close: the last block, and SUCCESS whatever became of the writes.       *)
PushClose(h) ==
  LET j == job[h] n == Len(j.text)
      end(holds) == End(h, [known EXCEPT ![j.name] = holds], Say(h, "SUCCESS"))
  IN
  /\ j.at = "push_close"
  /\ UNCHANGED dir
  /\ \/ /\ end(j.text)
        /\ Store([data EXCEPT ![j.file] = Written(@, n - 1, <<j.text[n]>>)])
        /\ UNCHANGED errors
     \/ Errs /\ end(Unknown) /\ Store(data)
-----------------------------------------------------------------------------
(* optRename                                                               *)
RenameBegin(h, n, m) == BeginJob(h, [Resting EXCEPT !.at = "stat_src", !.name = n, !.to = m])

StatSrc(h) ==
  /\ job[h].at = "stat_src"
  /\ IF dir[job[h].name] = NoFile
       THEN End(h, known, Say(h, "PATH_NOT_EXISTS"))
       ELSE Proceed(h, [job[h] EXCEPT !.at = "stat_dst"]) /\ UNCHANGED clash
  /\ UNCHANGED <<dir, data, errors>>

StatDst(h) ==
  /\ job[h].at = "stat_dst"
  /\ IF dir[job[h].to] # NoFile
       THEN End(h, known, Say(h, "PATH_EXISTS"))
       ELSE Proceed(h, [job[h] EXCEPT !.at = "rename"]) /\ UNCHANGED clash
  /\ UNCHANGED <<dir, data, errors>>

(* rename(2), which replaces what has come to the new name meanwhile.      *)
Move(h) ==
  LET j == job[h]
  IN
  /\ dir[j.name] # NoFile
  /\ dir' = [dir EXCEPT ![j.to] = dir[j.name], ![j.name] = NoFile]
  /\ End(h, [known EXCEPT ![j.to] = known[j.name], ![j.name] = NoFile], Say(h, "SUCCESS"))
  /\ Store(data)

Rename(h) ==
  /\ job[h].at = "rename"
  /\ \/ Move(h) /\ UNCHANGED errors
     \/ /\ IF dir[job[h].name] = NoFile THEN UNCHANGED errors ELSE Errs
        /\ Proceed(h, [job[h] EXCEPT !.at = "mv"])
        /\ UNCHANGED <<dir, data, clash>>

(* mv: a rename(2) of its own, or from one disk of the pool to another a   *)
(* copy, which takes the place of what is there, and then an unlink.       *)
Mv(h) ==
  LET j == job[h] f == NewInode
  IN
  /\ j.at = "mv"
  /\ \/ Move(h) /\ UNCHANGED errors
     \/ dir[j.name] = NoFile /\ End(h, Unsure, Say(h, "SYSTEM")) /\ UNCHANGED <<dir, data, errors>>
     \/ /\ dir[j.name] # NoFile
        /\ dir' = [dir EXCEPT ![j.to] = f]
        /\ \/ /\ Proceed(h, [j EXCEPT !.at = "unlink"])
              /\ Store([data EXCEPT ![f] = data[dir[j.name]]])
              /\ UNCHANGED <<errors, clash>>
           \/ Errs /\ End(h, Unsure, Say(h, "SYSTEM")) /\ Store([data EXCEPT ![f] = <<>>])

MvUnlink(h) ==
  LET j == job[h]
  IN
  /\ j.at = "unlink"
  /\ \/ /\ dir[j.name] # NoFile
        /\ dir' = [dir EXCEPT ![j.name] = NoFile]
        /\ End(h, [known EXCEPT ![j.to] = known[j.name], ![j.name] = NoFile], Say(h, "SUCCESS"))
        /\ UNCHANGED errors
     \/ /\ IF dir[j.name] = NoFile THEN UNCHANGED errors ELSE Errs
        /\ End(h, Unsure, Say(h, "SYSTEM"))
        /\ UNCHANGED dir
  /\ Store(data)
-----------------------------------------------------------------------------
(* optPull                                                                 *)
PullBegin(h, n, r) == BeginJob(h, [Resting EXCEPT !.at = "measure", !.name = n, !.range = r])

(* parse_range_header: the last block is cut down to the size.             *)
LastBlock(range, size) == IF range.last > size - 1 THEN size - 1 ELSE range.last
Satisfiable(range, size) == range # Other /\ range.first <= LastBlock(range, size)

Reply(h, response) == End(h, known, response)

PullMeasure(h) ==
  LET j == job[h] size == IF dir[j.name] = NoFile THEN 0 ELSE Len(data[dir[j.name]])
  IN
  /\ j.at = "measure"
  /\ CASE dir[j.name] = NoFile -> Reply(h, Say(h, "404"))
       [] dir[j.name] # NoFile /\ j.range # Whole /\ ~ Satisfiable(j.range, size) ->
            Reply(h, Send(h, "416", size, <<>>))
       [] OTHER -> Proceed(h, [j EXCEPT !.at = "reopen", !.size = size]) /\ UNCHANGED clash
  /\ UNCHANGED <<dir, data, errors>>

PullReopen(h) ==
  LET j == job[h]
  IN
  /\ j.at = "reopen"
  /\ IF dir[j.name] = NoFile
       THEN Reply(h, Say(h, "404"))
       ELSE Proceed(h, [j EXCEPT !.at = "read", !.file = dir[j.name]]) /\ UNCHANGED clash
  /\ UNCHANGED <<dir, data, errors>>

(* What a pull wants: without a range all there is when it comes to read.  *)
First(j) == IF j.range = Whole THEN 0 ELSE j.range.first
Length(j) == IF j.range = Whole THEN j.size ELSE LastBlock(j.range, j.size) - j.range.first + 1

(* A read at the end of the file, or when the range is had, is the last.   *)
PullRead(h) ==
  LET j == job[h] at == First(j) + Len(j.got) + 1
      full == j.range # Whole /\ Len(j.got) = Length(j)
  IN
  /\ j.at = "read"
  /\ CASE ~ full /\ at <= Len(data[j.file]) ->
            Proceed(h, [j EXCEPT !.got = Append(@, data[j.file][at])]) /\ UNCHANGED clash
       [] full \/ at > Len(data[j.file]) ->
            Reply(h, CASE j.range = Whole -> Send(h, "200", Length(j), j.got)
                       [] j.range # Whole /\ j.got # <<>> -> Send(h, "206", Length(j), j.got)
                       [] OTHER -> Say(h, "500"))
  /\ UNCHANGED <<dir, errors>>
  /\ Store(data)
-----------------------------------------------------------------------------
(* A worker is killed.  An mv it has started goes on, which is as if only  *)
(* the answer were lost.                                                   *)
Killed(h) ==
  /\ job[h].at \notin {"rest", "mv", "unlink"}
  /\ Errs
  /\ End(h, IF job[h].at \in PushSteps \ {"push_open"} THEN Unsure ELSE known, NoAnswer)
  /\ UNCHANGED dir
  /\ Store(data)

TransferNext ==
  \/ \E h \in Servers, n \in Names :
       \/ \E t \in Texts : PushBegin(h, n, t)
       \/ \E m \in Names \ {n} : RenameBegin(h, n, m)
       \/ \E r \in Ranges \union {Whole, Other} : PullBegin(h, n, r)
  \/ \E h \in Servers : PushOpen(h) \/ PushWrite(h) \/ PushClose(h)
  \/ \E h \in Servers : StatSrc(h) \/ StatDst(h) \/ Rename(h) \/ Mv(h) \/ MvUnlink(h)
  \/ \E h \in Servers : PullMeasure(h) \/ PullReopen(h) \/ PullRead(h)
  \/ \E h \in Servers : Killed(h)

TransferSpec == TransferInit /\ [][TransferNext]_transferVars
-----------------------------------------------------------------------------
(* What a pull of a name that holds this may answer.                       *)
PullIsRight(j, holds, reply) ==
  CASE holds = NoFile -> reply.code = "404"
    [] holds = Unknown -> reply.code \in {"200", "206"} => Len(reply.body) = reply.length
    [] OTHER ->
         IF j.range = Whole THEN reply = Send(reply.by, "200", Len(holds), holds)
         ELSE IF Satisfiable(j.range, Len(holds))
           THEN LET part == SubSeq(holds, j.range.first + 1, LastBlock(j.range, Len(holds)) + 1)
                IN  reply = Send(reply.by, "206", Len(part), part)
           ELSE reply = Send(reply.by, "416", Len(holds), <<>>)

RenameIsRight(j, reply) ==
  CASE reply.code = "PATH_NOT_EXISTS" -> known[j.name] \in {NoFile, Unknown}
    [] reply.code = "PATH_EXISTS" -> known[j.to] # NoFile
    [] reply.code = "SUCCESS" -> known[j.name] # NoFile /\ known[j.to] \in {NoFile, Unknown}
    [] OTHER -> reply.code = "SYSTEM"

(* A request which overlapped no writer of its names gets the answer that  *)
(* the answers before it call for: a pull returns what was pushed there    *)
(* last, or renamed there, whole or the range that was asked for, with its *)
(* length -- however crashes, failing writes and overlapping requests have *)
(* left the names before those answers.                                    *)
CalmIsAtomic ==
  [][\A h \in Servers \ clash :
       answer'.by = h =>
         /\ job[h].at \in PullSteps => PullIsRight(job[h], known[job[h].name], answer')
         /\ job[h].at \in RenameSteps => RenameIsRight(job[h], answer')]_transferVars
=============================================================================
