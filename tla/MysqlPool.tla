----------------------------- MODULE MysqlPool -----------------------------
(***************************************************************************)
(* The MySQL connection of one nginx worker: open/linkup/mysql_pool_api.lua.*)
(*                                                                         *)
(* A worker is single-threaded and its calls block, so one request is      *)
(* served at a time; what interleaves with it is the server, which may go  *)
(* down, come back, or drop the session between any two calls of the       *)
(* worker.  A statement can be lost: the session breaks after the          *)
(* statement was sent, and it took effect or not.                          *)
(*                                                                         *)
(* A request is the argument of cmd(): one statement ("single"), a table   *)
(* of statements run one by one ("batch"), or one transaction ("affairs"). *)
(***************************************************************************)
EXTENDS Naturals

CONSTANTS
  MaxRecnt,   \* MAX_RECNT: connection attempts, and rounds of one statement
  MaxStmts    \* bound: statements in one request

ASSUME MaxRecntAssumption == MaxRecnt \in Nat \ {0}
ASSUME MaxStmtsAssumption == MaxStmts \in Nat \ {0}

VARIABLES
  server,     \* is mysqld reachable
  session,    \* OWN_MYSQL_POOLS[name]: nil, a live handle, or a handle whose session is gone
  autocommit, \* the live session's autocommit mode
  pc,         \* where the worker is
  caller,     \* who called new_connect
  nb,         \* new_connect's attempt counter
  index,      \* mysql_cmd's round counter
  conn,       \* mysql_cmd's conn: the last flush_pool succeeded
  outcome,    \* mysql_cmd's stat and ret: the round "threw", or returned "nil" or a "result"
  kind,       \* kind of the request
  n,          \* number of its statements
  at,         \* the statement being run
  done,       \* done[i]: how often statement i took durable effect
  open,       \* statements executed in the open transaction
  reply,      \* what cmd() returned
  saw         \* history: what happened since cmd() was called: the pooled session was
              \* dead ("stale"), the server was down or failed ("fault"), it refused
              \* the SQL of a statement ("refusal")

connVars == <<server, session, autocommit>>
cmdVars  == <<index, conn, outcome>>
reqVars  == <<kind, n>>
vars == <<server, session, autocommit, pc, caller, nb, index, conn, outcome,
          kind, n, at, done, open, reply, saw>>

Stmts == 1 .. MaxStmts

TypeOK ==
  /\ server \in {"up", "down"}
  /\ session \in {"none", "live", "dead"}
  /\ autocommit \in {"on", "off"}
  /\ pc \in {"idle", "connecting", "round", "affairs", "restore", "flush", "tally"}
  /\ caller \in {"init", "fetch", "flush"}
  /\ nb \in Nat
  /\ index \in Nat
  /\ conn \in {"ok", "failed"}
  /\ outcome \in {"threw", "nil", "result"}
  /\ kind \in {"single", "batch", "affairs"}
  /\ n \in Stmts
  /\ at \in 1 .. MaxStmts + 1
  /\ done \in [Stmts -> Nat]
  /\ open \in SUBSET Stmts
  /\ reply \in {"none", "ok", "fail"}
  /\ saw \in SUBSET {"stale", "fault", "refusal"}

(* A worker starts with an empty pool and runs init().                     *)
Init ==
  /\ server \in {"up", "down"}
  /\ session = "none"
  /\ autocommit = "on"
  /\ pc = "connecting"
  /\ caller = "init"
  /\ nb = 0
  /\ index = 0
  /\ conn = "ok"
  /\ outcome = "threw"
  /\ kind = "single"
  /\ n = 1
  /\ at = 1
  /\ done = [i \in Stmts |-> 0]
  /\ open = {}
  /\ reply = "none"
  /\ saw = {}

---------------------------------------------------------------------------
(* mysql_cmd is entered afresh for the statement `at'.                     *)
EnterMysqlCmd ==
  /\ pc' = "round"
  /\ index' = 0
  /\ conn' = "ok"
  /\ outcome' = "threw"

(* cmd() returns to its handler.                                           *)
Return(r) ==
  /\ pc' = "idle"
  /\ reply' = r

(* cmd() is called; fetch_pool connects if the pool is empty.              *)
Cmd(k, m) ==
  /\ pc = "idle"
  /\ k = "single" => m = 1
  /\ kind' = k
  /\ n' = m
  /\ at' = 1
  /\ done' = [i \in Stmts |-> 0]
  /\ reply' = "none"
  /\ saw' = (IF session = "dead" THEN {"stale"} ELSE {})
             \union (IF server = "down" THEN {"fault"} ELSE {})
  /\ IF session = "none"
       THEN pc' = "connecting" /\ caller' = "fetch" /\ nb' = 0 /\ UNCHANGED cmdVars
       ELSE EnterMysqlCmd /\ UNCHANGED <<caller, nb>>
  /\ UNCHANGED <<connVars, open>>

(* One turn of new_connect's repeat loop.  The attempt that brings nb to   *)
(* MAX_RECNT returns false whether or not it connected.                    *)
NewConnect ==
  LET connected == server = "up"
      exhausted == nb + 1 >= MaxRecnt
      ok        == connected /\ ~exhausted
  IN
  /\ pc = "connecting"
  /\ nb' = nb + 1
  /\ session' = IF connected THEN "live" ELSE "none"
  /\ autocommit' = "on"
  /\ \/ /\ ~connected /\ ~exhausted
        /\ UNCHANGED <<pc, reply, cmdVars>>
     \/ /\ connected \/ exhausted
        /\ caller = "init"
        /\ pc' = "idle"
        /\ UNCHANGED <<reply, cmdVars>>
     \/ /\ connected \/ exhausted
        /\ caller = "fetch"
        /\ IF ok THEN EnterMysqlCmd /\ UNCHANGED reply
                 ELSE Return("fail") /\ UNCHANGED cmdVars
     \/ /\ connected \/ exhausted
        /\ caller = "flush"
        /\ conn' = IF ok THEN "ok" ELSE "failed"
        /\ pc' = "tally"
        /\ UNCHANGED <<reply, index, outcome>>
  /\ UNCHANGED <<server, caller, reqVars, at, done, open, saw>>

---------------------------------------------------------------------------
(* The round's pcall ended; a throw goes on to flush_pool.                 *)
RoundEnds(o) ==
  /\ outcome' = o
  /\ pc' = IF o = "threw" THEN "flush" ELSE "tally"

(* done, once the statements of S took durable effect.                     *)
TookEffect(S) == [i \in Stmts |-> IF i \in S THEN done[i] + 1 ELSE done[i]]

(* mysql_api_execute: the statement runs and autocommits.                  *)
Execute ==
  /\ pc = "round" /\ conn = "ok" /\ kind # "affairs" /\ session = "live"
  /\ done' = TookEffect({at})
  /\ RoundEnds("result")
  /\ UNCHANGED <<connVars, caller, nb, index, conn, reqVars, at, open, reply, saw>>

(* mysql_api_execute: the server refuses the SQL; nil is returned.         *)
Reject ==
  /\ pc = "round" /\ conn = "ok" /\ kind # "affairs" /\ session = "live"
  /\ saw' = saw \union {"refusal"}
  /\ RoundEnds("nil")
  /\ UNCHANGED <<connVars, caller, nb, index, conn, reqVars, at, done, open, reply>>

(* mysql_api_execute: InnoDB chose the statement as deadlock victim.       *)
Deadlock ==
  /\ pc = "round" /\ conn = "ok" /\ kind # "affairs" /\ session = "live"
  /\ saw' = saw \union {"fault"}
  /\ RoundEnds("threw")
  /\ UNCHANGED <<connVars, caller, nb, index, conn, reqVars, at, done, open, reply>>

LostWith(o) ==
  /\ pc = "round" /\ conn = "ok" /\ kind # "affairs" /\ session = "live"
  /\ session' = "dead"
  /\ saw' = saw \union {"fault"}
  /\ \/ done' = TookEffect({at})
     \/ UNCHANGED done
  /\ RoundEnds(o)
  /\ UNCHANGED <<server, autocommit, caller, nb, index, conn, reqVars, at, open, reply>>

(* Mutants of Lost: taken for a result; taken for a broken connection, so  *)
(* that the statement is sent again.                                       *)
LostAsResult == LostWith("result")
LostRetried  == LostWith("threw")

(* mysql_api_execute: "Lost connection during query", which none of the    *)
(* three patterns matches: nil is returned, the handle stays in the pool.  *)
Lost == LostWith("nil")

(* Mutant of GoneAway: the pattern misses the message, nil is returned.    *)
GoneAwayUnnoticed ==
  /\ pc = "round" /\ conn = "ok" /\ kind # "affairs" /\ session # "live"
  /\ RoundEnds("nil")
  /\ UNCHANGED <<connVars, caller, nb, index, conn, reqVars, at, done, open, reply, saw>>

(* mysql_api_execute: "server has gone away"; the assertion throws.        *)
GoneAway ==
  /\ pc = "round" /\ conn = "ok" /\ kind # "affairs" /\ session # "live"
  /\ RoundEnds("threw")
  /\ UNCHANGED <<connVars, caller, nb, index, conn, reqVars, at, done, open, reply, saw>>

(* A round without a connection runs nothing; stat stays false.            *)
SkipRound ==
  /\ pc = "round" /\ conn = "failed"
  /\ pc' = "flush"
  /\ UNCHANGED <<connVars, caller, nb, cmdVars, reqVars, at, done, open, reply, saw>>

---------------------------------------------------------------------------
(* Mutant of AffairsBegin: setautocommit(false) is forgotten.              *)
AffairsBeginAutocommit ==
  /\ pc = "round" /\ conn = "ok" /\ kind = "affairs"
  /\ at' = 1
  /\ pc' = "affairs"
  /\ UNCHANGED <<connVars, caller, nb, cmdVars, reqVars, done, open, reply, saw>>

(* mysql_api_commit: setautocommit(false); it returns true on any handle.  *)
AffairsBegin ==
  /\ pc = "round" /\ conn = "ok" /\ kind = "affairs"
  /\ autocommit' = IF session = "live" THEN "off" ELSE autocommit
  /\ at' = 1
  /\ pc' = "affairs"
  /\ UNCHANGED <<server, session, caller, nb, cmdVars, reqVars, done, open, reply, saw>>

AffairsExecute ==
  /\ pc = "affairs" /\ at <= n /\ session = "live"
  /\ IF autocommit = "on"
       THEN done' = TookEffect({at}) /\ UNCHANGED open
       ELSE open' = open \union {at} /\ UNCHANGED done
  /\ at' = at + 1
  /\ UNCHANGED <<connVars, pc, caller, nb, cmdVars, reqVars, reply, saw>>

(* A statement of the transaction fails, for any of the reasons of a       *)
(* single statement: rollback(), setautocommit(true), return false.  The   *)
(* inner pcall hides a gone-away error from mysql_cmd, so stat is true.    *)
AffairsAbort ==
  /\ pc = "affairs" /\ at <= n
  /\ \/ /\ session = "live"                     \* refused SQL
        /\ saw' = saw \union {"refusal"}
        /\ autocommit' = "on"
        /\ UNCHANGED session
     \/ /\ session = "live"                     \* deadlock victim
        /\ saw' = saw \union {"fault"}
        /\ autocommit' = "on"
        /\ UNCHANGED session
     \/ /\ session = "live"                     \* connection lost
        /\ session' = "dead"
        /\ saw' = saw \union {"fault"}
        /\ UNCHANGED autocommit
     \/ /\ session # "live"                     \* gone away
        /\ UNCHANGED <<session, autocommit, saw>>
  /\ open' = {}
  /\ RoundEnds("nil")
  /\ UNCHANGED <<server, caller, nb, index, conn, reqVars, at, done, reply>>

AffairsCommit ==
  /\ pc = "affairs" /\ at > n /\ session = "live"
  /\ done' = TookEffect(open)
  /\ open' = {}
  /\ pc' = "restore"
  /\ UNCHANGED <<connVars, caller, nb, cmdVars, reqVars, at, reply, saw>>

(* commit() fails: the session is gone, or is lost during the commit,      *)
(* which then took effect or not.  setautocommit(true), return false.      *)
AffairsCommitFails ==
  /\ pc = "affairs" /\ at > n
  /\ session' = "dead"
  /\ saw' = saw \union {"fault"}
  /\ \/ session = "live" /\ done' = TookEffect(open)
     \/ UNCHANGED done
  /\ open' = {}
  /\ RoundEnds("nil")
  /\ UNCHANGED <<server, autocommit, caller, nb, index, conn, reqVars, at, reply>>

(* Mutant of AffairsRestore: autocommit stays off after the commit.        *)
AffairsRestoreForgotten ==
  /\ pc = "restore"
  /\ RoundEnds("result")
  /\ UNCHANGED <<connVars, caller, nb, index, conn, reqVars, at, done, open, reply, saw>>

(* setautocommit(true) after the commit; it returns true on any handle.    *)
AffairsRestore ==
  /\ pc = "restore"
  /\ autocommit' = IF session = "live" THEN "on" ELSE autocommit
  /\ RoundEnds("result")
  /\ UNCHANGED <<server, session, caller, nb, index, conn, reqVars, at, done, open, reply, saw>>

---------------------------------------------------------------------------
(* Mutant of FlushPool: reconnecting starts the rounds over.               *)
FlushPoolRestartsRounds ==
  /\ pc = "flush"
  /\ session' = "none"
  /\ open' = {}
  /\ pc' = "connecting"
  /\ caller' = "flush"
  /\ nb' = 0
  /\ index' = 0
  /\ UNCHANGED <<server, autocommit, conn, outcome, reqVars, at, done, reply, saw>>

(* flush_pool: close the handle, which rolls back what is open, reconnect. *)
FlushPool ==
  /\ pc = "flush"
  /\ session' = "none"
  /\ open' = {}
  /\ pc' = "connecting"
  /\ caller' = "flush"
  /\ nb' = 0
  /\ UNCHANGED <<server, autocommit, cmdVars, reqVars, at, done, reply, saw>>

(* The end of a round: the round counter, which ends the statement even    *)
(* when this round succeeded; then the result of the statement.            *)
Tally ==
  /\ pc = "tally"
  /\ \/ /\ index + 1 >= MaxRecnt
        /\ index' = index + 1
        /\ Return("fail")
        /\ UNCHANGED <<conn, outcome, at>>
     \/ /\ index + 1 < MaxRecnt /\ outcome = "threw"
        /\ index' = index + 1
        /\ pc' = "round"
        /\ UNCHANGED <<conn, outcome, at, reply>>
     \/ /\ index + 1 < MaxRecnt /\ outcome = "nil"
        /\ index' = index + 1
        /\ Return("fail")
        /\ UNCHANGED <<conn, outcome, at>>
     \/ /\ index + 1 < MaxRecnt /\ outcome = "result" /\ (kind # "batch" \/ at = n)
        /\ index' = index + 1
        /\ Return("ok")
        /\ UNCHANGED <<conn, outcome, at>>
     \/ /\ index + 1 < MaxRecnt /\ outcome = "result" /\ kind = "batch" /\ at < n
        /\ at' = at + 1
        /\ EnterMysqlCmd
        /\ UNCHANGED reply
  /\ UNCHANGED <<connVars, caller, nb, reqVars, done, open, saw>>

---------------------------------------------------------------------------
(* The server.                                                             *)
Disconnect ==
  /\ session' = IF session = "live" THEN "dead" ELSE session
  /\ open' = IF session = "live" THEN {} ELSE open
  /\ saw' = saw \union {"fault"}

ServerDown ==
  /\ server = "up"
  /\ server' = "down"
  /\ Disconnect
  /\ UNCHANGED <<autocommit, pc, caller, nb, cmdVars, reqVars, at, done, reply>>

ServerUp ==
  /\ server = "down"
  /\ server' = "up"
  /\ UNCHANGED <<session, autocommit, pc, caller, nb, cmdVars, reqVars, at, done, open, reply, saw>>

(* wait_timeout, or an administrator, ends the session.                    *)
SessionDropped ==
  /\ session = "live"
  /\ Disconnect
  /\ UNCHANGED <<server, autocommit, pc, caller, nb, cmdVars, reqVars, at, done, reply>>

Worker ==
  \/ NewConnect
  \/ Execute \/ Reject \/ Deadlock \/ Lost \/ GoneAway \/ SkipRound
  \/ AffairsBegin \/ AffairsExecute \/ AffairsAbort
  \/ AffairsCommit \/ AffairsCommitFails \/ AffairsRestore
  \/ FlushPool \/ Tally

(* A request.  The loop over a batch stops at an element that is not a     *)
(* table and answers as if the batch ended before it, so that m counts the *)
(* elements up to there; a batch with none, which is answered false before *)
(* anything is sent, is left out: no caller passes a batch at all.         *)
Handler == \E k \in {"single", "batch", "affairs"}, m \in Stmts : Cmd(k, m)

Server == ServerDown \/ ServerUp \/ SessionDropped

Next == Worker \/ Handler \/ Server

(* The worker's code runs to its next blocking call; handlers and server   *)
(* owe nothing.                                                            *)
Spec == Init /\ [][Next]_vars /\ WF_vars(Worker)

---------------------------------------------------------------------------
(* Properties.                                                             *)

(* When cmd() returns true, every statement of the request took durable    *)
(* effect exactly once, whatever reconnects happened on the way.           *)
AckedExactlyOnce ==
  reply = "ok" => \A i \in Stmts : done[i] = (IF i <= n THEN 1 ELSE 0)

(* No retry runs a statement that has already taken effect.                *)
NeverTwice == \A i \in Stmts : done[i] <= 1

(* A batch that stops half way leaves no gap: what took effect is a        *)
(* prefix of the batch.                                                    *)
PrefixApplied ==
  kind = "batch" =>
    \A i, j \in Stmts : i < j /\ done[j] > 0 => done[i] > 0

(* A transaction is all or nothing, also when the session dies inside it   *)
(* or during its commit.                                                   *)
AffairsAtomic ==
  kind = "affairs" => \A i, j \in 1 .. n : done[i] = done[j]

(* Between requests the pool never holds a live session that is inside a   *)
(* transaction: later statements would be rolled back with it.             *)
IdleSessionAutocommits ==
  pc = "idle" /\ session = "live" => autocommit = "on" /\ open = {}

(* A request that found the server up and met no failure fails only if     *)
(* the server refused its SQL, even if the pooled session was dead when it *)
(* began.  (A transaction on a dead session does fail: its inner pcall     *)
(* hides the error from mysql_cmd, which therefore never reconnects.)      *)
FreshRequestServed ==
  /\ reply = "fail"
  /\ "fault" \notin saw
  /\ kind = "affairs" => "stale" \notin saw
  => "refusal" \in saw

(* Every request is answered, however often the server fails.              *)
Terminates == (pc # "idle") ~> (pc = "idle")

(* The strengthening that makes the safety properties inductive.           *)

(* Only a running transaction has autocommit off or statements uncommitted,*)
(* a reply is there only between requests, and flush_pool follows a throw. *)
TransactionInv ==
  /\ session = "live" /\ autocommit = "off" => pc \in {"affairs", "restore"}
  /\ open # {} => pc = "affairs" /\ session = "live"
  /\ pc \in {"affairs", "restore"} => kind = "affairs"
  /\ reply # "none" => pc = "idle"
  /\ kind = "single" => n = 1
  /\ pc \in {"round", "flush"} \/ (pc = "connecting" /\ caller = "flush") => outcome = "threw"

(* A single statement or a batch: what precedes `at' took effect once, what*)
(* follows it has not run, and `at' itself only if its round returned.     *)
StatementInv ==
  kind # "affairs" =>
    /\ at <= n
    /\ \A i \in Stmts : (i < at => done[i] = 1) /\ (i > at => done[i] = 0)
    /\ done[at] \in {0, 1}
    /\ pc \in {"connecting", "round", "flush"} => done[at] = 0
    /\ pc = "tally" /\ outcome = "threw" => done[at] = 0
    /\ pc = "tally" /\ outcome = "result" => done[at] = 1
    /\ reply = "ok" => at = n /\ done[at] = 1

(* A transaction: its first round ends it, its statements take effect      *)
(* together, and only by its commit.                                       *)
AffairsInv ==
  kind = "affairs" =>
    /\ pc \notin {"flush"}
    /\ pc = "connecting" => caller = "fetch"
    /\ pc = "round" => conn = "ok"
    /\ \A i \in Stmts : done[i] = (IF i <= n THEN done[1] ELSE 0)
    /\ done[1] \in {0, 1}
    /\ pc \in {"connecting", "round", "affairs"} => done[1] = 0
    /\ pc = "affairs" => at <= n + 1
    /\ pc = "affairs" /\ session = "live" => autocommit = "off" /\ open = 1 .. at - 1
    /\ pc = "restore" => done[1] = 1
    /\ pc = "tally" => outcome # "threw"
    /\ pc = "tally" /\ outcome = "result" => done[1] = 1
    /\ reply = "ok" => done[1] = 1

(* A request that met no fault and no refusal, and is no transaction on a   *)
(* dead session, spends at most one round on finding its session dead, and *)
(* reconnects at the first attempt.                                        *)
Undisturbed ==
  /\ saw \intersect {"fault", "refusal"} = {}
  /\ kind = "affairs" => "stale" \notin saw

FreshInv ==
  Undisturbed =>
    /\ pc # "idle" /\ (pc = "connecting" => caller # "init") => server = "up"
    /\ pc = "connecting" /\ caller # "init" => nb = 0
    /\ pc = "connecting" /\ caller = "flush" => index = 0
    /\ pc = "round" => /\ conn = "ok" /\ session # "none"
                       /\ index = 0 \/ (index = 1 /\ session = "live")
                       /\ session = "dead" => "stale" \in saw
    /\ pc \in {"affairs", "restore"} => index = 0 /\ session = "live"
    /\ pc = "flush" => index = 0
    /\ pc = "round" /\ kind = "affairs" => index = 0
    /\ pc = "tally" => /\ session = "live"
                       /\ \/ outcome = "result" /\ index <= 1
                          \/ outcome = "threw" /\ index = 0 /\ conn = "ok"
    /\ reply # "fail"

IInv == TypeOK /\ TransactionInv /\ StatementInv /\ AffairsInv

(* What the log line of mysql_cmd says when the rounds are used up: "this  *)
(* request failed!".  It would hold if a statement that returned a result  *)
(* were never reported as failed.                                          *)
FailureReportIsTrue ==
  reply = "fail" /\ index >= MaxRecnt => outcome # "result"

============================================================================
